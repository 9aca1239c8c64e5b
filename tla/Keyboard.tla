------------------------------ MODULE Keyboard ------------------------------
(***************************************************************************)
(* Keyboard input (include/keyboard.cpp) and the read() system call that   *)
(* waits for it (console_read in include/file.cpp).                        *)
(*                                                                         *)
(* The interrupt handler runs with interrupts off, so it is one step.  The *)
(* reader runs with interrupts on from its first sti, so every access it   *)
(* makes to head_, tail_ and buffer_ is a step of its own and an interrupt *)
(* may come between any two.  A reader does not yield: there is one.       *)
(***************************************************************************)
EXTENDS Naturals, Sequences

CONSTANTS Size,       \* buffer_.size()
          Count,      \* the count of a read()
          MaxKeys     \* bound on the number of keyboard interrupts

ASSUME KeyboardConstants ==
    /\ Size \in Nat \ {0}
    /\ Count \in Nat
    /\ MaxKeys \in Nat

Indices == 0 .. Size - 1

\* The scancodes handle_irq() tells apart.  "shift_down" and "shift_up" are those of
\* either Shift key, "letter" and "enter" keys with a character, "delete" is 0x53,
\* "other" a key without a character (its entry in both maps is 0), "release" the
\* release of any key but Shift.
Scancodes == {"prefix", "shift_down", "shift_up", "letter", "enter", "delete",
              "other", "release"}

NoChar == "none"         \* the character 0
Chars  == {"a", "A", "newline", "backspace"}

VARIABLES
    buffer, head, tail,         \* buffer_, head_, tail_
    shift_pressed, extended,    \* shift_pressed_, extended_
    pc,             \* what the CPU executes next outside interrupt handlers: a step of
                    \* initialize(), "idle" (no read() in progress), or a step of
                    \* console_read()
    if_flag,        \* IF, the CPU's interrupt flag
    shadow,         \* the next instruction follows an sti that turned IF on
    c, done,        \* locals of console_read()
    keys,           \* number of keyboard interrupts so far
    typed,          \* history: characters accepted since head_ was reset
    got             \* history: characters console_read() stored since then

kbdVars == <<buffer, head, shift_pressed, extended, keys, typed>>
vars == <<kbdVars, tail, pc, if_flag, shadow, c, done, got>>

\* kernel_main() turned interrupts on when it loaded the IDT; IRQ1 is still masked.
Init ==
    /\ buffer = [i \in Indices |-> NoChar]
    /\ head = 0 /\ tail = 0
    /\ shift_pressed = FALSE /\ extended = FALSE
    /\ pc = "unmask"
    /\ if_flag = TRUE /\ shadow = FALSE
    /\ c = NoChar /\ done = 0
    /\ keys = 0
    /\ typed = <<>> /\ got = <<>>

-----------------------------------------------------------------------------
(* Interrupts *)

\* The CPU takes interrupts: IF is on, and not in the shadow of the sti that turned it on.
Interruptible == if_flag /\ ~shadow

\* Mutant of Woken: the reader does not look again (if instead of while).
WokenUnchecked == pc' = IF pc = "halted" THEN "load" ELSE pc

\* Returning from an interrupt ends a hlt.
Woken == pc' = IF pc = "halted" THEN "check" ELSE pc

\* Mutant of enqueue: a full buffer is not noticed.
enqueue_always(ch) ==
    LET accepted == ch # NoChar
    IN  /\ buffer' = IF accepted THEN [buffer EXCEPT ![head] = ch] ELSE buffer
        /\ head' = IF accepted THEN (head + 1) % Size ELSE head
        /\ typed' = IF accepted THEN Append(typed, ch) ELSE typed

\* enqueue(): a character is dropped when the buffer is full.
enqueue(ch) ==
    LET accepted == ch # NoChar /\ (head + 1) % Size # tail
    IN  /\ buffer' = IF accepted THEN [buffer EXCEPT ![head] = ch] ELSE buffer
        /\ head' = IF accepted THEN (head + 1) % Size ELSE head
        /\ typed' = IF accepted THEN Append(typed, ch) ELSE typed

\* The character of a key that is pressed: the two maps, and Delete behind a prefix.
CharOf(sc) ==
    CASE extended /\ sc = "delete"  -> "backspace"
      [] ~extended /\ sc = "letter" -> IF shift_pressed THEN "A" ELSE "a"
      [] ~extended /\ sc = "enter"  -> "newline"
      [] OTHER -> NoChar

\* keyboard::handle_irq(), from irq_handler(), with the scancode sc in the data port.
handle_irq(sc) ==
    /\ Interruptible
    /\ pc # "unmask"
    /\ keys < MaxKeys
    /\ keys' = keys + 1
    /\ extended' = (sc = "prefix")
    /\ shift_pressed' = IF extended THEN shift_pressed
                        ELSE sc = "shift_down" \/ (shift_pressed /\ sc # "shift_up")
    /\ enqueue(CharOf(sc))
    /\ Woken
    /\ UNCHANGED <<tail, if_flag, shadow, c, done, got>>

\* Mutant of timer_tick: IRQ0 stays masked.
timer_masked == FALSE /\ UNCHANGED vars

\* irq0_handler() only counts; what matters here is that it ends a hlt.
timer_tick ==
    /\ Interruptible
    /\ pc = "halted"
    /\ Woken
    /\ UNCHANGED <<kbdVars, tail, if_flag, shadow, c, done, got>>

-----------------------------------------------------------------------------
(* initialize(): IRQ1 is unmasked first, with IF on, and the assignments follow. *)

unmask_irq ==
    /\ pc = "unmask"
    /\ pc' = "reset_tail"
    /\ UNCHANGED <<kbdVars, tail, if_flag, shadow, c, done, got>>

\* head_ = tail_ = 0 stores tail_ before head_.
reset_tail ==
    /\ pc = "reset_tail"
    /\ tail' = 0
    /\ pc' = "reset_head"
    /\ UNCHANGED <<kbdVars, if_flag, shadow, c, done, got>>

reset_head ==
    /\ pc = "reset_head"
    /\ head' = 0
    /\ typed' = <<>> /\ got' = <<>>
    /\ pc' = "reset_shift"
    /\ UNCHANGED <<buffer, tail, shift_pressed, extended, keys, if_flag, shadow, c, done>>

reset_shift ==
    /\ pc = "reset_shift"
    /\ shift_pressed' = FALSE
    /\ pc' = "reset_extended"
    /\ UNCHANGED <<buffer, head, tail, extended, keys, typed, if_flag, shadow, c, done, got>>

reset_extended ==
    /\ pc = "reset_extended"
    /\ extended' = FALSE
    /\ pc' = "idle"
    /\ UNCHANGED <<buffer, head, tail, shift_pressed, keys, typed, if_flag, shadow,
                   c, done, got>>

initialize == unmask_irq \/ reset_tail \/ reset_head \/ reset_shift \/ reset_extended

-----------------------------------------------------------------------------
(* read() on the console *)

\* The head of console_read()'s loop with d characters stored; at its end sysret puts
\* the user's IF back.
Loop(d) ==
    /\ done' = d
    /\ pc' = IF d < Count THEN "check" ELSE "idle"

\* The system call enters the kernel with IF off (FMASK).
sys_read ==
    /\ pc = "idle"
    /\ Loop(0)
    /\ if_flag' = (pc' = "idle")
    /\ UNCHANGED <<kbdVars, tail, shadow, c, got>>

\* while (!has_input()).
has_input ==
    /\ pc = "check"
    /\ pc' = IF head # tail THEN "load" ELSE "sti"
    /\ UNCHANGED <<kbdVars, tail, if_flag, shadow, c, done, got>>

\* sti delays interrupts by one instruction only if IF was off.
sti ==
    /\ pc = "sti"
    /\ if_flag' = TRUE
    /\ shadow' = ~if_flag
    /\ pc' = "hlt"
    /\ UNCHANGED <<kbdVars, tail, c, done, got>>

\* hlt stops the CPU until an interrupt comes.
hlt ==
    /\ pc = "hlt"
    /\ shadow' = FALSE
    /\ pc' = "halted"
    /\ UNCHANGED <<kbdVars, tail, if_flag, c, done, got>>

\* getchar() reads buffer_[tail_]...
getchar_load ==
    /\ pc = "load"
    /\ c' = IF head = tail THEN NoChar ELSE buffer[tail]
    /\ pc' = IF head = tail THEN "store" ELSE "advance"
    /\ UNCHANGED <<kbdVars, tail, if_flag, shadow, done, got>>

\* ...and gives the slot back to the interrupt handler.
getchar_advance ==
    /\ pc = "advance"
    /\ tail' = (tail + 1) % Size
    /\ pc' = "store"
    /\ UNCHANGED <<kbdVars, if_flag, shadow, c, done, got>>

\* The rest of the loop body: 0 or a newline ends the read.
store_char ==
    /\ pc = "store"
    /\ got' = IF c = NoChar THEN got ELSE Append(got, c)
    /\ IF c \in {NoChar, "newline"} THEN pc' = "idle" /\ UNCHANGED done ELSE Loop(done + 1)
    /\ if_flag' = (if_flag \/ pc' = "idle")
    /\ UNCHANGED <<kbdVars, tail, shadow, c>>

console_read == has_input \/ sti \/ hlt \/ getchar_load \/ getchar_advance \/ store_char

-----------------------------------------------------------------------------

Next ==
    \/ initialize
    \/ sys_read
    \/ console_read
    \/ timer_tick
    \/ \E sc \in Scancodes : handle_irq(sc)

Spec == Init /\ [][Next]_vars

\* The CPU executes its instructions, and the PIT interrupts it 100 times a second.
FairSpec == Spec /\ WF_vars(initialize) /\ WF_vars(console_read) /\ WF_vars(timer_tick)

-----------------------------------------------------------------------------
(* Properties *)

Steps == {"unmask", "reset_tail", "reset_head", "reset_shift", "reset_extended", "idle",
          "check", "sti", "hlt", "halted", "load", "advance", "store"}

TypeOK ==
    /\ buffer \in [Indices -> Chars \cup {NoChar}]
    /\ head \in Indices /\ tail \in Indices
    /\ shift_pressed \in BOOLEAN /\ extended \in BOOLEAN
    /\ pc \in Steps
    /\ if_flag \in BOOLEAN /\ shadow \in BOOLEAN
    /\ c \in Chars \cup {NoChar}
    /\ done \in 0 .. Count
    /\ keys \in 0 .. MaxKeys
    /\ typed \in Seq(Chars) /\ got \in Seq(Chars)

\* The characters in the ring, oldest first.
Contents ==
    [k \in 1 .. (head + Size - tail) % Size |-> buffer[(tail + k - 1) % Size]]

\* getchar()'s result on its way to the caller.
InFlight == IF pc = "store" /\ c # NoChar THEN <<c>> ELSE <<>>

\* The type invariant, and getchar(): every accepted character is read once, unchanged and
\* in order, although the interrupt handler may fill the ring between any two of its
\* accesses, up to the slot it is reading.
InOrder == TypeOK /\ got \o InFlight \o Contents = typed

\* getchar() after has_input() returns a character: the end of the read that stands for
\* "no more input" is never taken, whatever interrupts come in between.
NeverEmptyHanded == pc \in {"load", "advance"} => head # tail

\* A read() that waits takes the input that is there, even if it came while the reader
\* was on its way into hlt.
InputIsRead == (pc \in {"check", "sti", "hlt", "halted"} /\ head # tail) ~> pc = "load"
=============================================================================
