--------------------------- MODULE KeyboardProofs ---------------------------
(***************************************************************************)
(* Proofs about the keyboard's ring buffer and its reader.                 *)
(***************************************************************************)
EXTENDS Keyboard, SequenceTheorems, TLAPS

Initializing == {"unmask", "reset_tail", "reset_head", "reset_shift", "reset_extended"}

\* What getchar() and console_read() know between their steps.
ReaderInv ==
    /\ pc \in {"unmask", "reset_tail", "reset_head"} => tail = 0 /\ got = <<>>
    /\ pc \in Initializing => c = NoChar
    /\ pc \notin Initializing \cup {"idle"} => done < Count
    /\ pc = "advance" => c = buffer[tail]
    /\ pc = "store" => c # NoChar

KeyboardInv == InOrder /\ NeverEmptyHanded /\ ReaderInv

-----------------------------------------------------------------------------
(* The ring *)

\* Indices wrap around at most once.
LEMMA Wrap ==
    ASSUME NEW x \in Nat, x < 2 * Size
    PROVE  x % Size = IF x < Size THEN x ELSE x - Size
<1>1. Size \in Nat \ {0}
  BY KeyboardConstants
<1>2. CASE x < Size
  BY <1>1, <1>2
<1>3. CASE x >= Size
  <2>1. x = 1 * Size + (x - Size) /\ x - Size \in 0 .. Size - 1
    BY <1>1, <1>3
  <2>2. QED
    BY <1>1, <1>3, <2>1
<1>4. QED
  BY <1>1, <1>2, <1>3

\* The number of characters in a ring, and where they are.
LEMMA RingFacts ==
    ASSUME NEW h \in Indices, NEW t \in Indices
    PROVE  /\ (h + Size - t) % Size = IF h >= t THEN h - t ELSE h + Size - t
           /\ (h + 1) % Size = IF h + 1 = Size THEN 0 ELSE h + 1
           /\ \A k \in 1 .. Size : (t + k - 1) % Size = IF t + k - 1 < Size THEN t + k - 1
                                                        ELSE t + k - 1 - Size
<1>1. Size \in Nat \ {0}
  BY KeyboardConstants
<1>2. (h + Size - t) % Size = IF h >= t THEN h - t ELSE h + Size - t
  <2>1. h + Size - t \in Nat /\ h + Size - t < 2 * Size
    BY <1>1 DEF Indices
  <2>2. QED
    BY <1>1, <2>1, Wrap DEF Indices
<1>3. (h + 1) % Size = IF h + 1 = Size THEN 0 ELSE h + 1
  <2>1. h + 1 \in Nat /\ h + 1 < 2 * Size
    BY <1>1 DEF Indices
  <2>2. QED
    BY <1>1, <2>1, Wrap DEF Indices
<1>4. ASSUME NEW k \in 1 .. Size
      PROVE  (t + k - 1) % Size = IF t + k - 1 < Size THEN t + k - 1 ELSE t + k - 1 - Size
  <2>1. t + k - 1 \in Nat /\ t + k - 1 < 2 * Size
    BY <1>1 DEF Indices
  <2>2. \A x \in Nat : x < 2 * Size => x % Size = IF x < Size THEN x ELSE x - Size
    BY Wrap
  <2>3. QED
    BY <1>1, <2>1, <2>2 DEF Indices
<1>5. QED
  BY <1>2, <1>3, <1>4

\* The ring holds at most Size - 1 characters, and all of them are characters.
LEMMA ContentsFacts ==
    ASSUME TypeOK
    PROVE  /\ Contents \in Seq(Chars \cup {NoChar})
           /\ Len(Contents) = IF head >= tail THEN head - tail ELSE head + Size - tail
           /\ \A k \in 1 .. Len(Contents) :
                  Contents[k] = buffer[IF tail + k - 1 < Size THEN tail + k - 1
                                       ELSE tail + k - 1 - Size]
<1> DEFINE n == IF head >= tail THEN head - tail ELSE head + Size - tail
           at(k) == IF tail + k - 1 < Size THEN tail + k - 1 ELSE tail + k - 1 - Size
<1>1. Size \in Nat \ {0} /\ head \in 0 .. Size - 1 /\ tail \in 0 .. Size - 1
  BY KeyboardConstants DEF TypeOK, Indices
<1>2. n \in Nat /\ n < Size
  BY <1>1
<1>3. (head + Size - tail) % Size = n
  BY <1>1, RingFacts DEF Indices
<1>4. \A k \in 1 .. Size : (tail + k - 1) % Size = at(k)
  BY <1>1, RingFacts DEF Indices
<1>5. \A k \in 1 .. n : at(k) \in Indices
  BY <1>1, <1>2 DEF Indices
<1> HIDE DEF n, at
<1>6. \A k \in 1 .. n : (tail + k - 1) % Size = at(k)
  BY <1>1, <1>2, <1>4
<1>7. Contents = [k \in 1 .. n |-> buffer[at(k)]]
  BY <1>3, <1>6 DEF Contents
<1>8. \A k \in 1 .. n : buffer[at(k)] \in Chars \cup {NoChar}
  BY <1>5 DEF TypeOK
<1>9. Contents \in [1 .. n -> Chars \cup {NoChar}]
  BY <1>7, <1>8
<1>10. Contents \in Seq(Chars \cup {NoChar}) /\ Len(Contents) = n
  BY <1>2, <1>9
<1>11. QED
  BY <1>7, <1>10 DEF n, at

\* enqueue() adds a character at the end of the ring.
LEMMA EnqueueContents ==
    ASSUME TypeOK, TypeOK', NEW ch \in Chars, (head + 1) % Size # tail, tail' = tail,
           buffer' = [buffer EXCEPT ![head] = ch], head' = (head + 1) % Size
    PROVE  Contents' = Append(Contents, ch) /\ head' # tail
<1>1. Size \in Nat \ {0} /\ head \in 0 .. Size - 1 /\ tail \in 0 .. Size - 1
  BY KeyboardConstants DEF TypeOK, Indices
<1>2. head' = (IF head + 1 = Size THEN 0 ELSE head + 1) /\ head' # tail
  BY <1>1, RingFacts DEF Indices
<1> DEFINE n == IF head >= tail THEN head - tail ELSE head + Size - tail
           at(k) == IF tail + k - 1 < Size THEN tail + k - 1 ELSE tail + k - 1 - Size
<1>3. n \in Nat /\ n + 1 < Size
  BY <1>1, <1>2
<1>4. (head + Size - tail) % Size = n
  BY <1>1, RingFacts DEF Indices
<1>5. (head' + Size - tail) % Size = n + 1
  <2>1. head' \in Indices
    BY DEF TypeOK
  <2>2. (head' + Size - tail) % Size = IF head' >= tail THEN head' - tail ELSE head' + Size - tail
    BY <1>1, <2>1, RingFacts DEF Indices
  <2>3. QED
    BY <1>1, <1>2, <2>2
<1>6. \A k \in 1 .. n : at(k) \in Indices /\ at(k) # head
  BY <1>1, <1>3 DEF Indices
<1>7. at(n + 1) = head
  BY <1>1, <1>3
<1>8. \A k \in 1 .. Size : (tail + k - 1) % Size = at(k)
  BY <1>1, RingFacts DEF Indices
<1> HIDE DEF n, at
<1>9. \A k \in 1 .. n + 1 : (tail + k - 1) % Size = at(k)
  BY <1>1, <1>3, <1>8
<1>10. Contents = [k \in 1 .. n |-> buffer[at(k)]]
  BY <1>3, <1>4, <1>9 DEF Contents
<1>11. Contents' = [k \in 1 .. n + 1 |-> buffer'[at(k)]]
  BY <1>3, <1>5, <1>9 DEF Contents
<1>12. \A k \in 1 .. n : buffer'[at(k)] = buffer[at(k)]
  BY <1>6 DEF TypeOK
<1>13. buffer'[at(n + 1)] = ch
  BY <1>1, <1>7 DEF TypeOK, Indices
<1>14. Contents' = [k \in 1 .. n + 1 |-> IF k = n + 1 THEN ch ELSE Contents[k]]
  <2>1. \A k \in 1 .. n + 1 : k # n + 1 => k \in 1 .. n
    BY <1>3
  <2>2. QED
    BY <1>3, <1>10, <1>11, <1>12, <1>13, <2>1
<1>15. Contents \in Seq(Chars \cup {NoChar}) /\ Len(Contents) = n
  BY ContentsFacts DEF n
<1>16. Append(Contents, ch) = [k \in 1 .. n + 1 |-> IF k = n + 1 THEN ch ELSE Contents[k]]
  <2> DEFINE u == Contents
  <2>1. u \in Seq(Chars \cup {NoChar}) /\ Len(u) = n /\ ch \in Chars \cup {NoChar}
    BY <1>15
  <2> HIDE DEF u
  <2> DEFINE w == [k \in 1 .. n + 1 |-> IF k = n + 1 THEN ch ELSE u[k]]
  <2>2. /\ Append(u, ch) \in Seq(Chars \cup {NoChar}) /\ Len(Append(u, ch)) = n + 1
        /\ \A k \in 1 .. n : Append(u, ch)[k] = u[k]
        /\ Append(u, ch)[n + 1] = ch
    BY <2>1, AppendProperties
  <2>3. \A k \in 1 .. n + 1 : k = n + 1 \/ k \in 1 .. n
    BY <1>3
  <2>4. \A k \in 1 .. n + 1 : w[k] \in Chars \cup {NoChar}
    BY <2>1, <2>3
  <2>5. w \in Seq(Chars \cup {NoChar}) /\ Len(w) = n + 1
    BY <1>3, <2>4
  <2>6. \A k \in 1 .. n + 1 : Append(u, ch)[k] = w[k]
    BY <2>2, <2>3
  <2> HIDE DEF w
  <2>7. Append(u, ch) = w
    BY <2>2, <2>5, <2>6, SeqEqual
  <2>8. QED
    BY <2>7 DEF u, w
<1>17. QED
  BY <1>2, <1>14, <1>16

\* getchar() takes the first character out of the ring.
LEMMA AdvanceContents ==
    ASSUME TypeOK, head # tail, tail' = (tail + 1) % Size, UNCHANGED <<buffer, head>>
    PROVE  /\ tail' \in Indices /\ Contents' \in Seq(Chars \cup {NoChar})
           /\ Contents = <<buffer[tail]>> \o Contents'
<1>1. Size \in Nat \ {0} /\ head \in 0 .. Size - 1 /\ tail \in 0 .. Size - 1
  BY KeyboardConstants DEF TypeOK, Indices
<1>2. tail' = (IF tail + 1 = Size THEN 0 ELSE tail + 1)
  BY <1>1, RingFacts DEF Indices
<1>3. tail' \in 0 .. Size - 1
  BY <1>1, <1>2
<1> DEFINE n == IF head >= tail THEN head - tail ELSE head + Size - tail
           at(k) == IF tail + k - 1 < Size THEN tail + k - 1 ELSE tail + k - 1 - Size
<1>4. n \in Nat /\ n >= 1 /\ n < Size
  BY <1>1
<1>5. (head + Size - tail) % Size = n
  BY <1>1, RingFacts DEF Indices
<1>6. (head + Size - tail') % Size = n - 1
  <2>1. (head + Size - tail') % Size = IF head >= tail' THEN head - tail' ELSE head + Size - tail'
    BY <1>1, <1>3, RingFacts DEF Indices
  <2>2. QED
    BY <1>1, <1>2, <2>1
<1>7. \A k \in 1 .. n : (tail + k - 1) % Size = at(k)
  BY <1>1, <1>4, RingFacts DEF Indices
<1>8. \A k \in 1 .. n - 1 : (tail' + k - 1) % Size = at(k + 1)
  <2>1. \A k \in 1 .. n - 1 : (tail' + k - 1) % Size = IF tail' + k - 1 < Size THEN tail' + k - 1
                                                       ELSE tail' + k - 1 - Size
    BY <1>1, <1>3, <1>4, RingFacts DEF Indices
  <2>2. QED
    BY <1>1, <1>2, <1>4, <2>1
<1>9. at(1) = tail
  BY <1>1
<1> HIDE DEF n, at
<1>10. Contents = [k \in 1 .. n |-> buffer[at(k)]]
  BY <1>5, <1>7 DEF Contents
<1>11. Contents' = [k \in 1 .. n - 1 |-> buffer[at(k + 1)]]
  BY <1>6, <1>8 DEF Contents
<1>12. Contents \in Seq(Chars \cup {NoChar}) /\ Len(Contents) = n
  BY ContentsFacts DEF n
<1>13. \A k \in 1 .. n - 1 : buffer[at(k + 1)] = Contents[k + 1] /\ Contents[k + 1] \in Chars \cup {NoChar}
  BY <1>4, <1>10, <1>12
<1>14. Contents' \in [1 .. n - 1 -> Chars \cup {NoChar}]
  BY <1>11, <1>13
<1>15. Contents' \in Seq(Chars \cup {NoChar}) /\ Len(Contents') = n - 1
  BY <1>4, <1>14
<1>16. buffer[tail] = Contents[1]
  BY <1>4, <1>9, <1>10
<1>17. \A k \in 1 .. n - 1 : Contents'[k] = Contents[k + 1]
  BY <1>11, <1>13
<1> DEFINE t == Contents'  u == Contents
<1>18. /\ t \in Seq(Chars \cup {NoChar}) /\ Len(t) = n - 1 /\ u \in Seq(Chars \cup {NoChar}) /\ Len(u) = n
       /\ \A k \in 1 .. n - 1 : t[k] = u[k + 1]
  BY <1>12, <1>15, <1>17
<1> HIDE DEF t, u
<1>19. Len(<<u[1]>> \o t) = n /\ \A k \in 1 .. n : (<<u[1]>> \o t)[k] = u[k]
  BY <1>4, <1>18
<1>20. u[1] \in Chars \cup {NoChar}
  BY <1>4, <1>18
<1>21. <<u[1]>> \o t \in Seq(Chars \cup {NoChar})
  BY <1>18, <1>20
<1>22. u = <<u[1]>> \o t
  BY <1>18, <1>19, <1>21, SeqEqual
<1>23. QED
  BY <1>3, <1>15, <1>16, <1>22 DEF t, u, Indices

-----------------------------------------------------------------------------
(* The invariant *)

LEMMA CharFacts == NoChar \notin Chars /\ \A sc : CharOf(sc) \in Chars \cup {NoChar}
BY DEF NoChar, Chars, CharOf

\* Types, with the bound of console_read()'s loop.
LEMMA TypesInductive ==
    ASSUME TypeOK, ReaderInv, [Next]_vars
    PROVE  TypeOK'
<1> USE KeyboardConstants
<1>1. ASSUME NEW i \in Indices
      PROVE  (i + 1) % Size \in Indices
  BY <1>1, RingFacts DEF Indices
<1>2. CASE initialize
  <2>1. 0 \in Indices /\ <<>> \in Seq(Chars)
    BY DEF Indices
  <2>2. QED
    BY <1>2, <2>1 DEF TypeOK, Steps, initialize, unmask_irq, reset_tail, reset_head, reset_shift,
       reset_extended, kbdVars
<1>3. CASE sys_read
  BY <1>3 DEF TypeOK, Steps, sys_read, Loop, kbdVars
<1>4. CASE has_input \/ sti \/ hlt \/ getchar_load
  BY <1>4 DEF TypeOK, Steps, has_input, sti, hlt, getchar_load, kbdVars
<1>5. CASE getchar_advance
  BY <1>1, <1>5 DEF TypeOK, Steps, getchar_advance, kbdVars
<1>6. CASE store_char
  <2>1. done < Count
    BY <1>6 DEF store_char, ReaderInv, Initializing
  <2>2. got' \in Seq(Chars)
    BY <1>6 DEF TypeOK, store_char
  <2>3. done' \in 0 .. Count /\ pc' \in Steps
    BY <1>6, <2>1 DEF TypeOK, Steps, store_char, Loop
  <2>4. QED
    BY <1>6, <2>2, <2>3 DEF TypeOK, store_char, kbdVars
<1>7. CASE timer_tick
  BY <1>7 DEF TypeOK, Steps, timer_tick, Woken, kbdVars
<1>8. ASSUME NEW sc \in Scancodes, handle_irq(sc)
      PROVE  TypeOK'
  <2>1. enqueue(CharOf(sc)) /\ Woken
    BY <1>8 DEF handle_irq
  <2>2. buffer' \in [Indices -> Chars \cup {NoChar}] /\ typed' \in Seq(Chars)
    BY <2>1, CharFacts DEF enqueue, TypeOK
  <2>3. head' \in Indices
    BY <1>1, <2>1 DEF enqueue, TypeOK
  <2>4. pc' \in Steps
    BY <2>1 DEF Woken, TypeOK, Steps
  <2>5. keys' \in 0 .. MaxKeys
    BY <1>8 DEF handle_irq, TypeOK
  <2>6. extended' \in BOOLEAN
    BY <1>8 DEF handle_irq
  <2>7. shift_pressed' \in BOOLEAN
    BY <1>8 DEF handle_irq, TypeOK
  <2>8. QED
    BY <1>8, <2>2, <2>3, <2>4, <2>5, <2>6, <2>7 DEF handle_irq, TypeOK
<1>9. CASE UNCHANGED vars
  BY <1>9 DEF TypeOK, vars, kbdVars
<1>10. QED
  BY <1>2, <1>3, <1>4, <1>5, <1>6, <1>7, <1>8, <1>9 DEF Next, console_read

\* Steps that leave the ring and the histories alone, and the character that is in flight.
LEMMA SameOrder ==
    ASSUME InOrder, TypeOK', UNCHANGED <<buffer, head, tail, typed, got>>, InFlight' = InFlight
    PROVE  InOrder'
BY DEF InOrder, Contents

LEMMA KeyboardInductive ==
    ASSUME KeyboardInv, [Next]_vars
    PROVE  KeyboardInv'
<1>1. TypeOK /\ InOrder /\ NeverEmptyHanded /\ ReaderInv
  BY DEF KeyboardInv, InOrder
<1>2. TypeOK'
  BY <1>1, TypesInductive
<1>3. /\ got \in Seq(Chars \cup {NoChar}) /\ typed \in Seq(Chars \cup {NoChar})
      /\ InFlight \in Seq(Chars \cup {NoChar}) /\ Contents \in Seq(Chars \cup {NoChar})
  <2>1. InFlight \in Seq(Chars \cup {NoChar})
    <3>1. c \in Chars \cup {NoChar}
      BY <1>1 DEF TypeOK
    <3>2. <<c>> \in Seq(Chars \cup {NoChar}) /\ <<>> \in Seq(Chars \cup {NoChar})
      BY <3>1
    <3>3. QED
      BY <3>2 DEF InFlight
  <2>2. QED
    BY <1>1, <2>1, ContentsFacts DEF TypeOK
<1>4. CASE initialize
  <2>1. InFlight = <<>> /\ InFlight' = <<>>
    BY <1>4 DEF initialize, unmask_irq, reset_tail, reset_head, reset_shift, reset_extended, InFlight
  <2>2. CASE unmask_irq \/ reset_tail \/ reset_shift \/ reset_extended
    <3>1. UNCHANGED <<buffer, head, tail, typed, got, c, done>>
      BY <1>1, <2>2 DEF unmask_irq, reset_tail, reset_shift, reset_extended, kbdVars, ReaderInv
    <3>2. InOrder'
      BY <1>1, <1>2, <2>1, <3>1, SameOrder
    <3>3. NeverEmptyHanded' /\ ReaderInv'
      BY <1>1, <2>2, <3>1 DEF unmask_irq, reset_tail, reset_shift, reset_extended,
         NeverEmptyHanded, ReaderInv, Initializing
    <3>4. QED
      BY <3>2, <3>3 DEF KeyboardInv
  <2>3. CASE reset_head
    <3>1. tail' = 0 /\ head' = 0 /\ typed' = <<>> /\ got' = <<>>
      BY <1>1, <2>3 DEF reset_head, ReaderInv
    <3>2. Contents' = <<>>
      <4>1. (0 + Size - 0) % Size = 0
        BY KeyboardConstants, RingFacts DEF Indices
      <4>2. QED
        BY <3>1, <4>1 DEF Contents
    <3>3. InOrder'
      BY <1>2, <2>1, <3>1, <3>2 DEF InOrder
    <3>4. NeverEmptyHanded' /\ ReaderInv'
      BY <1>1, <2>3 DEF reset_head, NeverEmptyHanded, ReaderInv, Initializing
    <3>5. QED
      BY <3>3, <3>4 DEF KeyboardInv
  <2>4. QED
    BY <1>4, <2>2, <2>3 DEF initialize
<1>5. CASE sys_read \/ has_input \/ sti \/ hlt \/ timer_tick
  <2>1. /\ UNCHANGED <<buffer, head, tail, typed, got, c>>
        /\ pc \notin {"store", "load", "advance"} /\ pc' \notin {"store", "advance"}
        /\ pc' = "load" => head # tail
    BY <1>5 DEF sys_read, Loop, has_input, sti, hlt, timer_tick, Woken, kbdVars
  <2>2. InFlight = <<>> /\ InFlight' = <<>>
    BY <2>1 DEF InFlight
  <2>3. InOrder'
    BY <1>1, <1>2, <2>1, <2>2, SameOrder
  <2>4. NeverEmptyHanded'
    BY <2>1 DEF NeverEmptyHanded
  <2>5. ReaderInv'
    <3>1. pc \notin Initializing /\ pc' \notin Initializing
      BY <1>5 DEF sys_read, Loop, has_input, sti, hlt, timer_tick, Woken, Initializing
    <3>2. pc' # "idle" => done' < Count
      BY <1>1, <1>5, KeyboardConstants DEF sys_read, Loop, has_input, sti, hlt, timer_tick, Woken,
         Initializing, ReaderInv
    <3>3. QED
      BY <2>1, <3>1, <3>2 DEF ReaderInv, Initializing
  <2>6. QED
    BY <2>3, <2>4, <2>5 DEF KeyboardInv
<1>6. CASE getchar_load
  <2>1. /\ head # tail /\ pc = "load" /\ pc' = "advance" /\ c' = buffer[tail]
        /\ UNCHANGED <<buffer, head, tail, typed, got, done>>
    BY <1>1, <1>6 DEF getchar_load, NeverEmptyHanded, kbdVars
  <2>2. InFlight = <<>> /\ InFlight' = <<>>
    BY <2>1 DEF InFlight
  <2>3. InOrder'
    BY <1>1, <1>2, <2>1, <2>2, SameOrder
  <2>4. QED
    BY <1>1, <2>1, <2>3 DEF KeyboardInv, NeverEmptyHanded, ReaderInv, Initializing
<1>7. CASE getchar_advance
  <2>1. /\ head # tail /\ pc = "advance" /\ pc' = "store" /\ c = buffer[tail]
        /\ tail' = (tail + 1) % Size /\ UNCHANGED <<buffer, head, typed, got, done, c>>
    BY <1>1, <1>7 DEF getchar_advance, NeverEmptyHanded, ReaderInv, kbdVars
  <2>2. Contents = <<c>> \o Contents' /\ Contents' \in Seq(Chars \cup {NoChar})
    BY <1>1, <2>1, AdvanceContents
  <2> DEFINE u == Contents'
  <2>3. u \in Seq(Chars \cup {NoChar}) /\ Contents = <<c>> \o u
    BY <2>2
  <2>4. InFlight = <<>>
    BY <2>1 DEF InFlight
  <2>5. c \in Chars \cup {NoChar}
    BY <1>1 DEF TypeOK
  <2>6. (got \o <<>>) \o (<<c>> \o u) = typed
    BY <1>1, <2>3, <2>4 DEF InOrder
  <2> HIDE DEF u
  <2>7. got \o <<>> = got
    BY <1>3, ConcatEmptySeq
  <2>8. got \o (<<c>> \o u) = typed
    BY <2>6, <2>7
  <2> DEFINE S == Chars \cup {NoChar}
  <2>9. <<c>> \in Seq(S) /\ got \in Seq(S) /\ u \in Seq(S)
    BY <1>3, <2>3, <2>5
  <2> HIDE DEF S
  <2>10. (got \o <<c>>) \o u = typed
    <3>1. (got \o <<c>>) \o u = got \o (<<c>> \o u)
      BY <2>9, ConcatAssociative
    <3>2. QED
      BY <2>8, <3>1
  <2>11. c \in Chars
    <3>1. typed \in Seq(Chars)
      BY <1>1 DEF TypeOK
    <3>2. Len(got) + 1 \in 1 .. Len(typed) /\ typed[Len(got) + 1] = c
      <4>1. got \o <<c>> \in Seq(S) /\ Len(got \o <<c>>) = Len(got) + 1
            /\ (got \o <<c>>)[Len(got) + 1] = c
        BY <2>9
      <4>2. QED
        BY <2>9, <2>10, <4>1
    <3>3. QED
      BY <3>1, <3>2
  <2>12. InFlight' = <<c>>
    BY <2>1, <2>11, CharFacts DEF InFlight
  <2>13. InOrder'
    BY <1>2, <2>1, <2>10, <2>12 DEF InOrder, u
  <2>14. NeverEmptyHanded' /\ ReaderInv'
    BY <1>1, <2>1, <2>11, CharFacts DEF NeverEmptyHanded, ReaderInv, Initializing
  <2>15. QED
    BY <2>13, <2>14 DEF KeyboardInv
<1>8. CASE store_char
  <2>1. /\ pc = "store" /\ pc' \in {"idle", "check"} /\ c # NoChar /\ got' = Append(got, c)
        /\ UNCHANGED <<buffer, head, tail, typed, c>> /\ done < Count
    BY <1>1, <1>8 DEF store_char, Loop, ReaderInv, Initializing, kbdVars
  <2>2. InFlight = <<c>> /\ InFlight' = <<>>
    BY <2>1 DEF InFlight
  <2>3. c \in Chars \cup {NoChar}
    BY <1>1 DEF TypeOK
  <2>4. Append(got, c) = got \o <<c>> /\ Append(got, c) \in Seq(Chars \cup {NoChar})
    BY <1>3, <2>3, AppendIsConcat, AppendProperties
  <2>5. got' \o <<>> = got \o <<c>>
    BY <2>1, <2>4, ConcatEmptySeq
  <2>6. UNCHANGED Contents
    BY <2>1 DEF Contents
  <2>7. InOrder'
    BY <1>1, <1>2, <2>1, <2>2, <2>5, <2>6 DEF InOrder
  <2>8. pc' # "idle" => done' < Count
    BY <1>8 DEF store_char, Loop
  <2>9. NeverEmptyHanded' /\ ReaderInv'
    BY <2>1, <2>8 DEF NeverEmptyHanded, ReaderInv, Initializing
  <2>10. QED
    BY <2>7, <2>9 DEF KeyboardInv
<1>9. ASSUME NEW sc \in Scancodes, handle_irq(sc)
      PROVE  KeyboardInv'
  <2> DEFINE ch == CharOf(sc)
  <2>1. /\ enqueue(ch) /\ UNCHANGED <<tail, c, done, got>> /\ pc # "unmask"
        /\ pc' = IF pc = "halted" THEN "check" ELSE pc
    BY <1>9 DEF handle_irq, Woken
  <2>2. ch \in Chars \cup {NoChar}
    BY CharFacts
  <2> HIDE DEF ch
  <2>3. InFlight' = InFlight
    BY <2>1 DEF InFlight
  <2>4. ReaderInv' \/ pc = "advance"
    BY <1>1, <2>1 DEF ReaderInv, Initializing
  <2>5. CASE ch = NoChar \/ (head + 1) % Size = tail
    <3>1. UNCHANGED <<buffer, head, typed>>
      BY <2>1, <2>5 DEF enqueue
    <3>2. InOrder'
      BY <1>1, <1>2, <2>1, <2>3, <3>1, SameOrder
    <3>3. NeverEmptyHanded' /\ ReaderInv'
      BY <1>1, <2>1, <3>1 DEF NeverEmptyHanded, ReaderInv, Initializing
    <3>4. QED
      BY <3>2, <3>3 DEF KeyboardInv
  <2>6. CASE ch # NoChar /\ (head + 1) % Size # tail
    <3>1. /\ buffer' = [buffer EXCEPT ![head] = ch] /\ head' = (head + 1) % Size
          /\ typed' = Append(typed, ch) /\ ch \in Chars
      BY <2>1, <2>2, <2>6 DEF enqueue
    <3>2. Contents' = Append(Contents, ch) /\ head' # tail
      BY <1>1, <1>2, <2>1, <2>6, <3>1, EnqueueContents
    <3> DEFINE p == got \o InFlight  u == Contents
    <3>3. p \in Seq(Chars \cup {NoChar}) /\ u \in Seq(Chars \cup {NoChar}) /\ p \o u = typed
      BY <1>1, <1>3, ConcatProperties DEF InOrder
    <3> HIDE DEF p, u
    <3>4. Append(u, ch) = u \o <<ch>> /\ <<ch>> \in Seq(Chars \cup {NoChar})
      BY <2>2, <3>3, AppendIsConcat
    <3>5. Append(p \o u, ch) = (p \o u) \o <<ch>>
      BY <2>2, <3>3, AppendIsConcat, ConcatProperties
    <3>6. p \o Append(u, ch) = Append(p \o u, ch)
      <4>1. PICK x : x = <<ch>>
        OBVIOUS
      <4>2. p \o (u \o x) = (p \o u) \o x
        BY <3>3, <3>4, <4>1, ConcatAssociative
      <4>3. QED
        BY <3>4, <3>5, <4>1, <4>2
    <3>7. InOrder'
      <4>1. got' \o InFlight' = p /\ Contents' = Append(u, ch)
        BY <2>1, <2>3, <3>2 DEF p, u
      <4>2. QED
        BY <1>2, <3>1, <3>3, <3>6, <4>1 DEF InOrder
    <3>8. NeverEmptyHanded'
      BY <2>1, <3>2 DEF NeverEmptyHanded
    <3>9. pc = "advance" => buffer'[tail] = buffer[tail]
      BY <1>1, <3>1 DEF NeverEmptyHanded, TypeOK
    <3>10. ReaderInv'
      BY <1>1, <2>1, <3>9 DEF ReaderInv, Initializing
    <3>11. QED
      BY <3>7, <3>8, <3>10 DEF KeyboardInv
  <2>7. QED
    BY <2>5, <2>6
<1>10. CASE UNCHANGED vars
  <2>1. UNCHANGED <<buffer, head, tail, typed, got, pc, c, done>>
    BY <1>10 DEF vars, kbdVars
  <2>2. InOrder'
    BY <1>1, <1>2, <2>1, SameOrder DEF InFlight
  <2>3. QED
    BY <1>1, <2>1, <2>2 DEF KeyboardInv, NeverEmptyHanded, ReaderInv
<1>11. QED
  BY <1>4, <1>5, <1>6, <1>7, <1>8, <1>9, <1>10 DEF Next, console_read

LEMMA KeyboardInit == Init => KeyboardInv
<1> SUFFICES ASSUME Init PROVE KeyboardInv
  OBVIOUS
<1>1. TypeOK
  BY KeyboardConstants DEF Init, TypeOK, Indices, Steps
<1>2. Contents = <<>> /\ InFlight = <<>>
  <2>1. (0 + Size - 0) % Size = 0
    BY KeyboardConstants, RingFacts DEF Indices
  <2>2. QED
    BY <2>1 DEF Init, Contents, InFlight
<1>3. InOrder
  BY <1>1, <1>2 DEF Init, InOrder
<1>4. QED
  BY <1>3 DEF KeyboardInv, NeverEmptyHanded, ReaderInv, Initializing, Init

\* The inductive invariant of the ring, its reader and the interrupt handler, for every size
\* of the buffer and every count of a read().
THEOREM KeyboardInvariant == Spec => []KeyboardInv
BY KeyboardInit, KeyboardInductive, PTL DEF Spec

\* getchar(): every accepted character is read once, unchanged and in order, whatever
\* interrupts come between its accesses.
THEOREM ReadInOrder == Spec => []InOrder
<1>1. KeyboardInv => InOrder
  BY DEF KeyboardInv
<1>2. QED
  BY <1>1, KeyboardInvariant, PTL

\* getchar() after has_input() returns a character, whatever interrupts come in between.
THEOREM ReadsACharacter == Spec => []NeverEmptyHanded
<1>1. KeyboardInv => NeverEmptyHanded
  BY DEF KeyboardInv
<1>2. QED
  BY <1>1, KeyboardInvariant, PTL
=============================================================================
