---------------------------- MODULE VirtioBlock ----------------------------
(***************************************************************************)
(* The driver of the legacy virtio block device (include/virtioblock.cpp)  *)
(* and the device, as two processes that share memory.                     *)
(*                                                                         *)
(* The compiler and the CPU may let the driver's stores reach memory in    *)
(* any order between two barriers: `pending' holds the stores that have    *)
(* not, and a barrier waits until it is empty.  The device looks at memory *)
(* whenever it likes, and has to when it is notified.                      *)
(*                                                                         *)
(* There is one request at a time, its chain always starts at descriptor 0,*)
(* and so every entry of the available ring is 0.  The descriptor table is *)
(* represented by the direction of its data buffer, the ring indices count *)
(* modulo IDX (2^16 in the code).                                          *)
(***************************************************************************)
EXTENDS Integers

CONSTANTS Sectors, Values,
          IDX,               \* number of values of a ring index
          QueueSizes,        \* what devices report as Queue Size
          VIRTIO_PAGE_SIZE,
          QUEUE_MEMORY,      \* sizeof(virtqueue_memory)
          None

\* The arguments of a call, and what it returns.
Requests == [type : {"BLK_T_IN"}, sector : Sectors, data : {None}]
            \cup [type : {"BLK_T_OUT"}, sector : Sectors, data : Values]
Outcomes == [ok : BOOLEAN, data : Values \cup {None}]

\* The chain of a request has three descriptors; a device with fewer would not be able to
\* take a request at all.
ASSUME VirtioConstants ==
    /\ IDX \in Nat /\ IDX > 2
    /\ QueueSizes \subseteq Nat /\ 1 \notin QueueSizes /\ 2 \notin QueueSizes
    /\ VIRTIO_PAGE_SIZE \in Nat \ {0} /\ VIRTIO_PAGE_SIZE % 8 = 0 /\ QUEUE_MEMORY \in Nat \ {0}
    /\ None \notin Values /\ None \notin Requests /\ None \notin Outcomes

VARIABLES
    hw,               \* what the machine has: it never changes
    ready, queue, last_used_index,   \* the driver's variables
    pc,               \* where the driver is: "idle" or inside of do_request()
    req,              \* the arguments of the running call
    result,           \* what the last read_block() or write_block() returned
    mem,              \* the memory that driver and device share
    pending,          \* stores of the driver that are not in mem yet
    dev,              \* the device: its place in the rings and what it is working on
    disk

driverVars == <<ready, queue, last_used_index, pc, req, result>>
vars == <<hw, driverVars, mem, pending, dev, disk>>

NoQueue == [num |-> 0, avail |-> 0, used |-> 0]
Zeroed  == [mem EXCEPT !.avail = 0, !.used = 0, !.desc = "none"]
NoStore == [c \in {} |-> None]

\* Memory, or a set of stores, after further stores.
Over(stores, m) ==
    [c \in DOMAIN stores \cup DOMAIN m |-> IF c \in DOMAIN stores THEN stores[c] ELSE m[c]]

\* After a reset: the device does not look at the queue.
Reset == [live |-> FALSE, notified |-> FALSE, seen |-> 0, doing |-> "nothing",
          type |-> None, sector |-> None, ok |-> FALSE]

Machine == [found : BOOLEAN, dma : BOOLEAN, queue_size : QueueSizes, contiguous : BOOLEAN]

Init ==
    /\ hw \in Machine
    /\ ready = FALSE /\ queue = NoQueue /\ last_used_index = 0
    /\ pc = "idle" /\ req = None /\ result = None
    /\ mem \in {[avail |-> 0, used |-> 0, desc |-> "none", type |-> "BLK_T_IN", sector |-> s,
                 status |-> "OK", data |-> v] : s \in Sectors, v \in Values}
    /\ pending = NoStore
    /\ dev = Reset
    /\ disk \in [Sectors -> Values]

-----------------------------------------------------------------------------
(* The layout of the queue: sizeof is 16 for a descriptor, 8 for a used element *)

RoundUp(n, align) == ((n + align - 1) \div align) * align

\* Without the padding before the used ring.
vring_size_packed(num, align) == 16 * num + 2 * (2 + num) + 2 * 3 + 8 * num
vring_size(num, align) == RoundUp(16 * num + 2 * (2 + num), align) + 2 * 3 + 8 * num

vring_init(num, align) ==
    [num |-> num, avail |-> 16 * num, used |-> RoundUp(16 * num + 4 + 2 * num, align)]

\* Queue Size is a 16-bit register.
IsPowerOfTwo(n) == n \in {1, 2, 4, 8, 16, 32, 64, 128, 256, 512, 1024, 2048, 4096, 8192,
                          16384, 32768}

-----------------------------------------------------------------------------
(* initialize() *)

find_device         == hw.found
resolve_dma_buffers == hw.dma
queue_size_accepted ==
    /\ hw.queue_size # 0
    /\ IsPowerOfTwo(hw.queue_size)
    /\ vring_size(hw.queue_size, VIRTIO_PAGE_SIZE) <= QUEUE_MEMORY

\* A virtq_init() that leaves last_used_index as it is.
virtq_init_keeping_index ==
    /\ mem' = Zeroed
    /\ last_used_index' = last_used_index
    /\ queue' = vring_init(hw.queue_size, VIRTIO_PAGE_SIZE)

\* virtq_init() once the queue size is accepted: whether or not the queue's pages can be
\* resolved, the queue is cleared.
virtq_init ==
    /\ mem' = Zeroed
    /\ last_used_index' = 0
    /\ queue' = vring_init(hw.queue_size, VIRTIO_PAGE_SIZE)

\* initialize(), up to where it returns; a return value of false leaves ready as it was.
\* The device acts on the queue only after DRIVER_OK.
initialize ==
    /\ pc = "idle"
    /\ find_device
    /\ IF resolve_dma_buffers /\ queue_size_accepted
       THEN virtq_init
       ELSE UNCHANGED <<mem, last_used_index, queue>>
    /\ LET ok == resolve_dma_buffers /\ queue_size_accepted /\ hw.contiguous
       IN  /\ dev'   = [Reset EXCEPT !.live = ok]
           /\ ready' = (ready \/ ok)
    /\ UNCHANGED <<hw, pc, req, result, pending, disk>>

-----------------------------------------------------------------------------
(* do_request() *)

Failed == [ok |-> FALSE, data |-> None]

\* The first half of virtq_kick() without the first barrier: the index moves together with
\* the stores of the chain.
kick_index_unordered ==
    /\ pc = "kick"
    /\ pending' = Over([avail |-> (mem.avail + 1) % IDX], pending)
    /\ pc' = "notify"
    /\ UNCHANGED <<hw, ready, queue, last_used_index, req, result, mem, dev, disk>>

\* read_block() and write_block() up to the first barrier of virtq_kick(): write_block() fills
\* the bounce buffer, setup_request() writes the header, the status and the descriptors.
start(c, stores) ==
    /\ pc = "idle"
    /\ IF ready
       THEN /\ pending' = Over(stores, [type |-> c.type, sector |-> c.sector, status |-> "PENDING",
                  desc |-> IF c.type = "BLK_T_IN" THEN "device_writes" ELSE "device_reads"])
            /\ pc' = "kick" /\ req' = c
            /\ UNCHANGED <<mem, result>>
       ELSE /\ mem' = Over(stores, mem)
            /\ result' = Failed
            /\ UNCHANGED <<pending, pc, req>>
    /\ UNCHANGED <<hw, ready, queue, last_used_index, dev, disk>>

read_block(s)     == start([type |-> "BLK_T_IN", sector |-> s, data |-> None], NoStore)
write_block(s, v) == start([type |-> "BLK_T_OUT", sector |-> s, data |-> v], [data |-> v])

\* Stores reach memory, one at a time and in any order.
store_visible(c) ==
    /\ mem' = [mem EXCEPT ![c] = pending[c]]
    /\ pending' = [d \in DOMAIN pending \ {c} |-> pending[d]]
    /\ UNCHANGED <<hw, driverVars, dev, disk>>

\* virtq_kick(): the first barrier, and the index...
kick_index ==
    /\ pc = "kick"
    /\ pending = NoStore
    /\ pending' = [avail |-> (mem.avail + 1) % IDX]
    /\ pc' = "notify"
    /\ UNCHANGED <<hw, ready, queue, last_used_index, req, result, mem, dev, disk>>

\* ...the second barrier, and the notification.
kick_notify ==
    /\ pc = "notify"
    /\ pending = NoStore
    /\ dev' = [dev EXCEPT !.notified = dev.live]
    /\ last_used_index' = (last_used_index + 1) % IDX
    /\ pc' = "poll"
    /\ UNCHANGED <<hw, ready, queue, req, result, mem, pending, disk>>

\* A virtq_is_busy() that takes any change of the used index for completion of the request.
virtq_is_busy_until_used == mem.used = 0
virtq_is_busy == mem.used # last_used_index

\* A round of the polling loop.
poll_again ==
    /\ pc = "poll"
    /\ virtq_is_busy
    /\ UNCHANGED vars

\* The polling loop ends: do_request() and its caller return.
request_return ==
    /\ pc = "poll"
    /\ ~virtq_is_busy
    /\ result' = [ok   |-> mem.status = "OK",
                  data |-> IF mem.status = "OK" /\ req.type = "BLK_T_IN" THEN mem.data ELSE None]
    /\ pc' = "idle" /\ req' = None
    /\ UNCHANGED <<hw, ready, queue, last_used_index, mem, pending, dev, disk>>

driver_step == kick_index \/ kick_notify \/ request_return

-----------------------------------------------------------------------------
(* The device *)

\* It takes the chain of the next available entry and reads the header...
dev_fetch ==
    /\ dev.live /\ dev.doing = "nothing"
    /\ mem.avail # dev.seen
    /\ dev' = [dev EXCEPT !.seen = (@ + 1) % IDX, !.doing = "transfer",
                          !.type = mem.type, !.sector = mem.sector]
    /\ UNCHANGED <<hw, driverVars, mem, pending, disk>>

\* ...moves the data, or fails to...
Direction == IF dev.type = "BLK_T_IN" THEN "device_writes" ELSE "device_reads"
dev_transfer ==
    /\ dev.doing = "transfer"
    /\ \E ok \in BOOLEAN :
        /\ ok => mem.desc = Direction
        /\ dev' = [dev EXCEPT !.doing = "status", !.ok = ok]
        /\ \/ ok /\ dev.type = "BLK_T_IN"
              /\ mem' = [mem EXCEPT !.data = disk[dev.sector]]
              /\ UNCHANGED disk
           \/ dev.type = "BLK_T_OUT"
              /\ disk' = [disk EXCEPT ![dev.sector] = mem.data]
              /\ UNCHANGED mem
           \/ ~ok /\ UNCHANGED <<mem, disk>>
    /\ UNCHANGED <<hw, driverVars, pending>>

\* ...writes the status...
dev_status ==
    /\ dev.doing = "status"
    /\ mem' = [mem EXCEPT !.status = IF dev.ok THEN "OK" ELSE "IOERR"]
    /\ dev' = [dev EXCEPT !.doing = "used"]
    /\ UNCHANGED <<hw, driverVars, pending, disk>>

\* ...and puts the chain into the used ring.
dev_used ==
    /\ dev.doing = "used"
    /\ mem' = [mem EXCEPT !.used = (@ + 1) % IDX]
    /\ dev' = [dev EXCEPT !.doing = "nothing", !.type = None, !.sector = None, !.ok = FALSE]
    /\ UNCHANGED <<hw, driverVars, pending, disk>>

\* Woken by a notification, it sees nothing new.
dev_sleep ==
    /\ dev.notified /\ dev.doing = "nothing" /\ mem.avail = dev.seen
    /\ dev' = [dev EXCEPT !.notified = FALSE]
    /\ UNCHANGED <<hw, driverVars, mem, pending, disk>>

dev_step == dev_transfer \/ dev_status \/ dev_used \/ dev_sleep

Next ==
    \/ initialize
    \/ \E s \in Sectors : read_block(s) \/ \E v \in Values : write_block(s, v)
    \/ \E c \in DOMAIN pending : store_visible(c)
    \/ driver_step \/ poll_again
    \/ dev_fetch \/ dev_step

\* The CPU executes the driver, its stores become visible, the device goes on with what it has begun
\* and looks at the queue when it is notified.
Fairness ==
    /\ WF_vars(driver_step)
    /\ WF_vars(\E c \in DOMAIN pending : store_visible(c))
    /\ WF_vars(dev.notified /\ dev_fetch)
    /\ WF_vars(dev_step)

Spec == Init /\ [][Next]_vars /\ Fairness

-----------------------------------------------------------------------------
(* Properties *)

Cells == [avail : 0 .. IDX - 1, used : 0 .. IDX - 1,
          desc : {"none", "device_reads", "device_writes"}, type : {"BLK_T_IN", "BLK_T_OUT"},
          sector : Sectors, status : {"OK", "IOERR", "PENDING"}, data : Values]

TypeOK ==
    /\ hw \in Machine
    /\ ready \in BOOLEAN
    /\ queue \in [num : Nat, avail : Nat, used : Nat]
    /\ last_used_index \in 0 .. IDX - 1
    /\ pc \in {"idle", "kick", "notify", "poll"}
    /\ req \in {None} \cup Requests
    /\ result \in {None} \cup Outcomes
    /\ mem \in Cells /\ Over(pending, mem) \in Cells
    /\ dev \in [live : BOOLEAN, notified : BOOLEAN, seen : 0 .. IDX - 1,
                doing : {"nothing", "transfer", "status", "used"},
                type : {"BLK_T_IN", "BLK_T_OUT", None}, sector : Sectors \cup {None}, ok : BOOLEAN]
    /\ disk \in [Sectors -> Values]

\* setup_request() and the barriers of virtq_kick(): the device only ever works on the chain
\* of the running request, with all of its stores in memory (header, direction, for a write
\* the data), and the driver stores nothing into the buffers meanwhile.
DeviceSeesTheRequest ==
    dev.doing # "nothing" =>
        /\ pc \in {"notify", "poll"} /\ pending = NoStore
        /\ dev.type = req.type /\ dev.sector = req.sector
        /\ mem.type = req.type /\ mem.sector = req.sector /\ mem.desc = Direction
        /\ req.type = "BLK_T_OUT" => mem.data = req.data

\* The type invariant, and vring_init() within vring_size(): descriptors, available ring (with the used_event behind
\* it) and used ring (with avail_event) do not overlap and lie within virtqueue_memory.
QueueFits ==
    /\ TypeOK
    /\ ready =>
        /\ 3 <= queue.num /\ 16 * queue.num <= queue.avail
        /\ queue.avail + 4 + 2 * queue.num + 2 <= queue.used
        /\ queue.used % VIRTIO_PAGE_SIZE = 0
        /\ queue.used + 4 + 8 * queue.num + 2 <= QUEUE_MEMORY

\* do_request(): every call returns, whatever the indices are and however often initialize()
\* has run before.
RequestReturns == pc # "idle" ~> pc = "idle"

\* The abstract device.  The outcome is fixed once the device has moved the data.
Finished == pc \in {"notify", "poll"} /\ pending = NoStore /\ mem.avail = mem.used
Moved    == dev.doing \in {"status", "used"} \/ Finished
MovedOk  == IF Finished THEN mem.status = "OK" ELSE dev.ok
Outcome  == IF ~Moved THEN None
            ELSE [ok   |-> MovedOk,
                  data |-> IF MovedOk /\ req.type = "BLK_T_IN" THEN mem.data ELSE None]

Device == INSTANCE BlockDevice WITH
    NoCall <- None, NoOutcome <- None, call <- req, outcome <- Outcome

\* read_block() and write_block(): the driver and its device are a block device; no call returns
\* before the device is done with it, a read returns what the sector held during the call,
\* a write that is reported done is on the disk, and no request is carried out twice.
IsBlockDevice == Device!Spec
=============================================================================
