------------------------- MODULE VirtioBlockProofs -------------------------
(***************************************************************************)
(* Proofs about the virtio block driver and its device.                    *)
(***************************************************************************)
EXTENDS VirtioBlock, TLAPS

\* What setup_request() stores, and for a write the bounce buffer.
ChainCells == {"type", "sector", "status", "desc", "data"}
DescFor(t) == IF t = "BLK_T_IN" THEN "device_writes" ELSE "device_reads"

\* The store of cell c that belongs to the running request.
IsChainStore(c, v) ==
    \/ c = "type"   /\ v = req.type
    \/ c = "sector" /\ v = req.sector
    \/ c = "status" /\ v = "PENDING"
    \/ c = "desc"   /\ v = DescFor(req.type)
    \/ c = "data"   /\ req.type = "BLK_T_OUT" /\ v = req.data

\* The chain of the running request is in memory.
ChainInMemory ==
    /\ mem.type = req.type /\ mem.sector = req.sector /\ mem.desc = DescFor(req.type)
    /\ req.type = "BLK_T_OUT" => mem.data = req.data

\* The request is available but not fetched; fetched; and the device has dealt with everything
\* that is in the rings.
Offered == dev.doing = "nothing" /\ mem.used = dev.seen /\ mem.avail = (dev.seen + 1) % IDX
Working == /\ dev.doing # "nothing" /\ dev.seen = mem.avail /\ mem.avail = (mem.used + 1) % IDX
           /\ dev.type = req.type /\ dev.sector = req.sector
           /\ dev.doing = "used" => mem.status = IF dev.ok THEN "OK" ELSE "IOERR"
Quiet   == dev.doing = "nothing" /\ dev.seen = mem.avail /\ mem.used = mem.avail

\* Where the driver is in do_request(), what is in memory and where the device is.
RequestInv ==
    /\ pc = "idle" =>
        req = None /\ pending = NoStore /\ Quiet /\ last_used_index = mem.avail
    /\ pc # "idle" => req \in Requests /\ ready
    /\ pc = "kick" =>
        /\ Quiet /\ last_used_index = mem.avail
        /\ pending = [c \in DOMAIN pending |-> pending[c]]
        /\ \A c \in DOMAIN pending : IsChainStore(c, pending[c])
        /\ \A c \in ChainCells \ DOMAIN pending :
               IsChainStore(c, mem[c]) \/ (c = "data" /\ req.type = "BLK_T_IN")
    /\ pc = "notify" =>
        /\ ChainInMemory
        /\ \/ /\ pending = [avail |-> (mem.avail + 1) % IDX]
              /\ Quiet /\ last_used_index = mem.avail
           \/ /\ pending = NoStore
              /\ mem.avail = (last_used_index + 1) % IDX
              /\ Offered \/ Working \/ Quiet
    /\ pc = "poll" =>
        /\ ChainInMemory /\ pending = NoStore
        /\ mem.avail = last_used_index
        /\ Offered \/ Working \/ Quiet

\* The driver is ready exactly when the device takes requests, and initialize() always
\* comes to the same verdict: the machine does not change.
ReadyInv ==
    /\ dev.live = ready
    /\ ~ready => dev = Reset
    /\ ready => /\ resolve_dma_buffers /\ queue_size_accepted /\ hw.contiguous
                /\ queue = vring_init(hw.queue_size, VIRTIO_PAGE_SIZE)

VirtioInv == TypeOK /\ RequestInv /\ ReadyInv

-----------------------------------------------------------------------------
\* The ring indices wrap around and never stand still.
LEMMA IndexSteps ==
    ASSUME NEW i \in 0 .. IDX - 1
    PROVE  (i + 1) % IDX \in 0 .. IDX - 1 /\ (i + 1) % IDX # i
BY VirtioConstants

\* The parts of the type invariant that do not depend on the pending stores.
BasicTypes ==
    /\ hw \in Machine
    /\ ready \in BOOLEAN
    /\ queue \in [num : Nat, avail : Nat, used : Nat]
    /\ last_used_index \in 0 .. IDX - 1
    /\ pc \in {"idle", "kick", "notify", "poll"}
    /\ req \in {None} \cup Requests
    /\ result \in {None} \cup Outcomes
    /\ mem \in Cells
    /\ dev \in [live : BOOLEAN, notified : BOOLEAN, seen : 0 .. IDX - 1,
                doing : {"nothing", "transfer", "status", "used"},
                type : {"BLK_T_IN", "BLK_T_OUT", None}, sector : Sectors \cup {None}, ok : BOOLEAN]
    /\ disk \in [Sectors -> Values]

\* Rounding up is at most the next multiple, and a multiple.
LEMMA RoundUpFacts ==
    ASSUME NEW n \in Nat, NEW a \in Nat \ {0}
    PROVE  /\ RoundUp(n, a) \in Nat /\ RoundUp(n, a) % a = 0
           /\ n <= RoundUp(n, a) /\ RoundUp(n, a) < n + a
<1> DEFINE q == (n + a - 1) \div a
<1>1. q \in Nat /\ q * a <= n + a - 1 /\ n + a - 1 < q * a + a
  OBVIOUS
<1>2. (q * a) % a = 0
  BY <1>1
<1>3. QED
  BY <1>1, <1>2 DEF RoundUp

\* The stores of the driver keep the types of the cells.
LEMMA OverTyped ==
    ASSUME BasicTypes, RequestInv
    PROVE  Over(pending, mem) \in Cells
<1>1. DOMAIN mem = {"avail", "used", "desc", "type", "sector", "status", "data"}
  BY DEF BasicTypes, Cells
<1>2. CASE pending = NoStore
  <2>1. Over(pending, mem) = mem
    BY <1>1, <1>2 DEF Over, NoStore, BasicTypes, Cells
  <2>2. QED
    BY <2>1 DEF BasicTypes
<1>3. CASE pending = [avail |-> (mem.avail + 1) % IDX]
  <2>1. Over(pending, mem) = [mem EXCEPT !.avail = (mem.avail + 1) % IDX]
    BY <1>1, <1>3 DEF Over, BasicTypes, Cells
  <2>2. QED
    BY <2>1, IndexSteps DEF BasicTypes, Cells
<1>4. CASE pc = "kick"
  <2> DEFINE o == Over(pending, mem)
  <2>1. req \in Requests
    BY <1>4 DEF RequestInv
  <2>2. DOMAIN pending \subseteq ChainCells
    BY <1>4 DEF RequestInv, IsChainStore, ChainCells
  <2>3. \A c \in DOMAIN mem : o[c] = IF c \in DOMAIN pending THEN pending[c] ELSE mem[c]
    BY DEF Over
  <2>4. o = [avail |-> o["avail"], used |-> o["used"], desc |-> o["desc"], type |-> o["type"],
             sector |-> o["sector"], status |-> o["status"], data |-> o["data"]]
    BY <1>1, <2>2 DEF Over, ChainCells
  <2>5. /\ o["avail"] \in 0 .. IDX - 1 /\ o["used"] \in 0 .. IDX - 1
        /\ o["desc"] \in {"none", "device_reads", "device_writes"}
        /\ o["type"] \in {"BLK_T_IN", "BLK_T_OUT"} /\ o["sector"] \in Sectors
        /\ o["status"] \in {"OK", "IOERR", "PENDING"} /\ o["data"] \in Values
    <3>1. \A c \in DOMAIN pending : IsChainStore(c, pending[c])
      BY <1>4 DEF RequestInv
    <3>2. "avail" \notin DOMAIN pending /\ "used" \notin DOMAIN pending
      BY <2>2 DEF ChainCells
    <3> HIDE DEF o
    <3>3. QED
      BY <1>1, <2>1, <2>3, <3>1, <3>2 DEF IsChainStore, DescFor, Requests, BasicTypes, Cells
  <2> HIDE DEF o
  <2>6. o \in Cells
    BY <2>4, <2>5 DEF Cells
  <2>7. QED
    BY <2>6 DEF o
<1>5. QED
  BY <1>2, <1>3, <1>4 DEF RequestInv, BasicTypes

LEMMA TypesInductive ==
    ASSUME BasicTypes, RequestInv, ReadyInv, [Next]_vars
    PROVE  BasicTypes'
<1>0. 0 \in 0 .. IDX - 1
  BY VirtioConstants
<1>1. CASE initialize
  <2>1. vring_init(hw.queue_size, VIRTIO_PAGE_SIZE) \in [num : Nat, avail : Nat, used : Nat]
    <3>1. hw.queue_size \in Nat
      BY VirtioConstants DEF BasicTypes, Machine
    <3>2. 16 * hw.queue_size + 4 + 2 * hw.queue_size \in Nat /\ 16 * hw.queue_size \in Nat
      BY <3>1
    <3>3. VIRTIO_PAGE_SIZE \in Nat \ {0}
      BY VirtioConstants
    <3>4. RoundUp(16 * hw.queue_size + 4 + 2 * hw.queue_size, VIRTIO_PAGE_SIZE) \in Nat
      BY <3>2, <3>3, RoundUpFacts
    <3>5. QED
      BY <3>1, <3>2, <3>4 DEF vring_init
  <2>2. Zeroed \in Cells
    BY <1>0 DEF Zeroed, Cells, BasicTypes
  <2>3. mem' \in Cells /\ last_used_index' \in 0 .. IDX - 1
        /\ queue' \in [num : Nat, avail : Nat, used : Nat]
    BY <1>0, <1>1, <2>1, <2>2 DEF initialize, virtq_init, BasicTypes
  <2>4. PICK ok \in BOOLEAN : dev' = [Reset EXCEPT !.live = ok] /\ ready' = (ready \/ ok)
    BY <1>1 DEF initialize, resolve_dma_buffers, queue_size_accepted, BasicTypes, Machine
  <2>5. QED
    BY <1>0, <1>1, <2>3, <2>4 DEF initialize, Reset, BasicTypes
<1>2. ASSUME NEW c \in Requests, NEW st, start(c, st),
             st = NoStore \/ \E v \in Values : st = [data |-> v]
      PROVE  BasicTypes'
  <2>1. CASE ready
    BY <1>2, <2>1 DEF start, BasicTypes
  <2>2. CASE ~ready
    <3>1. Over(st, mem) \in Cells
      <4>1. CASE st = NoStore
        <5>1. Over(st, mem) = mem
          BY <4>1 DEF Over, NoStore, BasicTypes, Cells
        <5>2. QED
          BY <5>1 DEF BasicTypes
      <4>2. ASSUME NEW v \in Values, st = [data |-> v]
            PROVE  Over(st, mem) \in Cells
        <5>1. Over(st, mem) = [mem EXCEPT !.data = v]
          BY <4>2 DEF Over, BasicTypes, Cells
        <5>2. QED
          BY <5>1 DEF BasicTypes, Cells
      <4>3. QED
        BY <1>2, <4>1, <4>2
    <3>2. Failed \in Outcomes
      BY DEF Failed, Outcomes
    <3>3. QED
      BY <1>2, <2>2, <3>1, <3>2 DEF start, BasicTypes
  <2>3. QED
    BY <2>1, <2>2
<1>3. ASSUME NEW s \in Sectors, read_block(s)
      PROVE  BasicTypes'
  BY <1>2, <1>3 DEF read_block, Requests
<1>4. ASSUME NEW s \in Sectors, NEW v \in Values, write_block(s, v)
      PROVE  BasicTypes'
  <2>1. [type |-> "BLK_T_OUT", sector |-> s, data |-> v] \in Requests
    BY DEF Requests
  <2>2. QED
    BY <1>2, <1>4, <2>1 DEF write_block
<1>5. ASSUME NEW c \in DOMAIN pending, store_visible(c)
      PROVE  BasicTypes'
  <2>1. mem' = [mem EXCEPT ![c] = pending[c]]
    BY <1>5 DEF store_visible
  <2>2. mem' \in Cells
    <3>1. Over(pending, mem) \in Cells
      BY OverTyped
    <3>2. c \in DOMAIN Over(pending, mem) /\ Over(pending, mem)[c] = pending[c]
      BY DEF Over
    <3> DEFINE o == Over(pending, mem)
    <3> HIDE DEF o
    <3>3. o \in Cells /\ c \in DOMAIN o /\ o[c] = pending[c]
      BY <3>1, <3>2 DEF o
    <3>4. QED
      BY <2>1, <3>3 DEF Cells, BasicTypes
  <2>3. QED
    BY <1>5, <2>2 DEF store_visible, BasicTypes, driverVars
<1>6. CASE kick_index
  BY <1>6 DEF kick_index, BasicTypes
<1>7. CASE kick_notify
  BY <1>7, IndexSteps DEF kick_notify, BasicTypes
<1>8. CASE poll_again
  BY <1>8 DEF poll_again, vars, driverVars, BasicTypes
<1>9. CASE request_return
  BY <1>9 DEF request_return, BasicTypes, Outcomes, Cells
<1>10. CASE dev_fetch
  BY <1>10, IndexSteps DEF dev_fetch, BasicTypes, Cells, driverVars
<1>11. CASE dev_transfer
  <2>1. PICK ok \in BOOLEAN :
        /\ dev' = [dev EXCEPT !.doing = "status", !.ok = ok]
        /\ \/ mem' = [mem EXCEPT !.data = disk[dev.sector]] /\ UNCHANGED disk
           \/ disk' = [disk EXCEPT ![dev.sector] = mem.data] /\ UNCHANGED mem
           \/ UNCHANGED <<mem, disk>>
    BY <1>11 DEF dev_transfer
  <2>2. dev.sector \in Sectors
    BY <1>11 DEF dev_transfer, RequestInv, BasicTypes, Quiet, Offered, Working, ChainInMemory, Cells
  <2>3. mem' \in Cells /\ disk' \in [Sectors -> Values]
    BY <2>1, <2>2 DEF BasicTypes, Cells
  <2>4. QED
    BY <1>11, <2>1, <2>3 DEF dev_transfer, BasicTypes, driverVars
<1>12. CASE dev_status
  BY <1>12 DEF dev_status, BasicTypes, Cells, driverVars
<1>13. CASE dev_used
  BY <1>13, IndexSteps DEF dev_used, BasicTypes, Cells, driverVars
<1>14. CASE dev_sleep
  BY <1>14 DEF dev_sleep, BasicTypes, driverVars
<1>15. CASE UNCHANGED vars
  BY <1>15 DEF vars, driverVars, BasicTypes
<1>16. QED
  BY <1>1, <1>3, <1>4, <1>5, <1>6, <1>7, <1>8, <1>9, <1>10, <1>11, <1>12, <1>13, <1>14, <1>15
     DEF Next, driver_step, dev_step

LEMMA ReadyInductive ==
    ASSUME BasicTypes, RequestInv, ReadyInv, [Next]_vars
    PROVE  ReadyInv'
<1>1. CASE initialize
  <2>1. UNCHANGED hw
    BY <1>1 DEF initialize
  <2>2. dev'.live = (resolve_dma_buffers /\ queue_size_accepted /\ hw.contiguous)
    BY <1>1 DEF initialize, Reset
  <2>3. ready' = (ready \/ (resolve_dma_buffers /\ queue_size_accepted /\ hw.contiguous))
    BY <1>1 DEF initialize
  <2>4. resolve_dma_buffers /\ queue_size_accepted
            => queue' = vring_init(hw.queue_size, VIRTIO_PAGE_SIZE)
    BY <1>1 DEF initialize, virtq_init
  <2>5. ~ready' => dev' = Reset
    BY <1>1, <2>3 DEF initialize, Reset
  <2>6. QED
    BY <2>1, <2>2, <2>3, <2>4, <2>5 DEF ReadyInv, resolve_dma_buffers, queue_size_accepted
<1>2. CASE UNCHANGED <<hw, ready, queue>> /\ dev'.live = dev.live /\ (~ready => UNCHANGED dev)
  BY <1>2 DEF ReadyInv, resolve_dma_buffers, queue_size_accepted
<1>3. ASSUME ~initialize
      PROVE  UNCHANGED <<hw, ready, queue>> /\ dev'.live = dev.live /\ (~ready => UNCHANGED dev)
  <2>1. UNCHANGED <<hw, ready, queue>> /\ dev'.live = dev.live
    BY <1>3 DEF BasicTypes, Next, read_block, write_block, start, store_visible, driver_step,
       kick_index, kick_notify, request_return, poll_again, dev_fetch, dev_step, dev_transfer,
       dev_status, dev_used, dev_sleep, vars, driverVars
  <2>2. ~ready => ~dev.live /\ ~dev.notified /\ dev.doing = "nothing" /\ pc = "idle"
    BY DEF ReadyInv, RequestInv, Reset
  <2>3. ~ready => UNCHANGED dev
    BY <1>3, <2>2 DEF Next, read_block, write_block, start, store_visible, driver_step,
       kick_index, kick_notify, request_return, poll_again, dev_fetch, dev_step, dev_transfer,
       dev_status, dev_used, dev_sleep, vars, driverVars
  <2>4. QED
    BY <2>1, <2>3
<1>4. QED
  BY <1>1, <1>2, <1>3

\* The stores of a new request are those of its chain.
LEMMA RequestStarts ==
    ASSUME BasicTypes, RequestInv, NEW c \in Requests, NEW st, start(c, st),
           st = IF c.type = "BLK_T_IN" THEN NoStore ELSE [data |-> c.data]
    PROVE  RequestInv'
<1>1. pc = "idle" /\ Quiet /\ last_used_index = mem.avail /\ pending = NoStore /\ req = None
  BY DEF start, RequestInv
<1>2. CASE ready
  <2>1. pc' = "kick" /\ req' = c /\ UNCHANGED <<mem, dev, last_used_index, ready>>
    BY <1>2 DEF start
  <2>2. Quiet' /\ last_used_index' = mem'.avail
    BY <1>1, <2>1 DEF Quiet
  <2> DEFINE ch == [type |-> c.type, sector |-> c.sector, status |-> "PENDING",
                    desc |-> IF c.type = "BLK_T_IN" THEN "device_writes" ELSE "device_reads"]
  <2>3. pending' = Over(st, ch)
    BY <1>2 DEF start
  <2>4. /\ DOMAIN pending' = {"type", "sector", "status", "desc"}
                             \cup (IF c.type = "BLK_T_IN" THEN {} ELSE {"data"})
        /\ pending' = [d \in DOMAIN pending' |-> pending'[d]]
        /\ \A d \in DOMAIN pending' : pending'[d] = IF d = "data" THEN c.data ELSE ch[d]
    BY <2>3 DEF Over, NoStore
  <2>5. \A d \in DOMAIN pending' : IsChainStore(d, pending[d])'
    BY <2>1, <2>4 DEF IsChainStore, DescFor, Requests
  <2>6. \A d \in ChainCells \ DOMAIN pending' : d = "data" /\ req'.type = "BLK_T_IN"
    BY <2>1, <2>4 DEF ChainCells
  <2>7. QED
    BY <1>2, <2>1, <2>2, <2>4, <2>5, <2>6 DEF RequestInv
<1>3. CASE ~ready
  <2>1. UNCHANGED <<pc, req, pending, dev, last_used_index>> /\ mem' = Over(st, mem)
    BY <1>3 DEF start
  <2>2. mem'.avail = mem.avail /\ mem'.used = mem.used
    BY <2>1 DEF Over, NoStore, BasicTypes, Cells
  <2>3. Quiet'
    BY <1>1, <2>1, <2>2 DEF Quiet
  <2>4. QED
    BY <1>1, <2>1, <2>2, <2>3 DEF RequestInv
<1>4. QED
  BY <1>2, <1>3

\* A store of the driver reaches memory.
LEMMA StoreArrives ==
    ASSUME BasicTypes, RequestInv, NEW c \in DOMAIN pending, store_visible(c)
    PROVE  RequestInv'
<1>1. /\ mem' = [mem EXCEPT ![c] = pending[c]]
      /\ pending' = [d \in DOMAIN pending \ {c} |-> pending[d]]
      /\ UNCHANGED <<ready, last_used_index, pc, req, dev>>
  BY DEF store_visible, driverVars
<1>2. pending # NoStore
  BY DEF NoStore
<1>3. DOMAIN mem = {"avail", "used", "desc", "type", "sector", "status", "data"}
  BY DEF BasicTypes, Cells
<1>4. pc \in {"kick", "notify"}
  BY <1>2 DEF RequestInv, BasicTypes
<1>5. CASE pc = "kick"
  <2>1. IsChainStore(c, pending[c]) /\ c \in ChainCells
    BY <1>5 DEF RequestInv, IsChainStore, ChainCells
  <2>2. mem'.avail = mem.avail /\ mem'.used = mem.used
    BY <1>1, <1>3, <2>1 DEF ChainCells, BasicTypes, Cells
  <2>3. Quiet' /\ last_used_index' = mem'.avail
    BY <1>1, <1>5, <2>2 DEF RequestInv, Quiet
  <2>4. DOMAIN pending' = DOMAIN pending \ {c} /\ \A d \in DOMAIN pending' : pending'[d] = pending[d]
    BY <1>1
  <2>5. \A d \in DOMAIN pending' : IsChainStore(d, pending[d])'
    BY <1>1, <1>5, <2>4 DEF RequestInv, IsChainStore
  <2>6. \A d \in ChainCells \ DOMAIN pending' :
            IsChainStore(d, mem[d])' \/ (d = "data" /\ req'.type = "BLK_T_IN")
    <3>1. SUFFICES ASSUME NEW d \in ChainCells, d \notin DOMAIN pending'
                   PROVE  IsChainStore(d, mem[d])' \/ (d = "data" /\ req'.type = "BLK_T_IN")
      OBVIOUS
    <3>2. CASE d = c
      <4>1. mem'[d] = pending[c]
        BY <1>1, <1>3, <2>1, <3>2 DEF ChainCells
      <4>2. QED
        BY <1>1, <2>1, <3>2, <4>1 DEF IsChainStore
    <3>3. CASE d # c
      <4>1. mem'[d] = mem[d] /\ d \notin DOMAIN pending
        BY <1>1, <1>3, <2>4, <3>1, <3>3 DEF ChainCells
      <4>2. IsChainStore(d, mem[d]) \/ (d = "data" /\ req.type = "BLK_T_IN")
        BY <1>5, <3>1, <4>1 DEF RequestInv
      <4>3. QED
        BY <1>1, <4>1, <4>2 DEF IsChainStore
    <3>4. QED
      BY <3>2, <3>3
  <2>7. pending' = [d \in DOMAIN pending' |-> pending'[d]]
    BY <1>1
  <2>8. req' \in Requests /\ ready'
    BY <1>1, <1>5 DEF RequestInv
  <2>9. QED
    BY <1>1, <1>5, <2>3, <2>5, <2>6, <2>7, <2>8 DEF RequestInv
<1>6. CASE pc = "notify"
  <2>1. pending = [avail |-> (mem.avail + 1) % IDX] /\ Quiet /\ last_used_index = mem.avail
    BY <1>2, <1>6 DEF RequestInv
  <2>2. c = "avail" /\ pending' = NoStore
    BY <1>1, <2>1 DEF NoStore
  <2>3. mem' = [mem EXCEPT !.avail = (mem.avail + 1) % IDX]
    BY <1>1, <2>1, <2>2
  <2>4. mem'.avail = (mem.avail + 1) % IDX /\ \A d \in ChainCells \cup {"used"} : mem'[d] = mem[d]
    BY <1>3, <2>3 DEF ChainCells
  <2>5. Offered' /\ mem'.avail = (last_used_index' + 1) % IDX
    BY <1>1, <2>1, <2>4 DEF Offered, Quiet
  <2>6. ChainInMemory'
    BY <1>1, <1>6, <2>4 DEF RequestInv, ChainInMemory, ChainCells
  <2>7. req' \in Requests /\ ready'
    BY <1>1, <1>6 DEF RequestInv
  <2>8. QED
    BY <1>1, <1>6, <2>2, <2>5, <2>6, <2>7 DEF RequestInv
<1>7. QED
  BY <1>4, <1>5, <1>6

\* While the device works on a request, or a request waits for it, the driver is between
\* the index and the end of its polling loop.
LEMMA InRequest ==
    ASSUME BasicTypes, RequestInv, Offered \/ Working
    PROVE  pc \in {"notify", "poll"} /\ pending = NoStore /\ ChainInMemory /\ req \in Requests
<1>1. mem.avail # mem.used
  BY IndexSteps DEF BasicTypes, Cells, Offered, Working
<1>2. ~Quiet
  BY <1>1 DEF Quiet
<1>3. QED
  BY <1>2 DEF RequestInv, BasicTypes

\* A step of the device that leaves the available index and the driver alone.
LEMMA DeviceInv ==
    ASSUME BasicTypes, RequestInv, Offered \/ Working, UNCHANGED <<driverVars, pending>>,
           mem'.avail = mem.avail, ChainInMemory', (Offered \/ Working \/ Quiet)'
    PROVE  RequestInv'
<1>1. pc \in {"notify", "poll"} /\ pending = NoStore /\ req \in Requests
  BY InRequest
<1>2. UNCHANGED <<ready, last_used_index, pc, req, pending>>
  BY DEF driverVars
<1>3. pc = "notify" => mem.avail = (last_used_index + 1) % IDX
  <2>1. mem.avail # mem.used
    BY IndexSteps DEF BasicTypes, Cells, Offered, Working
  <2>2. QED
    BY <2>1 DEF RequestInv, Quiet
<1>4. pc = "poll" => mem.avail = last_used_index
  BY DEF RequestInv
<1>5. ready
  BY <1>1 DEF RequestInv
<1>6. QED
  BY <1>1, <1>2, <1>3, <1>4, <1>5 DEF RequestInv

\* do_request() and the device keep the request, the memory and the rings in step.
LEMMA RequestInductive ==
    ASSUME BasicTypes, BasicTypes', RequestInv, ReadyInv, [Next]_vars
    PROVE  RequestInv'
<1>1. CASE initialize
  <2>1. pc = "idle" /\ req = None /\ pending = NoStore /\ Quiet /\ last_used_index = mem.avail
    BY <1>1 DEF initialize, RequestInv
  <2>2. CASE resolve_dma_buffers /\ queue_size_accepted
    <3>1. mem'.avail = 0 /\ mem'.used = 0 /\ last_used_index' = 0 /\ dev'.seen = 0 /\ dev'.doing = "nothing"
      <4>1. mem' = Zeroed /\ last_used_index' = 0
        BY <1>1, <2>2 DEF initialize, virtq_init
      <4>2. mem'.avail = 0 /\ mem'.used = 0
        BY <4>1 DEF Zeroed, BasicTypes, Cells
      <4>3. dev'.seen = 0 /\ dev'.doing = "nothing"
        BY <1>1 DEF initialize, Reset
      <4>4. QED
        BY <4>1, <4>2, <4>3
    <3>2. QED
      BY <1>1, <2>1, <3>1 DEF RequestInv, Quiet, initialize
  <2>3. CASE ~(resolve_dma_buffers /\ queue_size_accepted)
    <3>1. ~ready /\ ~dev.live
      BY <2>3 DEF ReadyInv, BasicTypes
    <3>2. UNCHANGED <<mem, last_used_index>> /\ dev' = [Reset EXCEPT !.live = FALSE]
      BY <1>1, <2>3 DEF initialize
    <3>3. dev.seen = 0
      BY <3>1 DEF ReadyInv, Reset
    <3>4. QED
      BY <1>1, <2>1, <3>2, <3>3 DEF RequestInv, Quiet, initialize, Reset
  <2>4. QED
    BY <2>2, <2>3
<1>2. ASSUME NEW s \in Sectors, read_block(s)
      PROVE  RequestInv'
  <2>1. [type |-> "BLK_T_IN", sector |-> s, data |-> None] \in Requests
    BY DEF Requests
  <2>2. QED
    BY <1>2, <2>1, RequestStarts DEF read_block
<1>3. ASSUME NEW s \in Sectors, NEW v \in Values, write_block(s, v)
      PROVE  RequestInv'
  <2>1. [type |-> "BLK_T_OUT", sector |-> s, data |-> v] \in Requests
    BY DEF Requests
  <2>2. QED
    BY <1>3, <2>1, RequestStarts DEF write_block
<1>4. ASSUME NEW c \in DOMAIN pending, store_visible(c)
      PROVE  RequestInv'
  BY <1>4, StoreArrives
<1>5. CASE kick_index
  <2>1. pc = "kick" /\ pc' = "notify" /\ UNCHANGED <<mem, dev, req, ready, last_used_index>>
        /\ pending' = [avail |-> (mem'.avail + 1) % IDX]
    BY <1>5 DEF kick_index
  <2>2. \A c \in ChainCells : IsChainStore(c, mem[c]) \/ (c = "data" /\ req.type = "BLK_T_IN")
    BY <1>5, <2>1 DEF kick_index, RequestInv, NoStore
  <2>3. ChainInMemory
    BY <2>2 DEF ChainCells, IsChainStore, ChainInMemory
  <2>4. Quiet' /\ ChainInMemory' /\ last_used_index' = mem'.avail /\ req' \in Requests /\ ready'
    BY <2>1, <2>3 DEF RequestInv, Quiet, ChainInMemory
  <2>5. QED
    BY <2>1, <2>4 DEF RequestInv
<1>6. CASE kick_notify
  <2>1. /\ pc = "notify" /\ pc' = "poll" /\ pending = NoStore /\ UNCHANGED <<mem, pending, req, ready>>
        /\ last_used_index' = (last_used_index + 1) % IDX
        /\ dev'.doing = dev.doing /\ dev'.seen = dev.seen /\ dev'.type = dev.type
        /\ dev'.sector = dev.sector /\ dev'.ok = dev.ok
    BY <1>6 DEF kick_notify, BasicTypes
  <2>2. NoStore # [avail |-> (mem.avail + 1) % IDX]
    BY DEF NoStore
  <2>3. /\ ChainInMemory /\ req \in Requests /\ ready
        /\ mem.avail = (last_used_index + 1) % IDX
        /\ Offered \/ Working \/ Quiet
    BY <2>1, <2>2 DEF RequestInv
  <2>4. ChainInMemory' /\ (Offered \/ Working \/ Quiet)'
    BY <2>1, <2>3 DEF ChainInMemory, Offered, Working, Quiet
  <2>5. QED
    BY <2>1, <2>3, <2>4 DEF RequestInv
<1>7. CASE request_return
  <2>1. pc = "poll" /\ mem.used = mem.avail /\ mem.avail = last_used_index /\ pending = NoStore
    BY <1>7 DEF request_return, virtq_is_busy, RequestInv
  <2>2. Quiet
    BY <2>1, IndexSteps DEF RequestInv, BasicTypes, Cells, Offered, Working
  <2>3. QED
    BY <1>7, <2>1, <2>2 DEF request_return, RequestInv, Quiet
<1>8. CASE dev_fetch
  <2>1. ~Quiet /\ ~Working
    BY <1>8 DEF dev_fetch, Quiet, Working
  <2>2. Offered
    BY <2>1 DEF RequestInv, BasicTypes
  <2>3. Working' /\ ChainInMemory' /\ mem'.avail = mem.avail
    BY <1>8, <2>2, InRequest DEF dev_fetch, Working, Offered, ChainInMemory, BasicTypes, driverVars
  <2>4. QED
    BY <1>8, <2>2, <2>3, DeviceInv DEF dev_fetch
<1>9. ASSUME dev.doing # "nothing"
      PROVE  Working /\ ChainInMemory /\ pc \in {"notify", "poll"}
  <2>1. ~Quiet /\ ~Offered
    BY <1>9 DEF Quiet, Offered
  <2>2. Working
    BY <2>1 DEF RequestInv, BasicTypes
  <2>3. QED
    BY <2>2, InRequest
<1>10. CASE dev_transfer
  <2>1. Working /\ ChainInMemory
    BY <1>9, <1>10 DEF dev_transfer
  <2>2. Working'
    BY <1>10, <2>1 DEF dev_transfer, Working, BasicTypes, driverVars, Cells
  <2>3. ChainInMemory' /\ mem'.avail = mem.avail
    BY <1>10, <2>1 DEF dev_transfer, Working, ChainInMemory, BasicTypes, driverVars, Cells
  <2>4. UNCHANGED <<driverVars, pending>>
    BY <1>10 DEF dev_transfer
  <2>5. QED
    BY <2>1, <2>2, <2>3, <2>4, DeviceInv
<1>11. CASE dev_status
  <2>1. Working /\ ChainInMemory
    BY <1>9, <1>11 DEF dev_status
  <2>2. Working' /\ ChainInMemory' /\ mem'.avail = mem.avail
    BY <1>11, <2>1 DEF dev_status, Working, ChainInMemory, BasicTypes, driverVars, Cells
  <2>3. QED
    BY <1>11, <2>1, <2>2, DeviceInv DEF dev_status
<1>12. CASE dev_used
  <2>1. Working /\ ChainInMemory
    BY <1>9, <1>12 DEF dev_used
  <2>2. Quiet' /\ ChainInMemory' /\ mem'.avail = mem.avail
    BY <1>12, <2>1 DEF dev_used, Working, Quiet, ChainInMemory, BasicTypes, driverVars, Cells
  <2>3. QED
    BY <1>12, <2>1, <2>2, DeviceInv DEF dev_used
<1>13. ASSUME UNCHANGED <<driverVars, mem, pending>>, dev'.doing = dev.doing, dev'.seen = dev.seen,
              dev'.type = dev.type, dev'.sector = dev.sector, dev'.ok = dev.ok
       PROVE  RequestInv'
  <2>1. UNCHANGED <<pc, req, ready, last_used_index, mem, pending>>
    BY <1>13 DEF driverVars
  <2>2. Quiet' = Quiet /\ Offered' = Offered /\ Working' = Working /\ ChainInMemory' = ChainInMemory
    BY <1>13, <2>1 DEF Quiet, Offered, Working, ChainInMemory
  <2>3. \A c, v : IsChainStore(c, v)' = IsChainStore(c, v)
    BY <2>1 DEF IsChainStore
  <2>4. QED
    BY <2>1, <2>2, <2>3 DEF RequestInv
<1>14. CASE dev_sleep
  BY <1>13, <1>14 DEF dev_sleep, BasicTypes
<1>15. CASE UNCHANGED vars
  BY <1>13, <1>15 DEF vars
<1>16. CASE poll_again
  BY <1>15, <1>16 DEF poll_again
<1>17. QED
  BY <1>1, <1>2, <1>3, <1>4, <1>5, <1>6, <1>7, <1>8, <1>10, <1>11, <1>12, <1>14, <1>15, <1>16
     DEF Next, driver_step, dev_step

LEMMA VirtioInit == Init => BasicTypes /\ RequestInv /\ ReadyInv
<1>1. SUFFICES ASSUME Init PROVE BasicTypes /\ RequestInv /\ ReadyInv
  OBVIOUS
<1>2. 0 \in 0 .. IDX - 1
  BY VirtioConstants
<1>3. BasicTypes
  <2>1. mem \in Cells
    BY <1>1, <1>2 DEF Init, Cells
  <2>2. queue \in [num : Nat, avail : Nat, used : Nat]
    BY <1>1 DEF Init, NoQueue
  <2>3. dev \in [live : BOOLEAN, notified : BOOLEAN, seen : 0 .. IDX - 1,
                 doing : {"nothing", "transfer", "status", "used"},
                 type : {"BLK_T_IN", "BLK_T_OUT", None}, sector : Sectors \cup {None},
                 ok : BOOLEAN]
    BY <1>1, <1>2 DEF Init, Reset
  <2>4. /\ hw \in Machine /\ ready = FALSE /\ last_used_index = 0 /\ pc = "idle" /\ req = None
        /\ result = None /\ disk \in [Sectors -> Values]
    BY <1>1 DEF Init
  <2>5. QED
    BY <1>2, <2>1, <2>2, <2>3, <2>4 DEF BasicTypes
<1>4. mem.avail = 0 /\ mem.used = 0
  BY <1>1 DEF Init
<1>5. RequestInv /\ ReadyInv
  BY <1>1, <1>4 DEF Init, RequestInv, ReadyInv, Quiet, Reset
<1>6. QED
  BY <1>3, <1>5

\* The inductive invariant of driver and device: whatever order the stores of a request reach
\* memory in and whenever the device looks, driver, memory and device agree on the request.
THEOREM VirtioInvariant == Spec => []VirtioInv
<1>1. BasicTypes /\ RequestInv /\ ReadyInv /\ [Next]_vars => (BasicTypes /\ RequestInv /\ ReadyInv)'
  BY TypesInductive, ReadyInductive, RequestInductive
<1>2. BasicTypes /\ RequestInv /\ ReadyInv => VirtioInv
  BY OverTyped DEF VirtioInv, BasicTypes, TypeOK
<1>3. QED
  BY <1>1, <1>2, VirtioInit, PTL DEF Spec

\* setup_request() and virtq_kick(): the device only ever works on the chain of the running
\* request, with all of its stores in memory.
THEOREM RequestSeen == Spec => []DeviceSeesTheRequest
<1>1. VirtioInv => DeviceSeesTheRequest
  <2>1. SUFFICES ASSUME VirtioInv, dev.doing # "nothing"
                 PROVE  DeviceSeesTheRequest
    BY DEF DeviceSeesTheRequest
  <2>2. BasicTypes
    BY <2>1 DEF VirtioInv, TypeOK, BasicTypes
  <2>3. ~Quiet /\ ~Offered
    BY <2>1 DEF Quiet, Offered
  <2>4. Working
    BY <2>1, <2>2, <2>3 DEF VirtioInv, RequestInv, BasicTypes
  <2>5. pc \in {"notify", "poll"} /\ pending = NoStore /\ ChainInMemory
    BY <2>1, <2>2, <2>4, InRequest DEF VirtioInv
  <2>6. QED
    BY <2>4, <2>5 DEF DeviceSeesTheRequest, Working, ChainInMemory, DescFor, Direction
<1>2. QED
  BY <1>1, VirtioInvariant, PTL

\* vring_init() within vring_size(): the descriptors and the two rings do not overlap and lie
\* within virtqueue_memory, for every queue size the driver accepts.
THEOREM RingsFit == Spec => []QueueFits
<1>1. ASSUME VirtioInv, ready
      PROVE  /\ 3 <= queue.num /\ 16 * queue.num <= queue.avail
             /\ queue.avail + 4 + 2 * queue.num + 2 <= queue.used
             /\ queue.used % VIRTIO_PAGE_SIZE = 0
             /\ queue.used + 4 + 8 * queue.num + 2 <= QUEUE_MEMORY
  <2> DEFINE n == hw.queue_size
             w == 16 * n + 4 + 2 * n
             u == RoundUp(w, VIRTIO_PAGE_SIZE)
  <2>1. queue_size_accepted /\ queue = [num |-> n, avail |-> 16 * n, used |-> u]
    BY <1>1 DEF VirtioInv, ReadyInv, vring_init
  <2>2. n \in QueueSizes /\ n \in Nat /\ n # 0 /\ n # 1 /\ n # 2 /\ IsPowerOfTwo(n)
    BY <1>1, <2>1, VirtioConstants DEF VirtioInv, TypeOK, Machine, queue_size_accepted
  <2>3. n >= 3 /\ n % 4 = 0
    BY <2>2 DEF IsPowerOfTwo
  <2>4. VIRTIO_PAGE_SIZE \in Nat \ {0} /\ VIRTIO_PAGE_SIZE % 8 = 0
    BY VirtioConstants
  <2>5. w \in Nat
    BY <2>2
  <2>6. u \in Nat /\ u % VIRTIO_PAGE_SIZE = 0 /\ w <= u
    BY <2>4, <2>5, RoundUpFacts
  <2>7. u % 8 = 0
    <3>1. PICK k \in Nat : u = k * VIRTIO_PAGE_SIZE
      <4> DEFINE q == (w + VIRTIO_PAGE_SIZE - 1) \div VIRTIO_PAGE_SIZE
      <4>1. q \in Nat
        BY <2>4, <2>5
      <4>2. u = q * VIRTIO_PAGE_SIZE
        BY DEF RoundUp
      <4> HIDE DEF q, u
      <4>3. QED
        BY <4>1, <4>2
    <3>2. PICK m \in Nat : VIRTIO_PAGE_SIZE = 8 * m
      BY <2>4
    <3>3. u = 8 * (k * m) /\ k * m \in Nat
      BY <3>1, <3>2
    <3>4. QED
      BY <3>3
  <2>8. w % 8 = 4
    <3>1. PICK m \in Nat : n = 4 * m
      BY <2>2, <2>3
    <3>2. w = 8 * (9 * m) + 4
      BY <3>1
    <3>3. QED
      BY <3>1, <3>2
  <2> HIDE DEF w, u
  <2>9. w + 2 <= u
    BY <2>5, <2>6, <2>7, <2>8
  <2>10. vring_size(n, VIRTIO_PAGE_SIZE) = u + 2 * 3 + 8 * n
    <3>1. 16 * n + 2 * (2 + n) = 16 * n + 4 + 2 * n
      BY <2>2
    <3>2. QED
      BY <3>1 DEF vring_size, u, w
  <2>11. u + 2 * 3 + 8 * n <= QUEUE_MEMORY
    BY <2>1, <2>10 DEF queue_size_accepted
  <2>12. QUEUE_MEMORY \in Nat
    BY VirtioConstants
  <2>13. w = 16 * n + 4 + 2 * n
    BY DEF w
  <2>14. QED
    BY <2>1, <2>2, <2>3, <2>6, <2>9, <2>11, <2>12, <2>13
<1>2. VirtioInv => QueueFits
  BY <1>1 DEF QueueFits, VirtioInv
<1>3. QED
  BY <1>2, VirtioInvariant, PTL

-----------------------------------------------------------------------------
(* The driver and its device are a block device *)

\* What the running call will return, by where driver and device are.
OutcomeFacts ==
    /\ pc \in {"idle", "kick"} \/ pending # NoStore \/ Offered \/ dev.doing = "transfer"
           => Outcome = None
    /\ dev.doing \in {"status", "used"}
           => Outcome = [ok   |-> dev.ok,
                         data |-> IF dev.ok /\ req.type = "BLK_T_IN" THEN mem.data ELSE None]
    /\ pc \in {"notify", "poll"} /\ pending = NoStore /\ Quiet
           => Outcome = [ok   |-> mem.status = "OK",
                         data |-> IF mem.status = "OK" /\ req.type = "BLK_T_IN"
                                  THEN mem.data ELSE None]

LEMMA OutcomeByPlace == BasicTypes /\ RequestInv => OutcomeFacts
<1> SUFFICES ASSUME BasicTypes, RequestInv PROVE OutcomeFacts
  OBVIOUS
<1>1. Offered \/ Working => mem.avail # mem.used
  BY IndexSteps DEF BasicTypes, Cells, Offered, Working
<1>2. dev.doing # "nothing" => Working
  BY DEF RequestInv, BasicTypes, Quiet, Offered
<1>3. ASSUME pc \in {"idle", "kick"} \/ pending # NoStore \/ Offered \/ dev.doing = "transfer"
      PROVE  Outcome = None
  <2>1. pc \in {"idle", "kick"} \/ pending # NoStore => dev.doing = "nothing"
    BY DEF RequestInv, Quiet, BasicTypes
  <2>2. ~Moved
    BY <1>1, <1>2, <1>3, <2>1 DEF Moved, Finished, Offered
  <2>3. QED
    BY <2>2 DEF Outcome
<1>4. dev.doing \in {"status", "used"}
          => Outcome = [ok   |-> dev.ok,
                        data |-> IF dev.ok /\ req.type = "BLK_T_IN" THEN mem.data ELSE None]
  BY <1>1, <1>2 DEF Outcome, Moved, MovedOk, Finished
<1>5. pc \in {"notify", "poll"} /\ pending = NoStore /\ Quiet
          => Outcome = [ok   |-> mem.status = "OK",
                        data |-> IF mem.status = "OK" /\ req.type = "BLK_T_IN"
                                 THEN mem.data ELSE None]
  BY DEF Quiet, Outcome, Moved, MovedOk, Finished
<1>6. QED
  BY <1>3, <1>4, <1>5 DEF OutcomeFacts

\* Every step of the driver or the device is a step of the block device, or changes nothing of it.
LEMMA DeviceStep ==
    ASSUME BasicTypes, RequestInv, ReadyInv, OutcomeFacts, OutcomeFacts', [Next]_vars
    PROVE  [Device!Next]_<<disk, req, Outcome, result>>
<1>1. CASE initialize
  <2>1. pc = "idle" /\ pc' = "idle" /\ UNCHANGED <<disk, req, result>>
    BY <1>1 DEF initialize
  <2>2. Outcome = None /\ Outcome' = None
    BY <2>1 DEF OutcomeFacts
  <2>3. QED
    BY <2>1, <2>2
<1>2. ASSUME NEW c \in Requests, NEW st, start(c, st)
      PROVE  Device!Next
  <2>1. Outcome = None /\ Outcome' = None /\ req = None /\ UNCHANGED disk
    <3>1. pc = "idle" /\ pc' \in {"idle", "kick"}
      BY <1>2 DEF start
    <3>2. QED
      BY <1>2, <3>1 DEF OutcomeFacts, start, RequestInv
  <2>2. CASE ready
    <3>1. Device!Call(c)
      BY <1>2, <2>1, <2>2 DEF start, Device!Call
    <3>2. c \in Device!Calls
      BY DEF Device!Calls, Requests
    <3>3. QED
      BY <3>1, <3>2 DEF Device!Next
  <2>3. CASE ~ready
    <3>1. Device!Refuse
      BY <1>2, <2>1, <2>3 DEF start, Device!Refuse, Device!Failed, Failed
    <3>2. QED
      BY <3>1 DEF Device!Next
  <2>4. QED
    BY <2>2, <2>3
<1>3. ASSUME NEW s \in Sectors, read_block(s)
      PROVE  Device!Next
  BY <1>2, <1>3 DEF read_block, Requests
<1>4. ASSUME NEW s \in Sectors, NEW v \in Values, write_block(s, v)
      PROVE  Device!Next
  BY <1>2, <1>4 DEF write_block, Requests
<1>5. ASSUME NEW c \in DOMAIN pending, store_visible(c)
      PROVE  UNCHANGED <<disk, req, Outcome, result>>
  <2>1. pending # NoStore
    BY DEF NoStore
  <2>2. UNCHANGED <<disk, req, result, pc, dev>>
    BY <1>5 DEF store_visible, driverVars
  <2>3. Outcome = None
    BY <2>1 DEF OutcomeFacts
  <2>4. Outcome' = None
    <3>1. CASE pc = "kick"
      BY <2>2, <3>1 DEF OutcomeFacts
    <3>2. CASE pc # "kick"
      <4>1. pc = "notify" /\ pending = [avail |-> (mem.avail + 1) % IDX] /\ Quiet
        BY <2>1, <3>2 DEF RequestInv, BasicTypes
      <4>2. c = "avail"
        BY <4>1
      <4>3. Offered'
        BY <1>5, <2>2, <4>1, <4>2 DEF store_visible, Offered, Quiet, BasicTypes, Cells
      <4>4. QED
        BY <4>3 DEF OutcomeFacts
    <3>3. QED
      BY <3>1, <3>2
  <2>5. QED
    BY <2>2, <2>3, <2>4
<1>6. CASE kick_index
  <2>1. pc = "kick" /\ UNCHANGED <<disk, req, result>> /\ pending' # NoStore
    BY <1>6 DEF kick_index, NoStore
  <2>2. Outcome = None /\ Outcome' = None
    BY <2>1 DEF OutcomeFacts
  <2>3. QED
    BY <2>1, <2>2
<1>7. CASE kick_notify
  <2>1. UNCHANGED <<disk, req, result, mem, pending>> /\ pc = "notify" /\ pc' = "poll"
        /\ dev'.doing = dev.doing /\ dev'.ok = dev.ok
    BY <1>7 DEF kick_notify, BasicTypes
  <2>2. UNCHANGED Outcome
    BY <2>1 DEF Outcome, Moved, MovedOk, Finished
  <2>3. QED
    BY <2>1, <2>2
<1>8. CASE request_return
  <2>1. pc = "poll" /\ pending = NoStore /\ Quiet /\ pc' = "idle" /\ req' = None /\ UNCHANGED disk
    BY <1>8, IndexSteps DEF request_return, virtq_is_busy, RequestInv, BasicTypes, Cells, Offered,
       Working
  <2>2. result' = Outcome
    BY <1>8, <2>1 DEF OutcomeFacts, request_return
  <2>3. Outcome' = None
    BY <2>1 DEF OutcomeFacts
  <2>4. Outcome \in Outcomes
    <3>1. (mem.status = "OK") \in BOOLEAN /\ mem.data \in Values
      BY DEF BasicTypes, Cells
    <3>2. Outcome = [ok   |-> mem.status = "OK",
                     data |-> IF mem.status = "OK" /\ req.type = "BLK_T_IN"
                              THEN mem.data ELSE None]
      BY <2>1 DEF OutcomeFacts
    <3>3. CASE mem.status = "OK"
      <4>1. Outcome = [ok |-> TRUE, data |-> IF req.type = "BLK_T_IN" THEN mem.data ELSE None]
        BY <3>2, <3>3
      <4>2. QED
        BY <3>1, <4>1 DEF Outcomes
    <3>4. CASE mem.status # "OK"
      <4>1. Outcome = [ok |-> FALSE, data |-> None]
        BY <3>2, <3>4
      <4>2. QED
        BY <4>1 DEF Outcomes
    <3>5. QED
      BY <3>3, <3>4
  <2>5. Outcome # None
    BY <2>4, VirtioConstants
  <2>6. QED
    BY <2>1, <2>2, <2>3, <2>5 DEF Device!Return, Device!Next
<1>9. CASE dev_fetch
  <2>1. Offered /\ UNCHANGED <<disk, req, result>> /\ dev'.doing = "transfer"
    BY <1>9 DEF dev_fetch, RequestInv, BasicTypes, Quiet, Working, driverVars
  <2>2. Outcome = None /\ Outcome' = None
    BY <2>1 DEF OutcomeFacts
  <2>3. QED
    BY <2>1, <2>2
<1>10. ASSUME dev.doing # "nothing"
       PROVE  /\ Working /\ ChainInMemory /\ pc \in {"notify", "poll"} /\ pending = NoStore
              /\ req \in Requests /\ req # None
  <2>1. Working
    BY <1>10 DEF RequestInv, BasicTypes, Quiet, Offered
  <2>2. QED
    BY <2>1, InRequest, VirtioConstants
<1>11. CASE dev_transfer
  <2>1. Working /\ ChainInMemory /\ req \in Requests /\ req # None
    BY <1>10, <1>11 DEF dev_transfer
  <2>2. Outcome = None
    BY <1>11 DEF OutcomeFacts, dev_transfer
  <2>3. PICK ok \in BOOLEAN :
            /\ dev' = [dev EXCEPT !.doing = "status", !.ok = ok]
            /\ \/ ok /\ dev.type = "BLK_T_IN"
                  /\ mem' = [mem EXCEPT !.data = disk[dev.sector]] /\ UNCHANGED disk
               \/ dev.type = "BLK_T_OUT"
                  /\ disk' = [disk EXCEPT ![dev.sector] = mem.data] /\ UNCHANGED mem
               \/ ~ok /\ UNCHANGED <<mem, disk>>
    BY <1>11 DEF dev_transfer
  <2>4. dev'.doing = "status" /\ dev'.ok = ok /\ UNCHANGED <<req, result>>
    BY <1>11, <2>3 DEF dev_transfer, driverVars, BasicTypes
  <2>5. Outcome' = [ok |-> ok, data |-> IF ok /\ req.type = "BLK_T_IN" THEN mem'.data ELSE None]
    BY <2>4 DEF OutcomeFacts
  <2>6. CASE ok /\ dev.type = "BLK_T_IN" /\ mem' = [mem EXCEPT !.data = disk[dev.sector]]
             /\ UNCHANGED disk
    <3>1. mem'.data = disk[req.sector] /\ req.type = "BLK_T_IN"
      BY <2>1, <2>6 DEF Working, BasicTypes, Cells
    <3>2. Device!Read
      BY <2>1, <2>2, <2>4, <2>5, <2>6, <3>1 DEF Device!Read
    <3>3. QED
      BY <3>2 DEF Device!Next
  <2>7. CASE dev.type = "BLK_T_OUT" /\ disk' = [disk EXCEPT ![dev.sector] = mem.data]
    <3>1. disk' = [disk EXCEPT ![req.sector] = req.data] /\ req.type = "BLK_T_OUT"
      BY <2>1, <2>7 DEF Working, ChainInMemory
    <3>2. Outcome' = IF ok THEN Device!Written ELSE Device!Failed
      BY <2>5, <3>1 DEF Device!Written, Device!Failed
    <3>3. Device!Write(ok)
      BY <2>1, <2>2, <2>4, <3>1, <3>2 DEF Device!Write
    <3>4. QED
      BY <3>3 DEF Device!Next
  <2>8. CASE ~ok /\ UNCHANGED <<mem, disk>>
    <3>1. Device!Fail
      BY <2>1, <2>2, <2>4, <2>5, <2>8 DEF Device!Fail, Device!Failed
    <3>2. QED
      BY <3>1 DEF Device!Next
  <2>9. QED
    BY <2>3, <2>6, <2>7, <2>8
<1>12. CASE dev_status
  <2>1. /\ dev.doing = "status" /\ dev'.doing = "used" /\ dev'.ok = dev.ok /\ mem'.data = mem.data
        /\ UNCHANGED <<disk, req, result>>
    BY <1>12 DEF dev_status, driverVars, BasicTypes, Cells
  <2>2. UNCHANGED Outcome
    BY <2>1 DEF OutcomeFacts
  <2>3. QED
    BY <2>1, <2>2
<1>13. CASE dev_used
  <2>1. Working /\ pc \in {"notify", "poll"} /\ pending = NoStore
    BY <1>10, <1>13 DEF dev_used
  <2>2. /\ dev.doing = "used" /\ mem.status = (IF dev.ok THEN "OK" ELSE "IOERR")
        /\ mem'.status = mem.status /\ mem'.data = mem.data /\ UNCHANGED <<disk, req, result, pc, pending>>
    BY <1>13, <2>1 DEF dev_used, driverVars, BasicTypes, Cells, Working
  <2>3. Quiet'
    BY <1>13, <2>1 DEF dev_used, Working, Quiet, BasicTypes, Cells
  <2>4. (dev.ok <=> mem.status = "OK") /\ dev.ok \in BOOLEAN
    BY <2>2 DEF BasicTypes
  <2>5. Outcome = [ok |-> mem.status = "OK",
                   data |-> IF mem.status = "OK" /\ req.type = "BLK_T_IN" THEN mem.data ELSE None]
    BY <2>2, <2>4 DEF OutcomeFacts
  <2>6. UNCHANGED Outcome
    BY <2>1, <2>2, <2>3, <2>5 DEF OutcomeFacts
  <2>7. QED
    BY <2>2, <2>6
<1>14. CASE dev_sleep
  <2>1. UNCHANGED <<disk, req, result, mem, pending, pc>> /\ dev'.doing = dev.doing /\ dev'.ok = dev.ok
    BY <1>14 DEF dev_sleep, driverVars, BasicTypes
  <2>2. UNCHANGED Outcome
    BY <2>1 DEF Outcome, Moved, MovedOk, Finished
  <2>3. QED
    BY <2>1, <2>2
<1>15. CASE UNCHANGED vars
  BY <1>15 DEF vars, driverVars, Outcome, Moved, MovedOk, Finished
<1>16. CASE poll_again
  BY <1>15, <1>16 DEF poll_again
<1>17. QED
  BY <1>1, <1>3, <1>4, <1>5, <1>6, <1>7, <1>8, <1>9, <1>11, <1>12, <1>13, <1>14, <1>15, <1>16
     DEF Next, driver_step, dev_step

\* read_block() and write_block(): the driver and its device are a block device.  No call
\* returns before the device is done with it, a read returns what its sector held during the
\* call, a write reported as done is on the disk, no request is carried out twice.
THEOREM DriverIsBlockDevice == Spec => IsBlockDevice
<1>1. Init => Device!Init
  <2>1. SUFFICES ASSUME Init PROVE Device!Init
    OBVIOUS
  <2>2. Outcome = None
    BY <2>1, VirtioInit, OutcomeByPlace DEF OutcomeFacts, Init
  <2>3. QED
    BY <2>1, <2>2 DEF Init, Device!Init
<1>2. VirtioInv /\ OutcomeFacts /\ OutcomeFacts' /\ [Next]_vars => [Device!Next]_<<disk, req, Outcome, result>>
  <2>1. VirtioInv => BasicTypes /\ RequestInv /\ ReadyInv
    BY DEF VirtioInv, TypeOK, BasicTypes
  <2>2. QED
    BY <2>1, DeviceStep
<1>3. VirtioInv => OutcomeFacts
  BY OutcomeByPlace DEF VirtioInv, TypeOK, BasicTypes
<1>4. QED
  BY <1>1, <1>2, <1>3, VirtioInvariant, PTL DEF Spec, IsBlockDevice, Device!Spec
=============================================================================
