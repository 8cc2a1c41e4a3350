---------------------------- MODULE IdeReadProofs ---------------------------
(***************************************************************************)
(* Proofs about IdeRead, for every size of disk, sector, sector cache and  *)
(* handler pool: the type invariant, that reading a byte gives what the    *)
(* disk holds, that the lists of handlers hold what was registered, last   *)
(* first, and that the disk's interrupt is not lost.  Interrupts and       *)
(* registrations do not disturb a transfer: of what it uses they write     *)
(* only has_ide_intr, and pc from halted to wait.                          *)
(***************************************************************************)
EXTENDS IdeRead, SequenceTheorems, FiniteSetTheorems, Recursion, TLAPS

-----------------------------------------------------------------------------
(* The sector cache's index and the position the device computes           *)

LEMMA EntryInCache ==
  ASSUME NEW sector \in Sectors
  PROVE  Entry(sector) \in Entries
  BY DiskAssumption DEF Entry, Entries, Sectors

LEMMA PositionExact ==
  ASSUME NEW sector \in Sectors
  PROVE  sector % PositionSectors = sector
  BY DiskAssumption DEF PositionSectors, Sectors

LEMMA RegistrationTyped ==
  ASSUME NEW k \in 1 .. Len(Registrations)
  PROVE  /\ Registrations[k] \in [irq : Irqs, func : STRING, ints : BOOLEAN]
         /\ Registrations[k].irq \in Irqs
         /\ Registrations[k].func \in Routines
<1> DEFINE R == [irq : Irqs, func : STRING, ints : BOOLEAN]
<1>1. Registrations \in Seq(R)
  BY RegistrationsAssumption
<1>2. Registrations[k] \in R
  <2> HIDE DEF R
  <2> QED
    BY <1>1, ElementOfSeq
<1> QED
  BY <1>2 DEF Routines

LEMMA RegistrationsFit ==
  Len(Registrations) \in Nat /\ 1 .. Len(Registrations) \subseteq PoolNodes
<1> DEFINE R == [irq : Irqs, func : STRING, ints : BOOLEAN]
<1>1. Registrations \in Seq(R)
  BY RegistrationsAssumption
<1>2. Len(Registrations) \in Nat
  <2> HIDE DEF R
  <2> QED
    BY <1>1, LenProperties
<1> QED
  BY <1>2, RegistrationsAssumption DEF PoolNodes

-----------------------------------------------------------------------------
(* Type correctness *)

LEMMA TypeInit == Init => TypeOK
<1> SUFFICES ASSUME Init PROVE TypeOK
  OBVIOUS
<1>1. /\ 0 \in Sectors /\ 0 \in WordNos /\ 0 \in 0 .. NWords
      /\ 0 \in 0 .. Len(Registrations)
  BY DiskAssumption, RegistrationsFit DEF Sectors, WordNos
<1>2. handle_pool \in [PoolNodes -> [routine : Routines, next : PoolNodes \union {NULL}]]
  <2>1. [routine |-> "none", next |-> NULL] \in [routine : Routines, next : PoolNodes \union {NULL}]
    BY DEF Routines
  <2> QED
    BY <2>1 DEF Init
<1>3. cache \in [Entries -> [used : BOOLEAN, sector : Sectors,
                            content : [WordNos -> Words]]]
  BY <1>1 DEF Init, Words
<1> QED
  <2>1. got \in [word : Words, of : Words]
    BY DEF Init, Words
  <2>2. handles \in [Irqs -> PoolNodes \union {NULL}]
    BY DEF Init
  <2>3. pc = "idle" /\ ~Registering
    BY DEF Init, Registering
  <2> QED
    BY <1>1, <1>2, <1>3, <2>1, <2>2, <2>3 DEF Init, TypeOK

(* How far a transfer is: the device at the driver's sector and word       *)
Transfer ==
  /\ Waiting => disk_idx = target /\ byte_cnt = 0
  /\ pc = "copy" => disk_idx = target /\ byte_cnt = i /\ i < NWords
  /\ pc = "filled" => disk_idx = target /\ byte_cnt = i /\ i = NWords

LEMMA TypeStep == TypeOK /\ Transfer /\ [Next]_vars => TypeOK'
<1> SUFFICES ASSUME TypeOK, Transfer, [Next]_vars PROVE TypeOK'
  OBVIOUS
<1> USE DiskAssumption, RegistrationsFit
<1>1. CASE AddIrqHandle
  <2>1. step + 1 \in 1 .. Len(Registrations)
    BY <1>1 DEF AddIrqHandle, TypeOK
  <2> QED
    BY <1>1, <2>1, RegistrationTyped
    DEF AddIrqHandle, TypeOK, Registering, PoolNodes, pic, request, device
<1>2. CASE Link
  <2>1. step \in 1 .. Len(Registrations)
    BY <1>2 DEF Link, TypeOK, Registering
  <2> QED
    BY <1>2, <2>1, RegistrationTyped DEF Link, TypeOK, Registering, PoolNodes, pic, request, device
<1>3. CASE Publish
  <2>1. step \in 1 .. Len(Registrations)
    BY <1>3 DEF Publish, TypeOK, Registering
  <2> QED
    BY <1>3, <2>1, RegistrationTyped
    DEF Publish, TypeOK, Registering, PoolNodes, pic, request, device
<1>4. ASSUME NEW sector \in Sectors, NEW w \in WordNos, ReadHit(sector, w)
      PROVE  TypeOK'
  BY <1>4, EntryInCache
  DEF ReadHit, Word, Words, TypeOK, Registering, table, device, pic
<1>5. ASSUME NEW sector \in Sectors, NEW w \in WordNos, ReadMiss(sector, w)
      PROVE  TypeOK'
  BY <1>5 DEF ReadMiss, TypeOK, Registering, table, device, pic
<1>6. CASE IssueRead
  BY <1>6, PositionExact
  DEF IssueRead, Raise, IdeIrq, Irqs, TypeOK, Registering, table, request
<1>7. CASE WaitIdeIntr \/ Hlt
  <2>1. pc' \in {"clear", "hlt", "halted"}
    BY <1>7 DEF WaitIdeIntr, Hlt
  <2> QED
    BY <1>7, <2>1 DEF WaitIdeIntr, Hlt, TypeOK, Registering, table, request, device, pic
<1>13. CASE ClearIdeIntr
  <2>1. pc' = "copy" /\ has_ide_intr' = FALSE /\ i' \in 0 .. NWords
    BY <1>13 DEF ClearIdeIntr
  <2> QED
    BY <1>13, <2>1 DEF ClearIdeIntr, TypeOK, Registering, table, device, pic
<1>8. CASE CopyWord
  <2>1. i < NWords /\ byte_cnt < NWords
    BY <1>8 DEF CopyWord, Transfer, TypeOK
  <2> QED
    BY <1>8, <2>1, EntryInCache
    DEF CopyWord, CacheWith, Word, Words, WordNos, TypeOK, Registering, table, pic
<1>9. CASE Filled
  BY <1>9, EntryInCache
  DEF Filled, Word, Words, TypeOK, Registering, table, device, pic
<1>10. CASE TakeInterrupt
  BY <1>10 DEF TakeInterrupt, TypeOK, Registering, table, request, device
<1>11. ASSUME NEW irq \in {TimerIrq, KeyboardIrq}, DeviceRaises(irq)
       PROVE  TypeOK'
  BY <1>11 DEF DeviceRaises, Raise, Irqs, TypeOK, Registering, table, request, device
<1>12. CASE UNCHANGED vars
  BY <1>12 DEF vars, TypeOK, Registering, table, request, device, pic
<1> QED
  BY <1>1, <1>2, <1>3, <1>4, <1>5, <1>6, <1>7, <1>8, <1>9, <1>10, <1>11, <1>12,
     <1>13
  DEF Next, KernelStep

-----------------------------------------------------------------------------
(* The transfer and the cache *)

(* The words copied so far are the target's *)
Copied ==
  pc \in {"copy", "filled"} =>
    \A w \in WordNos : w < i => cache[Entry(target)].content[w] = Word(target, w)

IInv == TypeOK /\ Transfer /\ Copied /\ CacheHoldsDisk /\ ReadsDisk

LEMMA InitIInv == Init => IInv
  BY TypeInit DEF Init, IInv, Transfer, Copied, CacheHoldsDisk, ReadsDisk

(* What only registers handlers, raises or takes an interrupt: the kernel  *)
(* stays in a transfer, or out of one.                                     *)
Beside ==
  \/ AddIrqHandle \/ Link \/ Publish \/ TakeInterrupt
  \/ \E irq \in {TimerIrq, KeyboardIrq} : DeviceRaises(irq)
  \/ UNCHANGED vars

LEMMA BesideKeeps ==
  ASSUME IInv, Beside
  PROVE  Transfer' /\ Copied' /\ CacheHoldsDisk' /\ ReadsDisk'
<1>1. UNCHANGED <<cache, target, i, got, disk_idx, byte_cnt>>
  BY DEF Beside, AddIrqHandle, Link, Publish, TakeInterrupt, DeviceRaises,
         vars, request, device
<1>2. \/ pc' = pc
      \/ {pc, pc'} \subseteq {"idle", "link", "publish"}
      \/ {pc, pc'} \subseteq {"wait", "halted"}
  BY DEF Beside, AddIrqHandle, Link, Publish, TakeInterrupt, DeviceRaises, vars
<1>3. Transfer'
  BY <1>1, <1>2 DEF IInv, Transfer, Waiting
<1>4. Copied'
  BY <1>1, <1>2 DEF IInv, Copied, Entry
<1>5. CacheHoldsDisk' /\ ReadsDisk'
  BY <1>1, <1>2 DEF IInv, CacheHoldsDisk, ReadsDisk, Filling, Waiting, Entry
<1> QED
  BY <1>3, <1>4, <1>5

(* copying a word leaves all entries but the target's alone *)
LEMMA CopyWordKeeps ==
  ASSUME IInv, CopyWord
  PROVE  Transfer' /\ Copied' /\ CacheHoldsDisk' /\ ReadsDisk'
<1> DEFINE e == Entry(target)
<1>1. /\ i \in WordNos /\ byte_cnt = i /\ disk_idx = target
      /\ i' = i + 1 /\ byte_cnt' = byte_cnt + 1
      /\ UNCHANGED <<target, got, disk_idx>>
      /\ e \in Entries
  BY EntryInCache, DiskAssumption
  DEF IInv, TypeOK, Transfer, CopyWord, WordNos
<1>2. /\ cache'[e].content = [cache[e].content EXCEPT ![i] = Word(target, i)]
      /\ \A f \in Entries : f # e => cache'[f] = cache[f]
  BY <1>1 DEF IInv, TypeOK, CopyWord, CacheWith
<1>3. Transfer'
  BY <1>1, DiskAssumption DEF CopyWord, Transfer, Waiting, WordNos
<1>4. Copied'
  <2> SUFFICES ASSUME NEW w \in WordNos, w < i'
               PROVE  cache'[e].content[w] = Word(target, w)
    BY <1>1 DEF Copied, Entry, Word
  <2>1. w = i \/ w < i
    BY <1>1 DEF WordNos
  <2>2. cache[e].content \in [WordNos -> Words]
    BY <1>1 DEF IInv, TypeOK
  <2> QED
    BY <1>1, <1>2, <2>1, <2>2 DEF IInv, Copied, CopyWord
<1>5. CacheHoldsDisk' /\ ReadsDisk'
  BY <1>1, <1>2 DEF IInv, CopyWord, CacheHoldsDisk, ReadsDisk, Filling, Waiting, Entry, Word
<1> QED
  BY <1>3, <1>4, <1>5

LEMMA FilledKeeps ==
  ASSUME IInv, Filled
  PROVE  Transfer' /\ Copied' /\ CacheHoldsDisk' /\ ReadsDisk'
<1> DEFINE e == Entry(target)
<1>1. e \in Entries /\ asked \in WordNos /\ target' = target /\ pc' = "idle"
  BY EntryInCache DEF IInv, TypeOK, Filled
<1>2. \A w \in WordNos : cache[e].content[w] = Word(target, w)
  BY DiskAssumption DEF IInv, Transfer, Copied, Filled, WordNos
<1>3. /\ cache'[e].sector = target /\ cache'[e].content = cache[e].content
      /\ \A f \in Entries : f # e => cache'[f] = cache[f]
  BY <1>1 DEF IInv, TypeOK, Filled
<1>4. CacheHoldsDisk'
  BY <1>1, <1>2, <1>3 DEF IInv, CacheHoldsDisk, Filling, Filled
<1>5. ReadsDisk'
  BY <1>1, <1>2 DEF ReadsDisk, Filled
<1> QED
  BY <1>1, <1>4, <1>5 DEF Transfer, Waiting, Copied

LEMMA NextIInv == IInv /\ [Next]_vars => IInv'
<1> SUFFICES ASSUME IInv, [Next]_vars PROVE IInv'
  OBVIOUS
<1>1. TypeOK'
  BY TypeStep DEF IInv
<1>2. CASE Beside
  BY <1>1, <1>2, BesideKeeps DEF IInv
<1>3. ASSUME NEW sector \in Sectors, NEW w \in WordNos, ReadHit(sector, w)
      PROVE  IInv'
  <2>1. ReadsDisk'
    BY <1>3, EntryInCache
    DEF ReadHit, IInv, CacheHoldsDisk, ReadsDisk, Cached, Filling, Waiting
  <2> QED
    BY <1>1, <1>3, <2>1
    DEF ReadHit, IInv, Transfer, Waiting, Copied, CacheHoldsDisk, Filling, Entry, device
<1>4. ASSUME NEW sector \in Sectors, NEW w \in WordNos, ReadMiss(sector, w)
      PROVE  IInv'
  BY <1>1, <1>4
  DEF ReadMiss, IInv, Transfer, Waiting, Copied, CacheHoldsDisk, ReadsDisk, Filling
<1>5. CASE IssueRead
  <2>1. disk_idx' = target /\ byte_cnt' = 0 /\ pc' = "wait"
    BY <1>5, PositionExact DEF IssueRead, IInv, TypeOK
  <2> QED
    BY <1>1, <1>5, <2>1 DEF IssueRead, IInv, Transfer, Waiting, Copied, CacheHoldsDisk,
                            ReadsDisk, Filling, Entry, request
<1>6. CASE WaitIdeIntr \/ Hlt
  <2>1. /\ Waiting /\ Waiting' /\ pc' \notin {"copy", "filled"}
        /\ UNCHANGED <<target, cache, got, disk_idx, byte_cnt>>
    BY <1>6 DEF WaitIdeIntr, Hlt, Waiting, request, device
  <2> QED
    BY <1>1, <2>1
    DEF IInv, Transfer, Copied, CacheHoldsDisk, ReadsDisk, Filling, Entry
<1>9. CASE ClearIdeIntr
  <2>1. Copied'
    BY <1>9 DEF ClearIdeIntr, Copied, WordNos
  <2> QED
    BY <1>1, <1>9, <2>1, DiskAssumption
    DEF ClearIdeIntr, IInv, Transfer, Waiting, CacheHoldsDisk, ReadsDisk, Filling, Entry,
        device
<1>7. CASE CopyWord
  BY <1>1, <1>7, CopyWordKeeps DEF IInv
<1>8. CASE Filled
  BY <1>1, <1>8, FilledKeeps DEF IInv
<1> QED
  BY <1>2, <1>3, <1>4, <1>5, <1>6, <1>7, <1>8, <1>9 DEF Next, KernelStep, Beside

-----------------------------------------------------------------------------
LEMMA Invariant == Spec => []IInv
  BY InitIInv, NextIInv, PTL DEF Spec

(* Every variable of IdeRead keeps its type, the position of the device    *)
(* within its sector and the number of handlers included.                  *)
THEOREM TypeCorrect == Spec => []TypeOK
<1>1. IInv => TypeOK
  BY DEF IInv
<1> QED
  BY <1>1, Invariant, PTL

(* During a transfer the device stands at the sector the driver asked for  *)
(* and at the word the driver copies next (disk.c, handler_ide).           *)
THEOREM TransfersInStep == Spec => []TransferInStep
<1>1. IInv => TransferInStep
  BY DEF IInv, Transfer, TransferInStep
<1> QED
  BY <1>1, Invariant, PTL

(* Every cached sector but the one being replaced is the disk's            *)
(* (cache_fetch).                                                          *)
THEOREM CachedSectorsHoldDisk == Spec => []CacheHoldsDisk
<1>1. IInv => CacheHoldsDisk
  BY DEF IInv
<1> QED
  BY <1>1, Invariant, PTL

(* read_byte returns what the disk holds at the place it was asked for,    *)
(* whichever interrupts come in between.                                   *)
THEOREM ReadsReturnDisk == Spec => []ReadsDisk
<1>1. IInv => ReadsDisk
  BY DEF IInv
<1> QED
  BY <1>1, Invariant, PTL

-----------------------------------------------------------------------------
(* The lists of handlers *)

(* The registration h is the last one for irq up to p, or 0 if none is    *)
LastBefore(irq, p, h) ==
  /\ h \in 0 .. p
  /\ h # 0 => Registrations[h].irq = irq
  /\ \A q \in h + 1 .. p : Registrations[q].irq # irq

(* Node r is registration r's: the list of its interrupt leads from it to  *)
(* the registration before it.                                             *)
ListInv ==
  /\ \A irq \in Irqs : LastBefore(irq, published, handles[irq])
  /\ \A r \in 1 .. published :
       /\ handle_pool[r].routine = Registrations[r].func
       /\ LastBefore(Registrations[r].irq, r - 1, handle_pool[r].next)
  /\ Registering => handle_pool[step].routine = Registrations[step].func
  /\ pc = "publish" =>
       LastBefore(Registrations[step].irq, step - 1, handle_pool[step].next)

LEMMA ListInit == Init => ListInv
  BY DEF Init, ListInv, LastBefore, published, Registering, NULL

LEMMA PublishedFits ==
  ASSUME TypeOK
  PROVE  /\ published \in 0 .. Len(Registrations)
         /\ 1 .. published \subseteq PoolNodes
         /\ Registering => step \in PoolNodes /\ step = published + 1
  BY RegistrationsFit DEF TypeOK, published, Registering

LEMMA AddIrqHandleKeepsLists ==
  ASSUME TypeOK, ListInv, AddIrqHandle
  PROVE  ListInv'
<1>1. /\ step' = step + 1 /\ handle_count' = step + 1 /\ handles' = handles
      /\ pc' = "link" /\ published = step /\ published' = step
      /\ step + 1 \in PoolNodes /\ step \in Nat
  BY RegistrationsFit DEF AddIrqHandle, TypeOK, published, Registering
<1>2. /\ handle_pool'[step + 1].routine = Registrations[step + 1].func
      /\ \A r \in 1 .. step : handle_pool'[r] = handle_pool[r]
  BY <1>1 DEF AddIrqHandle, TypeOK
<1>3. ASSUME NEW r \in 1 .. step
      PROVE  /\ handle_pool'[r].routine = Registrations[r].func
             /\ LastBefore(Registrations[r].irq, r - 1, handle_pool'[r].next)
  BY <1>1, <1>2, <1>3 DEF ListInv
<1> QED
  BY <1>1, <1>2, <1>3 DEF ListInv, LastBefore

LEMMA LinkKeepsLists ==
  ASSUME TypeOK, ListInv, Link
  PROVE  ListInv'
<1> DEFINE irq == Registrations[step].irq
<1>1. /\ step' = step /\ handles' = handles /\ handle_count = step
      /\ pc = "link" /\ pc' = "publish"
      /\ published = step - 1 /\ published' = step - 1
      /\ step \in PoolNodes /\ step \in Nat /\ step > 0
      /\ irq \in Irqs
  BY RegistrationsFit, RegistrationTyped DEF Link, TypeOK, published, Registering
<1>2. /\ handle_pool'[step].routine = handle_pool[step].routine
      /\ handle_pool'[step].next = handles[irq]
      /\ \A r \in 1 .. step - 1 : handle_pool'[r] = handle_pool[r]
  BY <1>1 DEF Link, TypeOK
<1>3. LastBefore(irq, step - 1, handle_pool'[step].next)
  BY <1>1, <1>2 DEF ListInv
<1>4. handle_pool'[step].routine = Registrations[step].func
  BY <1>1, <1>2 DEF ListInv, Registering
<1>5. ASSUME NEW r \in 1 .. step - 1
      PROVE  /\ handle_pool'[r].routine = Registrations[r].func
             /\ LastBefore(Registrations[r].irq, r - 1, handle_pool'[r].next)
  BY <1>1, <1>2 DEF ListInv
<1> QED
  BY <1>1, <1>3, <1>4, <1>5 DEF ListInv, LastBefore

LEMMA PublishKeepsLists ==
  ASSUME TypeOK, ListInv, Publish
  PROVE  ListInv'
<1> DEFINE irq == Registrations[step].irq
<1>1. /\ step' = step /\ handle_pool' = handle_pool /\ handle_count = step
      /\ pc = "publish" /\ pc' = "idle" /\ Registering /\ ~Registering'
      /\ published = step - 1 /\ published' = step
      /\ step \in PoolNodes /\ step \in Nat /\ step > 0
      /\ irq \in Irqs
  BY RegistrationsFit, RegistrationTyped DEF Publish, TypeOK, published, Registering
<1>2. handles'[irq] = step /\ \A other \in Irqs : other # irq => handles'[other] = handles[other]
  BY <1>1 DEF Publish, TypeOK
<1>3. ASSUME NEW other \in Irqs
      PROVE  LastBefore(other, step, handles'[other])
  <2>1. LastBefore(other, step - 1, handles[other])
    BY <1>1 DEF ListInv
  <2>2. CASE other = irq
    BY <1>1, <1>2, <2>2 DEF LastBefore
  <2>3. CASE other # irq
    <3>1. handles'[other] = handles[other]
      BY <1>2, <2>3
    <3> QED
      BY <1>1, <2>1, <2>3, <3>1 DEF LastBefore
  <2> QED
    BY <2>2, <2>3
<1>4. ASSUME NEW r \in 1 .. step
      PROVE  /\ handle_pool'[r].routine = Registrations[r].func
             /\ LastBefore(Registrations[r].irq, r - 1, handle_pool'[r].next)
  <2>1. r \in 1 .. published \/ r = step
    BY <1>1
  <2> QED
    BY <1>1, <2>1 DEF ListInv
<1> QED
  BY <1>1, <1>3, <1>4 DEF ListInv, LastBefore

LEMMA ListStep == TypeOK /\ ListInv /\ [Next]_vars => ListInv'
<1> SUFFICES ASSUME TypeOK, ListInv, [Next]_vars PROVE ListInv'
  OBVIOUS
<1>1. CASE AddIrqHandle
  BY <1>1, AddIrqHandleKeepsLists
<1>2. CASE Link
  BY <1>2, LinkKeepsLists
<1>3. CASE Publish
  BY <1>3, PublishKeepsLists
<1>4. ASSUME UNCHANGED table, Registering' <=> Registering, pc' = "publish" => pc = "publish"
      PROVE  ListInv'
  <2>1. published' = published
    BY <1>4 DEF published, table
  <2> QED
    BY <1>4, <2>1 DEF ListInv, LastBefore, table
<1>5. CASE IssueRead \/ WaitIdeIntr \/ Hlt \/ ClearIdeIntr \/ CopyWord \/ Filled
  BY <1>4, <1>5 DEF IssueRead, WaitIdeIntr, Hlt, ClearIdeIntr, CopyWord, Filled, Registering
<1>6. CASE \E sector \in Sectors, w \in WordNos : ReadHit(sector, w) \/ ReadMiss(sector, w)
  BY <1>4, <1>6 DEF ReadHit, ReadMiss, Registering
<1>7. CASE TakeInterrupt \/ \E irq \in {TimerIrq, KeyboardIrq} : DeviceRaises(irq)
  BY <1>4, <1>7 DEF TakeInterrupt, DeviceRaises, Registering
<1>8. CASE UNCHANGED vars
  BY <1>4, <1>8 DEF vars, Registering
<1> QED
  BY <1>1, <1>2, <1>3, <1>5, <1>6, <1>7, <1>8 DEF Next, KernelStep

(* The nodes irq_handle visits *)
Walk(irq) ==
  CHOOSE W : W = [k \in PoolNodes |->
        IF k = 1 THEN handles[irq]
        ELSE IF W[k - 1] = NULL THEN NULL ELSE handle_pool[W[k - 1]].next]

LEMMA HandlersWalk ==
  ASSUME NEW irq
  PROVE  Handlers(irq) = [k \in {m \in PoolNodes : Walk(irq)[m] # NULL} |->
                            handle_pool[Walk(irq)[k]].routine]
  BY DEF Handlers, Walk

LEMMA WalkDef ==
  ASSUME TypeOK, NEW irq \in Irqs
  PROVE  /\ \A k \in PoolNodes : Walk(irq)[k] \in PoolNodes \union {NULL}
         /\ 1 \in PoolNodes => Walk(irq)[1] = handles[irq]
         /\ \A k \in PoolNodes : k + 1 \in PoolNodes =>
              Walk(irq)[k + 1] = IF Walk(irq)[k] = NULL THEN NULL
                                 ELSE handle_pool[Walk(irq)[k]].next
<1> DEFINE D == PoolNodes \union {NULL}
           F == [n \in Nat |-> [h \in D |->
                   IF n = 0 THEN handles[irq]
                   ELSE IF h = NULL THEN NULL ELSE handle_pool[h].next]]
<1>1. NULL \in D /\ F \in [Nat -> [D -> D]]
  BY DEF TypeOK
<1>2. PICK f \in [Nat -> D] : Iterates(f, NULL, F)
  <2> HIDE DEF F, D
  <2> QED BY <1>1, RecursiveFunction
<1> DEFINE V == [k \in PoolNodes |-> f[k]]
<1>3. ASSUME NEW k \in PoolNodes
      PROVE  V[k] = IF k = 1 THEN handles[irq]
                    ELSE IF V[k - 1] = NULL THEN NULL ELSE handle_pool[V[k - 1]].next
  <2>1. k - 1 \in Nat /\ (k - 1) + 1 = k /\ NR_IRQ_HANDLE \in Nat
    BY RegistrationsAssumption DEF PoolNodes
  <2>2. f[k] = F[k - 1][f[k - 1]] /\ f[k - 1] \in D
    BY <1>2, <2>1 DEF Iterates
  <2>3. CASE k = 1
    BY <2>1, <2>2, <2>3
  <2>4. CASE k # 1
    <3>1. k - 1 \in PoolNodes /\ k - 1 # 0
      BY <2>1, <2>4 DEF PoolNodes
    <3>2. V[k - 1] = f[k - 1] /\ V[k] = f[k]
      BY <3>1
    <3>3. f[k] = IF f[k - 1] = NULL THEN NULL ELSE handle_pool[f[k - 1]].next
      BY <2>1, <2>2, <3>1
    <3> QED
      BY <2>4, <3>2, <3>3
  <2> QED
    BY <2>3, <2>4
<1>4. V = [k \in PoolNodes |-> IF k = 1 THEN handles[irq]
              ELSE IF V[k - 1] = NULL THEN NULL ELSE handle_pool[V[k - 1]].next]
  <2>1. V = [k \in PoolNodes |-> V[k]]
    OBVIOUS
  <2> HIDE DEF V
  <2> QED BY <1>3, <2>1
<1>5. Walk(irq) = [k \in PoolNodes |-> IF k = 1 THEN handles[irq]
              ELSE IF Walk(irq)[k - 1] = NULL THEN NULL
                   ELSE handle_pool[Walk(irq)[k - 1]].next]
  <2> HIDE DEF V
  <2> QED BY <1>4 DEF Walk
<1>6. PICK U : U = Walk(irq)
  OBVIOUS
<1>7. U = [k \in PoolNodes |-> IF k = 1 THEN handles[irq]
              ELSE IF U[k - 1] = NULL THEN NULL ELSE handle_pool[U[k - 1]].next]
  BY <1>5, <1>6
<1>8. ASSUME NEW k \in PoolNodes, k + 1 \in PoolNodes
      PROVE  U[k + 1] = IF U[k] = NULL THEN NULL ELSE handle_pool[U[k]].next
  <2>1. k + 1 # 1 /\ (k + 1) - 1 = k
    BY RegistrationsAssumption DEF PoolNodes
  <2> QED
    BY <1>7, <1>8, <2>1
<1>9. 1 \in PoolNodes => U[1] = handles[irq]
  BY <1>7
<1>10. ASSUME NEW k \in PoolNodes PROVE U[k] \in D
  <2> DEFINE S == {n \in Nat : n + 1 \in PoolNodes => U[n + 1] \in D}
  <2>1. 0 \in S
    BY <1>9 DEF TypeOK
  <2>2. ASSUME NEW n \in Nat, n \in S PROVE n + 1 \in S
    <3> SUFFICES ASSUME n + 2 \in PoolNodes PROVE U[n + 2] \in D
      OBVIOUS
    <3>1. n + 1 \in PoolNodes /\ (n + 1) + 1 = n + 2
      BY RegistrationsAssumption DEF PoolNodes
    <3>2. U[n + 1] \in D
      BY <2>2, <3>1
    <3>3. U[n + 2] = IF U[n + 1] = NULL THEN NULL ELSE handle_pool[U[n + 1]].next
      BY <1>8, <3>1
    <3> QED
      BY <3>2, <3>3 DEF TypeOK
  <2>3. Nat \subseteq S
    <3> HIDE DEF S
    <3> QED BY <2>1, <2>2, Induction
  <2>4. k - 1 \in S /\ (k - 1) + 1 = k
    BY <2>3, RegistrationsAssumption DEF PoolNodes
  <2> QED
    BY <2>4
<1> QED
  BY <1>6, <1>8, <1>9, <1>10

(* The registrations the walk has passed once it is at node r *)
From(irq, r) == {q \in Published(irq) : q >= r}

LEMMA PublishedFinite ==
  ASSUME TypeOK, NEW irq
  PROVE  /\ IsFiniteSet(Published(irq))
         /\ Cardinality(Published(irq)) \in Nat
         /\ Cardinality(Published(irq)) <= NR_IRQ_HANDLE
         /\ \A r : /\ IsFiniteSet(From(irq, r))
                   /\ Cardinality(From(irq, r)) \in Nat
                   /\ Cardinality(From(irq, r)) <= Cardinality(Published(irq))
<1>1. published \in Nat /\ published <= NR_IRQ_HANDLE /\ NR_IRQ_HANDLE \in Nat
  BY PublishedFits, RegistrationsFit, RegistrationsAssumption
<1>2. IsFiniteSet(1 .. published) /\ Cardinality(1 .. published) = published
  BY <1>1, FS_Interval
<1>3. Published(irq) \in SUBSET (1 .. published)
  BY DEF Published
<1>4. /\ IsFiniteSet(Published(irq))
      /\ Cardinality(Published(irq)) <= published
  BY <1>2, <1>3, FS_Subset
<1>5. Cardinality(Published(irq)) \in Nat
  BY <1>4, FS_CardinalityType
<1>6. ASSUME NEW r
      PROVE  /\ IsFiniteSet(From(irq, r))
             /\ Cardinality(From(irq, r)) \in Nat
             /\ Cardinality(From(irq, r)) <= Cardinality(Published(irq))
  <2>1. From(irq, r) \in SUBSET Published(irq)
    BY DEF From
  <2>2. /\ IsFiniteSet(From(irq, r))
        /\ Cardinality(From(irq, r)) <= Cardinality(Published(irq))
    BY <1>4, <2>1, FS_Subset
  <2> QED
    BY <2>2, FS_CardinalityType
<1> QED
  BY <1>1, <1>4, <1>5, <1>6

(* From the registration r on to the one before it: one more is passed, or *)
(* all have been.                                                          *)
LEMMA OneBefore ==
  ASSUME TypeOK, NEW irq \in Irqs, NEW r \in Published(irq),
         NEW h, LastBefore(irq, r - 1, h)
  PROVE  /\ h # 0 => /\ h \in Published(irq)
                     /\ Cardinality(From(irq, h)) = Cardinality(From(irq, r)) + 1
         /\ h = 0 => From(irq, r) = Published(irq)
<1>1. published \in Nat /\ r \in 1 .. published /\ h \in 0 .. r - 1
  BY PublishedFits, RegistrationsFit DEF Published, LastBefore
<1>2. CASE h # 0
  <2>1. h \in Published(irq) /\ h \notin From(irq, r)
    BY <1>1, <1>2 DEF Published, LastBefore, From
  <2>2. From(irq, h) = From(irq, r) \union {h}
    BY <1>1, <2>1 DEF From, Published, LastBefore
  <2>3. IsFiniteSet(From(irq, r))
    BY PublishedFinite
  <2>4. Cardinality(From(irq, r) \union {h}) = Cardinality(From(irq, r)) + 1
    BY <2>1, <2>3, FS_AddElement
  <2> QED
    BY <1>2, <2>1, <2>2, <2>4
<1>3. CASE h = 0
  BY <1>1, <1>3 DEF From, Published, LastBefore
<1> QED
  BY <1>2, <1>3

(* The k-th node of the walk is the registration k - 1 others follow *)
Ranked(irq, k, r) ==
  /\ r # NULL => r \in Published(irq) /\ Cardinality(From(irq, r)) = k
  /\ r = NULL => Cardinality(Published(irq)) < k

LEMMA FirstRanked ==
  ASSUME TypeOK, ListInv, NEW irq \in Irqs
  PROVE  Ranked(irq, 1, handles[irq])
<1> DEFINE h == handles[irq]
<1>1. published \in Nat /\ LastBefore(irq, published, h)
  BY PublishedFits, RegistrationsFit DEF ListInv
<1>2. CASE h # NULL
  <2>1. h \in Published(irq) /\ From(irq, h) = {h}
    BY <1>1, <1>2 DEF LastBefore, Published, From, NULL
  <2> QED
    BY <1>2, <2>1, FS_Singleton DEF Ranked
<1>3. CASE h = NULL
  <2>1. Published(irq) = {}
    BY <1>1, <1>3 DEF LastBefore, Published, NULL
  <2> QED
    BY <1>3, <2>1, FS_EmptySet DEF Ranked
<1> QED
  BY <1>2, <1>3

LEMMA WalkRanked ==
  ASSUME TypeOK, ListInv, NEW irq \in Irqs, NEW k \in PoolNodes
  PROVE  Ranked(irq, k, Walk(irq)[k])
<1>1. PICK W : W = Walk(irq)
  OBVIOUS
<1>2. /\ 1 \in PoolNodes => W[1] = handles[irq]
      /\ \A m \in PoolNodes : m + 1 \in PoolNodes =>
           W[m + 1] = IF W[m] = NULL THEN NULL ELSE handle_pool[W[m]].next
  BY <1>1, WalkDef
<1> DEFINE S == {n \in Nat : n + 1 \in PoolNodes => Ranked(irq, n + 1, W[n + 1])}
<1>3. 0 \in S
  BY <1>2, FirstRanked
<1>4. ASSUME NEW n \in Nat, n \in S PROVE n + 1 \in S
  <2> SUFFICES ASSUME n + 2 \in PoolNodes PROVE Ranked(irq, n + 2, W[n + 2])
    OBVIOUS
  <2>1. n + 1 \in PoolNodes /\ (n + 1) + 1 = n + 2
    BY RegistrationsAssumption DEF PoolNodes
  <2>2. PICK r : r = W[n + 1]
    OBVIOUS
  <2>3. Ranked(irq, n + 1, r)
    BY <1>4, <2>1, <2>2
  <2>4. W[n + 2] = IF r = NULL THEN NULL ELSE handle_pool[r].next
    BY <1>2, <2>1, <2>2
  <2>5. CASE r = NULL
    <3>1. Cardinality(Published(irq)) < n + 1 /\ Cardinality(Published(irq)) \in Nat
      BY <2>3, <2>5, PublishedFinite DEF Ranked
    <3> QED
      BY <2>4, <2>5, <3>1 DEF Ranked
  <2>6. CASE r # NULL
    <3>1. r \in Published(irq) /\ Cardinality(From(irq, r)) = n + 1
      BY <2>3, <2>6 DEF Ranked
    <3>2. PICK h : h = handle_pool[r].next
      OBVIOUS
    <3>3. LastBefore(irq, r - 1, h)
      BY <3>1, <3>2 DEF Published, ListInv
    <3>4. CASE h # 0
      <4>1. h \in Published(irq) /\ Cardinality(From(irq, h)) = n + 2
        BY <2>1, <3>1, <3>3, <3>4, OneBefore
      <4> QED
        BY <2>4, <2>6, <3>2, <3>4, <4>1 DEF Ranked, NULL
    <3>5. CASE h = 0
      <4>1. Cardinality(Published(irq)) = n + 1
        BY <3>1, <3>3, <3>5, OneBefore
      <4> QED
        BY <2>4, <2>6, <3>2, <3>5, <4>1 DEF Ranked, NULL
    <3> QED
      BY <3>4, <3>5
  <2> QED
    BY <2>5, <2>6
<1>5. Nat \subseteq S
  <2> HIDE DEF S
  <2> QED BY <1>3, <1>4, Induction
<1>6. k - 1 \in Nat /\ (k - 1) + 1 = k
  BY RegistrationsAssumption DEF PoolNodes
<1>7. k - 1 \in S
  <2> HIDE DEF S
  <2> QED BY <1>5, <1>6
<1> QED
  BY <1>1, <1>6, <1>7

LEMMA WalkLong ==
  ASSUME TypeOK, ListInv, NEW irq \in Irqs
  PROVE  DOMAIN Handlers(irq) = 1 .. Cardinality(Published(irq))
<1>1. PICK n \in Nat : n = Cardinality(Published(irq))
  BY PublishedFinite
<1>2. n <= NR_IRQ_HANDLE /\ NR_IRQ_HANDLE \in Nat
  BY <1>1, PublishedFinite, RegistrationsAssumption
<1>3. ASSUME NEW k \in PoolNodes PROVE Walk(irq)[k] # NULL <=> k <= n
  <2>1. Ranked(irq, k, Walk(irq)[k]) /\ k \in Nat
    BY WalkRanked, <1>2 DEF PoolNodes
  <2>2. ASSUME Walk(irq)[k] # NULL PROVE k <= n
    BY <1>1, <2>1, <2>2, PublishedFinite DEF Ranked
  <2>3. ASSUME Walk(irq)[k] = NULL PROVE n < k
    BY <1>1, <2>1, <2>3 DEF Ranked
  <2> QED
    BY <2>1, <2>2, <2>3
<1>4. {m \in PoolNodes : Walk(irq)[m] # NULL} = 1 .. n
  BY <1>2, <1>3 DEF PoolNodes
<1> QED
  BY <1>1, <1>4, HandlersWalk

LEMMA WalkCalls ==
  ASSUME TypeOK, ListInv, NEW irq \in Irqs, NEW k \in DOMAIN Handlers(irq)
  PROVE  /\ Walk(irq)[k] \in Published(irq)
         /\ Cardinality(From(irq, Walk(irq)[k])) = k
         /\ Handlers(irq)[k] = Registrations[Walk(irq)[k]].func
<1>1. /\ k \in PoolNodes /\ Walk(irq)[k] # NULL
      /\ Handlers(irq)[k] = handle_pool[Walk(irq)[k]].routine
  BY HandlersWalk
<1>2. Walk(irq)[k] \in Published(irq) /\ Cardinality(From(irq, Walk(irq)[k])) = k
  BY <1>1, WalkRanked DEF Ranked
<1> QED
  BY <1>1, <1>2 DEF ListInv, Published

LEMMA ListedHandlers ==
  ASSUME TypeOK, ListInv
  PROVE  HandlersListed
<1> SUFFICES ASSUME NEW irq \in Irqs, NEW r \in Published(irq)
             PROVE  Handlers(irq)[Cardinality(From(irq, r))] = Registrations[r].func
  BY WalkLong DEF HandlersListed, From
<1>1. PICK k : k = Cardinality(From(irq, r))
  OBVIOUS
<1>2. k \in DOMAIN Handlers(irq)
  <2>1. r \in From(irq, r) /\ r \in Nat
    BY PublishedFits, RegistrationsFit DEF From, Published
  <2>2. k \in Nat /\ k <= Cardinality(Published(irq)) /\ Cardinality(Published(irq)) \in Nat
    BY <1>1, PublishedFinite
  <2>3. k # 0
    BY <1>1, <2>1, PublishedFinite, FS_EmptySet
  <2> QED
    BY <2>2, <2>3, WalkLong
<1>3. PICK s : s = Walk(irq)[k]
  OBVIOUS
<1>4. /\ s \in Published(irq) /\ Cardinality(From(irq, s)) = k
      /\ Handlers(irq)[k] = Registrations[s].func
  BY <1>2, <1>3, WalkCalls
<1>5. r \in Nat /\ s \in Nat
  BY <1>4, PublishedFits, RegistrationsFit DEF Published
<1>6. \/ From(irq, s) \in SUBSET From(irq, r)
      \/ From(irq, r) \in SUBSET From(irq, s)
  BY <1>5, PublishedFits, RegistrationsFit DEF From, Published
<1>7. From(irq, s) = From(irq, r)
  BY <1>1, <1>4, <1>6, PublishedFinite, FS_Subset
<1>8. s = r
  BY <1>4, <1>5, <1>7 DEF From
<1> QED
  BY <1>1, <1>4, <1>8

-----------------------------------------------------------------------------
(* The disk's interrupt *)

(* It is in one place at most *)
IntrInv ==
  /\ intr <=> intr_no # NoIntr
  /\ Filling => Booted
  /\ ~(has_ide_intr /\ intr_no = IdeIrq)
  /\ ~(has_ide_intr /\ lost)
  /\ ~(lost /\ intr_no = IdeIrq)
  /\ pc = "clear" => has_ide_intr
  /\ InterruptAccountedFor

(* The disk's interrupt calls ide_intr once the kernel is up; no other     *)
(* interrupt does.                                                         *)
LEMMA CallsIdeIntr ==
  ASSUME TypeOK, ListInv, NEW irq \in Irqs
  PROVE  /\ Calls(irq, "ide_intr") => irq = IdeIrq
         /\ Booted /\ ~Registering => Calls(IdeIrq, "ide_intr")
<1>1. Calls(irq, "ide_intr") => irq = IdeIrq
  <2> SUFFICES ASSUME NEW k \in DOMAIN Handlers(irq), Handlers(irq)[k] = "ide_intr"
               PROVE  irq = IdeIrq
    BY DEF Calls
  <2>1. PICK r : r = Walk(irq)[k]
    OBVIOUS
  <2>2. r \in Published(irq) /\ Registrations[r].func = "ide_intr"
    BY <2>1, WalkCalls
  <2>3. r \in 1 .. Len(Registrations) /\ Registrations[r].irq = irq
    BY <2>2, PublishedFits, RegistrationsFit DEF Published
  <2> QED
    BY <2>2, <2>3, IdeIntrAssumption
<1>2. ASSUME Booted, ~Registering PROVE Calls(IdeIrq, "ide_intr")
  <2>1. PICK r \in 1 .. Len(Registrations) :
          Registrations[r] = [irq |-> IdeIrq, func |-> "ide_intr", ints |-> TRUE]
    BY IdeIntrAssumption
  <2>2. DOMAIN Registrations = 1 .. Len(Registrations)
    <3> DEFINE R == [irq : Irqs, func : STRING, ints : BOOLEAN]
    <3>1. Registrations \in Seq(R)
      BY RegistrationsAssumption
    <3> HIDE DEF R
    <3> QED BY <3>1, LenProperties
  <2>3. r <= step /\ published = step
    BY <1>2, <2>1, <2>2 DEF Booted, published
  <2>4. r \in Published(IdeIrq) /\ IdeIrq \in Irqs /\ r \in Nat
    BY <2>1, <2>3, PublishedFits, RegistrationsFit DEF Published, Irqs
  <2>5. HandlersListed
    BY ListedHandlers
  <2>6. PICK k : k = Cardinality(From(IdeIrq, r))
    OBVIOUS
  <2>7. Handlers(IdeIrq)[k] = "ide_intr"
    BY <2>1, <2>4, <2>5, <2>6 DEF HandlersListed, From
  <2>8. k \in DOMAIN Handlers(IdeIrq)
    <3>1. r \in From(IdeIrq, r)
      BY <2>4 DEF From
    <3>2. k \in Nat /\ k # 0 /\ k <= Cardinality(Published(IdeIrq))
      BY <2>6, <3>1, PublishedFinite, FS_EmptySet
    <3>3. Cardinality(Published(IdeIrq)) \in Nat
      BY PublishedFinite
    <3> QED
      BY <2>4, <3>2, <3>3, WalkLong
  <2> QED
    BY <2>7, <2>8 DEF Calls
<1> QED
  BY <1>1, <1>2

LEMMA IntrInit == Init => IntrInv
  BY DEF Init, IntrInv, InterruptAccountedFor, Filling, Waiting, NoIntr, IdeIrq

LEMMA TakeInterruptAccounts ==
  ASSUME TypeOK, ListInv, IntrInv, TakeInterrupt
  PROVE  IntrInv'
<1>1. /\ intr_no # NoIntr /\ intr_no \in Irqs
      /\ intr_no' = NoIntr /\ intr' = FALSE /\ lost' = lost
      /\ has_ide_intr' = (has_ide_intr \/ Calls(intr_no, "ide_intr"))
      /\ NoIntr # IdeIrq
  BY DEF TakeInterrupt, TypeOK, IntrInv, NoIntr, IdeIrq
<1>2. /\ Waiting' <=> Waiting
      /\ Filling' <=> Filling
      /\ Booted' <=> Booted
      /\ pc' = "clear" <=> pc = "clear"
  BY DEF TakeInterrupt, Filling, Waiting, Booted, table
<1>3. CASE intr_no = IdeIrq
  <2>1. Waiting /\ ~lost
    BY <1>3 DEF IntrInv, InterruptAccountedFor
  <2>2. Calls(IdeIrq, "ide_intr")
    BY <2>1, <1>1, CallsIdeIntr DEF IntrInv, Filling, Waiting, Registering
  <2> QED
    BY <1>1, <1>2, <1>3, <2>1, <2>2 DEF IntrInv, InterruptAccountedFor
<1>4. CASE intr_no # IdeIrq
  <2>1. ~Calls(intr_no, "ide_intr")
    BY <1>1, <1>4, CallsIdeIntr
  <2>2. has_ide_intr' = has_ide_intr
    BY <1>1, <2>1 DEF TypeOK
  <2> QED
    BY <1>1, <1>2, <1>4, <2>2 DEF IntrInv, InterruptAccountedFor
<1> QED
  BY <1>3, <1>4

LEMMA IntrStep == TypeOK /\ ListInv /\ IntrInv /\ [Next]_vars => IntrInv'
<1> SUFFICES ASSUME TypeOK, ListInv, IntrInv, [Next]_vars PROVE IntrInv'
  OBVIOUS
<1> USE DEF IntrInv, InterruptAccountedFor, Waiting
<1>1. CASE AddIrqHandle
  BY <1>1 DEF AddIrqHandle, Filling, pic
<1>2. CASE Link \/ Publish
  BY <1>2 DEF Link, Publish, Filling, pic
<1>3. ASSUME NEW sector \in Sectors, NEW w \in WordNos, ReadHit(sector, w)
      PROVE  IntrInv'
  BY <1>3 DEF ReadHit, Filling, pic
<1>4. ASSUME NEW sector \in Sectors, NEW w \in WordNos, ReadMiss(sector, w)
      PROVE  IntrInv'
  BY <1>4 DEF ReadMiss, Filling, Booted, pic, table
<1>5. CASE IssueRead
  <2>1. ~has_ide_intr /\ intr_no # IdeIrq /\ ~lost
    BY <1>5 DEF IssueRead
  <2>2. intr_no' = IdeIrq /\ intr' = TRUE /\ lost' = FALSE /\ pc' = "wait"
    BY <1>5, <2>1 DEF IssueRead, Raise
  <2>3. ~has_ide_intr'
    BY <1>5, <2>1 DEF IssueRead
  <2>4. Filling' /\ Booted'
    BY <1>5 DEF IssueRead, Filling, Booted, table
  <2> QED
    BY <2>2, <2>3, <2>4 DEF NoIntr, IdeIrq
<1>6. CASE WaitIdeIntr \/ Hlt
  <2>1. /\ Waiting /\ Waiting' /\ UNCHANGED <<table, has_ide_intr, pic>>
        /\ pc' = "clear" => has_ide_intr
    BY <1>6 DEF WaitIdeIntr, Hlt
  <2> QED
    BY <2>1 DEF Filling, Booted, pic, table
<1>12. CASE ClearIdeIntr
  BY <1>12 DEF ClearIdeIntr, Filling, Booted, pic, table
<1>7. CASE CopyWord
  BY <1>7 DEF CopyWord, Filling, Booted, pic, table
<1>8. CASE Filled
  BY <1>8 DEF Filled, Filling, pic
<1>9. CASE TakeInterrupt
  BY <1>9, TakeInterruptAccounts
<1>10. ASSUME NEW irq \in {TimerIrq, KeyboardIrq}, DeviceRaises(irq)
       PROVE  IntrInv'
  <2>1. intr_no' # IdeIrq /\ intr_no' # NoIntr /\ intr' = TRUE
    BY <1>10 DEF DeviceRaises, Raise, TimerIrq, KeyboardIrq, IdeIrq, NoIntr
  <2>2. lost' <=> lost \/ intr_no = IdeIrq
    BY <1>10 DEF DeviceRaises, Raise
  <2>3. UNCHANGED <<pc, has_ide_intr, step>>
    BY <1>10 DEF DeviceRaises, table
  <2> QED
    BY <2>1, <2>2, <2>3 DEF Filling, Booted
<1>11. CASE UNCHANGED vars
  BY <1>11 DEF vars, Filling, Booted, pic, table
<1> QED
  BY <1>1, <1>2, <1>3, <1>4, <1>5, <1>6, <1>7, <1>8, <1>9, <1>10, <1>11, <1>12
  DEF Next, KernelStep

LEMMA ListInvariant == Spec => [](TypeOK /\ ListInv /\ IntrInv)
<1>1. Init => TypeOK /\ ListInv /\ IntrInv
  BY TypeInit, ListInit, IntrInit
<1>2. IInv /\ (TypeOK /\ ListInv /\ IntrInv) /\ [Next]_vars
        => (TypeOK /\ ListInv /\ IntrInv)'
  BY TypeStep, ListStep, IntrStep DEF IInv
<1> QED
  BY <1>1, <1>2, Invariant, PTL DEF Spec

(* An interrupt that comes between any two steps of add_irq_handle calls   *)
(* every handler registered for it so far, the last one first              *)
(* (irq_handle, add_irq_handle).                                           *)
THEOREM HandlersAreListed == Spec => []HandlersListed
<1>1. TypeOK /\ ListInv => HandlersListed
  BY ListedHandlers
<1> QED
  BY <1>1, ListInvariant, PTL

(* A read waits exactly while the disk's interrupt is in the controller,   *)
(* noted in has_ide_intr or overwritten (wait_ide_intr,                    *)
(* i8259_raise_intr).                                                      *)
THEOREM DiskInterruptAccounted == Spec => []InterruptAccountedFor
<1>1. IntrInv => InterruptAccountedFor
  BY DEF IntrInv
<1> QED
  BY <1>1, ListInvariant, PTL
=============================================================================
