-------------------------- MODULE JsonStore_proofs --------------------------
(***************************************************************************)
(* Proofs about JsonStore, for any callers, ids and items: the files are   *)
(* whole, and the read-change-write cycles implement KeyedStore.           *)
(***************************************************************************)
EXTENDS JsonStore, SequenceTheorems, TLAPS

\* The chain holds the callers in flight, once each, and all but the first
\* wait for their turn.
ChainOK ==
  /\ \A c \in Callers : op[c] # NoOperation => \E i \in DOMAIN queue : queue[i] = c
  /\ \A i \in DOMAIN queue : op[queue[i]] # NoOperation
  /\ \A i, j \in DOMAIN queue : queue[i] = queue[j] => i = j
  /\ \A i \in DOMAIN queue : i # 1 => op[queue[i]].at = "read"

\* What an operation that is writing knows of the file.
Progress(c) ==
  /\ op[c].at \in {"open", "fill", "sync", "rename"} =>
       /\ op[c].tmp.items = Changed(op[c].wish, file.items)
       /\ Writes(op[c].wish, file.items)
  /\ op[c].at = "rename" => op[c].tmp.state = "whole"

\* The inductive invariant.
IInv ==
  /\ FileTypeOK
  /\ ChainOK
  /\ \A c \in Callers : Progress(c)
  /\ CrashLeavesWholeFile

-----------------------------------------------------------------------------
LEMMA IdleKnowsNothing == NoOperation.at = "idle" /\ NoOperation.wish = Nothing
BY DEF NoOperation

LEMMA OperationsAreNotIdle == \A o \in Operations : o # NoOperation /\ o.at # "idle" /\ o.wish # Nothing
BY DEF Operations, NoOperation, Stages, Wishes, Nothing

\* Whose turn it is stands first in the chain, and the others in flight wait.
LEMMA TurnHolder ==
  ASSUME IInv, NEW c \in Callers, op[c] # NoOperation, MyTurn(c)
  PROVE  /\ op[c] \in Operations
         /\ queue \in Seq(Callers) /\ queue # <<>>
         /\ 1 \in DOMAIN queue /\ queue[1] = c /\ Head(queue) = c
         /\ \A d \in Callers : d # c => op[d] = NoOperation \/ op[d].at = "read"
<1>1. op[c] \in Operations /\ queue \in Seq(Callers)
  BY DEF IInv, FileTypeOK
<1>2. PICK i \in DOMAIN queue : queue[i] = c
  BY DEF IInv, ChainOK
<1>3. queue # <<>> /\ DOMAIN queue = 1 .. Len(queue) /\ Len(queue) \in Nat /\ 1 \in DOMAIN queue
  BY <1>1, <1>2, EmptySeq
<1>4. Head(queue) = queue[1]
  BY <1>1, <1>3, HeadTailProperties
<1>5. queue[1] = c
  BY <1>4 DEF MyTurn
<1>6. ASSUME NEW d \in Callers, d # c, op[d] # NoOperation PROVE op[d].at = "read"
  <2>1. PICK j \in DOMAIN queue : queue[j] = d
    BY <1>6 DEF IInv, ChainOK
  <2>2. j # 1
    BY <1>5, <1>6, <2>1
  <2> QED BY <2>1, <2>2 DEF IInv, ChainOK
<1> QED BY <1>1, <1>3, <1>4, <1>5, <1>6

\* A caller that waits for its turn, or does nothing, knows nothing of the file.
LEMMA WaitingKnowsNothing ==
  ASSUME NEW c \in Callers, op'[c] = NoOperation \/ op'[c].at \notin {"open", "fill", "sync", "rename"}
  PROVE  Progress(c)'
BY IdleKnowsNothing DEF Progress

\* The caller whose turn it is goes on.
LEMMA Moving ==
  ASSUME IInv, NEW c \in Callers, op[c] # NoOperation, MyTurn(c),
         NEW o \in Operations, op' = [op EXCEPT ![c] = o],
         file' \in Files, onDisk' = onDisk, queue' = queue, told' = told,
         file'.state \in {"whole", "damaged"}, Progress(c)'
  PROVE  IInv'
<1>1. /\ op[c] \in Operations
      /\ queue \in Seq(Callers) /\ 1 \in DOMAIN queue /\ queue[1] = c
      /\ \A d \in Callers : d # c => op[d] = NoOperation \/ op[d].at = "read"
  BY TurnHolder
<1>2. /\ op' \in [Callers -> Operations \cup {NoOperation}]
      /\ op'[c] = o /\ o # NoOperation
      /\ \A d \in Callers : d # c => op'[d] = op[d]
  BY OperationsAreNotIdle DEF IInv, FileTypeOK
<1>3. FileTypeOK'
  BY <1>2 DEF IInv, FileTypeOK
<1>4. ChainOK'
  <2>1. \A d \in Callers : op'[d] # NoOperation => op[d] # NoOperation
    BY <1>2
  <2>2. \A i \in DOMAIN queue : queue[i] \in Callers
    BY <1>1, ElementOfSeq
  <2>3. \A i \in DOMAIN queue : i # 1 => queue[i] # c
    BY <1>1 DEF IInv, ChainOK
  <2>4. \A i \in DOMAIN queue : op'[queue[i]] # NoOperation
    BY <1>2, <2>2 DEF IInv, ChainOK
  <2>5. \A i \in DOMAIN queue : i # 1 => op'[queue[i]].at = "read"
    BY <1>2, <2>2, <2>3 DEF IInv, ChainOK
  <2> QED BY <2>1, <2>4, <2>5 DEF IInv, ChainOK
<1>5. \A d \in Callers : Progress(d)'
  BY <1>1, <1>2, WaitingKnowsNothing
<1>6. CrashLeavesWholeFile'
  BY DEF IInv, CrashLeavesWholeFile
<1> QED BY <1>3, <1>4, <1>5, <1>6 DEF IInv

-----------------------------------------------------------------------------
LEMMA InitInvariant == FileInit => IInv
<1> SUFFICES ASSUME FileInit PROVE IInv
  OBVIOUS
<1>1. \A c \in Callers : op[c] = NoOperation
  BY DEF FileInit
<1>2. Empty \in Files /\ Empty.state = "whole"
  BY DEF Empty, Files, Contents, Wholeness
<1>3. queue \in Seq(Callers) /\ DOMAIN queue = {}
  BY DEF FileInit
<1>4. FileTypeOK
  BY <1>2, <1>3 DEF FileInit, FileTypeOK
<1>5. ChainOK
  BY <1>1, <1>3 DEF ChainOK
<1>6. \A c \in Callers : Progress(c)
  BY <1>1, IdleKnowsNothing DEF Progress
<1>7. CrashLeavesWholeFile
  BY <1>2 DEF FileInit, CrashLeavesWholeFile
<1> QED BY <1>4, <1>5, <1>6, <1>7 DEF IInv

-----------------------------------------------------------------------------
\* A new operation takes the last place of the chain.
LEMMA EnqueueSteps ==
  ASSUME IInv, NEW c \in Callers, NEW wish \in Wishes, Enqueue(c, wish)
  PROVE  IInv'
<1> DEFINE o == [wish |-> wish, at |-> "read", tmp |-> file]
<1>1. o \in Operations /\ o.at = "read"
  BY DEF IInv, FileTypeOK, Operations, Stages
<1> HIDE DEF o
<1>2. o # NoOperation
  BY <1>1, OperationsAreNotIdle
<1>3. op' = [op EXCEPT ![c] = o] /\ op[c] = NoOperation
  BY DEF Enqueue, o
<1>4. /\ op' \in [Callers -> Operations \cup {NoOperation}]
      /\ op'[c] = o
      /\ \A d \in Callers : d # c => op'[d] = op[d]
  BY <1>1, <1>3 DEF IInv, FileTypeOK
<1>5. queue \in Seq(Callers)
  BY DEF IInv, FileTypeOK
<1>6. /\ queue' \in Seq(Callers)
      /\ Len(queue') = Len(queue) + 1
      /\ \A i \in 1 .. Len(queue) : queue'[i] = queue[i]
      /\ queue'[Len(queue) + 1] = c
  BY <1>5, AppendProperties DEF Enqueue
<1>7. /\ Len(queue) \in Nat /\ DOMAIN queue = 1 .. Len(queue)
      /\ DOMAIN queue' = 1 .. Len(queue) + 1
  BY <1>5, <1>6
<1>8. \A i \in DOMAIN queue' : i \in DOMAIN queue \/ i = Len(queue) + 1
  BY <1>7
<1>9. \A i \in DOMAIN queue : queue[i] \in Callers /\ queue[i] # c
  BY <1>3, <1>5, ElementOfSeq DEF IInv, ChainOK
<1>10. FileTypeOK'
  BY <1>4, <1>6 DEF IInv, FileTypeOK, Enqueue
<1>11. ChainOK'
  <2>1. ASSUME NEW d \in Callers, op'[d] # NoOperation PROVE \E i \in DOMAIN queue' : queue'[i] = d
    <3>1. CASE d = c
      BY <1>6, <1>7, <3>1
    <3>2. CASE d # c
      <4>1. PICK i \in DOMAIN queue : queue[i] = d
        BY <1>4, <2>1, <3>2 DEF IInv, ChainOK
      <4>2. i \in DOMAIN queue' /\ queue'[i] = d
        BY <1>6, <1>7, <4>1
      <4> QED BY <4>2
    <3> QED BY <3>1, <3>2
  <2>2. \A i \in DOMAIN queue' : op'[queue'[i]] # NoOperation
    BY <1>2, <1>4, <1>6, <1>7, <1>8, <1>9 DEF IInv, ChainOK
  <2>3. \A i, j \in DOMAIN queue' : queue'[i] = queue'[j] => i = j
    BY <1>6, <1>7, <1>8, <1>9 DEF IInv, ChainOK
  <2>4. \A i \in DOMAIN queue' : i # 1 => op'[queue'[i]].at = "read"
    BY <1>1, <1>4, <1>6, <1>7, <1>8, <1>9 DEF IInv, ChainOK
  <2> QED BY <2>1, <2>2, <2>3, <2>4 DEF ChainOK
<1>12. \A d \in Callers : Progress(d)'
  <2>1. Progress(c)'
    BY <1>1, <1>4, WaitingKnowsNothing
  <2>2. ASSUME NEW d \in Callers, d # c PROVE Progress(d)'
    BY <1>4, <2>2 DEF IInv, Progress, Enqueue, Changed, Writes
  <2> QED BY <2>1, <2>2
<1>13. CrashLeavesWholeFile'
  BY DEF IInv, CrashLeavesWholeFile, Enqueue
<1> QED BY <1>10, <1>11, <1>12, <1>13 DEF IInv

\* The first operation of the chain is answered, and the next one has its turn.
LEMMA SettlesSteps == ASSUME IInv, NEW c \in Callers, Settles(c) PROVE IInv'
<1>1. op[c] # NoOperation /\ MyTurn(c) /\ op[c].at \in {"worked", "failed"}
  BY DEF Settles, Doing
<1>2. /\ queue \in Seq(Callers) /\ queue # <<>> /\ 1 \in DOMAIN queue /\ queue[1] = c
      /\ \A d \in Callers : d # c => op[d] = NoOperation \/ op[d].at = "read"
  BY <1>1, TurnHolder
<1>3. /\ op' \in [Callers -> Operations \cup {NoOperation}]
      /\ op'[c] = NoOperation
      /\ \A d \in Callers : d # c => op'[d] = op[d]
  BY DEF IInv, FileTypeOK, Settles
<1>4. /\ queue' \in Seq(Callers)
      /\ Len(queue') = Len(queue) - 1
      /\ \A i \in 1 .. Len(queue') : queue'[i] = queue[i + 1]
  BY <1>2, HeadTailProperties DEF Settles, Dequeued
<1>5. /\ Len(queue) \in Nat /\ DOMAIN queue = 1 .. Len(queue)
      /\ DOMAIN queue' = 1 .. Len(queue')
  BY <1>2, <1>4
<1>6. \A i \in DOMAIN queue' : i + 1 \in DOMAIN queue /\ i + 1 # 1
  BY <1>4, <1>5
<1>7. \A i \in DOMAIN queue : queue[i] \in Callers /\ (i # 1 => queue[i] # c)
  BY <1>2, ElementOfSeq DEF IInv, ChainOK
<1>8. FileTypeOK'
  <2>1. told' \in [Callers -> {"nothing", "worked", "failed"}]
    BY <1>1 DEF IInv, FileTypeOK, Settles
  <2> QED BY <1>3, <1>4, <2>1 DEF IInv, FileTypeOK, Settles
<1>9. ChainOK'
  <2>1. ASSUME NEW d \in Callers, op'[d] # NoOperation PROVE \E i \in DOMAIN queue' : queue'[i] = d
    <3>1. d # c
      BY <1>3, <2>1
    <3>2. PICK i \in DOMAIN queue : queue[i] = d
      BY <1>3, <2>1, <3>1 DEF IInv, ChainOK
    <3>3. i # 1
      BY <1>2, <3>1, <3>2
    <3>4. i - 1 \in DOMAIN queue' /\ (i - 1) + 1 = i
      BY <1>4, <1>5, <3>2, <3>3
    <3>5. queue'[i - 1] = d
      BY <1>4, <1>5, <3>2, <3>4
    <3> QED BY <3>4, <3>5
  <2>2. \A i \in DOMAIN queue' : op'[queue'[i]] # NoOperation /\ op'[queue'[i]].at = "read"
    BY <1>3, <1>4, <1>5, <1>6, <1>7 DEF IInv, ChainOK
  <2>3. \A i, j \in DOMAIN queue' : queue'[i] = queue'[j] => i = j
    <3>1. \A i, j \in DOMAIN queue' : i + 1 = j + 1 => i = j
      BY <1>4, <1>5
    <3> QED BY <1>4, <1>5, <1>6, <3>1 DEF IInv, ChainOK
  <2> QED BY <2>1, <2>2, <2>3 DEF ChainOK
<1>10. \A d \in Callers : Progress(d)'
  BY <1>2, <1>3, WaitingKnowsNothing
<1>11. CrashLeavesWholeFile'
  BY DEF IInv, CrashLeavesWholeFile, Settles
<1> QED BY <1>8, <1>9, <1>10, <1>11 DEF IInv

\* After a crash nobody is in flight.
LEMMA Stopping ==
  ASSUME IInv, Killed, file' \in Files, onDisk' \in Files,
         {file'.state, onDisk'.state} \subseteq {"whole", "damaged"}
  PROVE  IInv'
<1>1. op' = [c \in Callers |-> NoOperation] /\ queue' = <<>> /\ told' = told
  BY DEF Killed
<1>2. queue' \in Seq(Callers) /\ DOMAIN queue' = {}
  BY <1>1
<1>3. FileTypeOK'
  BY <1>1, <1>2 DEF IInv, FileTypeOK
<1>4. ChainOK'
  BY <1>1, <1>2 DEF ChainOK
<1>5. \A c \in Callers : Progress(c)'
  BY <1>1, WaitingKnowsNothing
<1> QED BY <1>3, <1>4, <1>5 DEF IInv, CrashLeavesWholeFile

\* Nobody in flight learns anything of a file with the same items.
LEMMA Beside ==
  ASSUME IInv, UNCHANGED <<queue, op, told>>, file' \in Files, onDisk' \in Files,
         file'.items = file.items, {file'.state, onDisk'.state} \subseteq {"whole", "damaged"}
  PROVE  IInv'
<1>1. FileTypeOK' /\ ChainOK'
  BY DEF IInv, FileTypeOK, ChainOK
<1>2. \A c \in Callers : Progress(c)'
  BY DEF IInv, Progress, Changed, Writes
<1> QED BY <1>1, <1>2 DEF IInv, CrashLeavesWholeFile

LEMMA OutsideSteps ==
  ASSUME IInv, Journal \/ ProcessDies \/ PowerCut \/ Damage PROVE IInv'
<1>1. /\ file \in Files /\ onDisk \in Files
      /\ file.state \in {"whole", "damaged"} /\ onDisk.state \in {"whole", "damaged"}
  BY DEF IInv, FileTypeOK, CrashLeavesWholeFile
<1>2. CASE Journal
  BY <1>1, <1>2, Beside DEF Journal
<1>3. CASE ProcessDies
  BY <1>1, <1>3, Stopping DEF ProcessDies
<1>4. CASE PowerCut
  <2>1. PICK left \in {file, onDisk} :
          file' = [left EXCEPT !.state = IF @ = "unsynced" THEN "torn" ELSE @]
    BY <1>4 DEF PowerCut
  <2>2. left \in Files /\ left.state \in {"whole", "damaged"}
    BY <1>1
  <2>3. file' \in Files /\ file'.state = left.state
    BY <2>1, <2>2 DEF Files, Wholeness
  <2> QED BY <1>4, <2>2, <2>3, Stopping DEF PowerCut
<1>5. CASE Damage
  <2>1. file' = [file EXCEPT !.state = IF @ \in Broken THEN "whole" ELSE "damaged"]
        /\ onDisk' = file' /\ UNCHANGED <<queue, op, told>>
    BY <1>5 DEF Damage
  <2>2. file' \in Files /\ file'.items = file.items /\ file'.state \in {"whole", "damaged"}
    BY <1>1, <2>1 DEF Files, Wholeness
  <2> QED BY <2>1, <2>2, Beside
<1> QED BY <1>2, <1>3, <1>4, <1>5

-----------------------------------------------------------------------------
\* What `To' leaves of an operation in flight.
LEMMA Proceeding ==
  ASSUME IInv, NEW c \in Callers, op[c] # NoOperation, NEW stage \in Stages, To(c, stage)
  PROVE  /\ op' = [op EXCEPT ![c] = [op[c] EXCEPT !.at = stage]]
         /\ [op[c] EXCEPT !.at = stage] \in Operations
         /\ op'[c].at = stage /\ op'[c].tmp = op[c].tmp /\ op'[c].wish = op[c].wish
         /\ \A d \in Callers : d # c => op'[d] = op[d]
<1>1. op[c] \in Operations /\ op \in [Callers -> Operations \cup {NoOperation}]
  BY DEF IInv, FileTypeOK
<1>2. op' = [op EXCEPT ![c] = [op[c] EXCEPT !.at = stage]]
  BY DEF To
<1>3. [op[c] EXCEPT !.at = stage] \in Operations
  BY <1>1 DEF Operations
<1>4. op'[c] = [op[c] EXCEPT !.at = stage] /\ \A d \in Callers : d # c => op'[d] = op[d]
  BY <1>1, <1>2
<1> QED BY <1>1, <1>2, <1>3, <1>4 DEF Operations

\* From one stage to another that asks no more of the file.
LEMMA Proceeds ==
  ASSUME IInv, NEW c \in Callers, NEW from, Doing(c, from), NEW stage \in Stages, To(c, stage),
         stage \in {"fill", "sync"} => from \in {"open", "fill"},
         stage \notin {"open", "rename"},
         UNCHANGED <<file, onDisk, queue, told>>
  PROVE  IInv'
<1>1. op[c] # NoOperation /\ MyTurn(c) /\ op[c].at = from
  BY DEF Doing
<1> DEFINE o == [op[c] EXCEPT !.at = stage]
<1>2. /\ o \in Operations /\ op' = [op EXCEPT ![c] = o]
      /\ op'[c].at = stage /\ op'[c].tmp = op[c].tmp /\ op'[c].wish = op[c].wish
  BY <1>1, Proceeding
<1> HIDE DEF o
<1>3. Progress(c)'
  BY <1>1, <1>2 DEF IInv, Progress, Changed, Writes
<1>4. file' \in Files /\ file'.state \in {"whole", "damaged"}
  BY DEF IInv, FileTypeOK, CrashLeavesWholeFile
<1> QED BY <1>1, <1>2, <1>3, <1>4, Moving

LEMMA ReadFileSteps == ASSUME IInv, NEW c \in Callers, ReadFile(c) PROVE IInv'
<1>1. op[c] # NoOperation /\ MyTurn(c) /\ Doing(c, "read") /\ UNCHANGED <<file, onDisk, queue, told>>
  BY DEF ReadFile, Doing
<1>2. CASE To(c, "failed") \/ To(c, "worked")
  BY <1>1, <1>2, Proceeds DEF Stages
<1>3. CASE /\ Writes(op[c].wish, file.items)
           /\ op' = [op EXCEPT ![c] = [@ EXCEPT !.at = "open",
                !.tmp = [items |-> Changed(op[c].wish, file.items), state |-> "unsynced"]]]
  <2> DEFINE tmp == [items |-> Changed(op[c].wish, file.items), state |-> "unsynced"]
             o == [op[c] EXCEPT !.at = "open", !.tmp = tmp]
  <2>1. op[c] \in Operations /\ file \in Files /\ op \in [Callers -> Operations \cup {NoOperation}]
    BY <1>1 DEF IInv, FileTypeOK
  <2>2. Changed(op[c].wish, file.items) \in Contents
    <3>1. op[c].wish \in Wishes /\ file.items \in Contents
      BY <2>1 DEF Operations, Files
    <3> QED BY <1>3, <3>1 DEF Wishes, Contents, Changed, Writes
  <2>3. tmp \in Files
    BY <2>2 DEF Files, Wholeness
  <2>4. o \in Operations
    BY <2>1, <2>3 DEF Operations, Stages
  <2>5. op' = [op EXCEPT ![c] = o]
    BY <1>3
  <2>6. /\ op'[c].at = "open" /\ op'[c].wish = op[c].wish
        /\ op'[c].tmp.items = Changed(op[c].wish, file.items)
    BY <2>1, <2>5 DEF Operations
  <2>7. Progress(c)'
    BY <1>1, <1>3, <2>6 DEF Progress
  <2>8. file' \in Files /\ file'.state \in {"whole", "damaged"}
    BY <1>1 DEF IInv, FileTypeOK, CrashLeavesWholeFile
  <2> HIDE DEF o
  <2> QED BY <1>1, <2>4, <2>5, <2>7, <2>8, Moving
<1> QED BY <1>2, <1>3 DEF ReadFile, Parsed

LEMMA SyncTempSteps == ASSUME IInv, NEW c \in Callers, SyncTemp(c) PROVE IInv'
<1> DEFINE tmp == [op[c].tmp EXCEPT !.state = "whole"]
<1>1. /\ op[c] # NoOperation /\ MyTurn(c) /\ op[c].at = "sync"
      /\ UNCHANGED <<file, onDisk, queue, told>>
      /\ op' = [op EXCEPT ![c] = [@ EXCEPT !.at = "rename", !.tmp = tmp]]
  BY DEF SyncTemp, Doing, Synced
<1> DEFINE o == [op[c] EXCEPT !.at = "rename", !.tmp = tmp]
<1>2. op[c] \in Operations /\ op[c].tmp \in Files /\ op \in [Callers -> Operations \cup {NoOperation}]
  BY <1>1 DEF IInv, FileTypeOK, Operations
<1>3. /\ o \in Operations /\ o.wish = op[c].wish
      /\ o.tmp.state = "whole" /\ o.tmp.items = op[c].tmp.items
  <2>1. tmp \in Files /\ tmp.state = "whole" /\ tmp.items = op[c].tmp.items
    BY <1>2 DEF Files, Wholeness
  <2> HIDE DEF tmp
  <2> QED BY <1>2, <2>1 DEF Operations, Stages
<1> HIDE DEF tmp
<1>4. op' = [op EXCEPT ![c] = o]
  BY <1>1
<1>5. op'[c] = o
  BY <1>2, <1>4
<1>6. Progress(c)'
  <2>1. op[c].tmp.items = Changed(op[c].wish, file.items) /\ Writes(op[c].wish, file.items)
    BY <1>1 DEF IInv, Progress
  <2> QED BY <1>1, <1>3, <1>5, <2>1 DEF Progress
<1>7. file' \in Files /\ file'.state \in {"whole", "damaged"}
  BY <1>1 DEF IInv, FileTypeOK, CrashLeavesWholeFile
<1> HIDE DEF o
<1> QED BY <1>1, <1>3, <1>4, <1>6, <1>7, Moving

LEMMA RenameTempSteps == ASSUME IInv, NEW c \in Callers, RenameTemp(c) PROVE IInv'
<1>1. /\ op[c] # NoOperation /\ MyTurn(c) /\ op[c].at = "rename"
      /\ To(c, "worked") /\ file' = op[c].tmp /\ UNCHANGED <<onDisk, queue, told>>
  BY DEF RenameTemp, Doing
<1> DEFINE o == [op[c] EXCEPT !.at = "worked"]
<1>2. o \in Operations /\ op' = [op EXCEPT ![c] = o] /\ op'[c].at = "worked"
  BY <1>1, Proceeding DEF Stages
<1> HIDE DEF o
<1>3. Progress(c)'
  BY <1>2, WaitingKnowsNothing
<1>4. file' \in Files /\ file'.state = "whole"
  BY <1>1 DEF IInv, FileTypeOK, Operations, Progress
<1> QED BY <1>1, <1>2, <1>3, <1>4, Moving

LEMMA NextInvariant == IInv /\ [FileNext]_fileVars => IInv'
<1> SUFFICES ASSUME IInv, [FileNext]_fileVars PROVE IInv'
  OBVIOUS
<1>1. ASSUME NEW c \in Callers, Advance(c) PROVE IInv'
  <2>1. CASE ReadFile(c)
    BY <2>1, ReadFileSteps
  <2>2. CASE OpenTemp(c)
    <3>1. Doing(c, "open") /\ To(c, "fill") /\ UNCHANGED <<file, onDisk, queue, told>>
      BY <2>2 DEF OpenTemp
    <3>2. "fill" \in Stages /\ "fill" \notin {"open", "rename"} /\ "open" \in {"open", "fill"}
      BY DEF Stages
    <3> QED BY <3>1, <3>2, Proceeds
  <2>3. CASE FillTemp(c)
    <3>1. Doing(c, "fill") /\ To(c, "sync") /\ UNCHANGED <<file, onDisk, queue, told>>
      BY <2>3 DEF FillTemp
    <3>2. "sync" \in Stages /\ "sync" \notin {"open", "rename"} /\ "fill" \in {"open", "fill"}
      BY DEF Stages
    <3> QED BY <3>1, <3>2, Proceeds
  <2>4. CASE SyncTemp(c)
    BY <2>4, SyncTempSteps
  <2>5. CASE RenameTemp(c)
    BY <2>5, RenameTempSteps
  <2>6. CASE CleanTemp(c)
    BY <2>6, Proceeds DEF CleanTemp, Stages
  <2>7. CASE Settles(c)
    BY <2>7, SettlesSteps
  <2> QED BY <1>1, <2>1, <2>2, <2>3, <2>4, <2>5, <2>6, <2>7 DEF Advance
<1>2. ASSUME NEW c \in Callers, IoFails(c) PROVE IInv'
  <2>1. /\ \E stage \in {"read", "open", "fill", "sync", "rename"} : Doing(c, stage)
        /\ To(c, "failed") \/ To(c, "clean")
        /\ UNCHANGED <<file, onDisk, queue, told>>
    BY <1>2 DEF IoFails
  <2>2. PICK from \in {"read", "open", "fill", "sync", "rename"} : Doing(c, from)
    BY <2>1
  <2>3. {"failed", "clean"} \subseteq Stages
    BY DEF Stages
  <2>4. CASE To(c, "failed")
    BY <2>1, <2>2, <2>3, <2>4, Proceeds
  <2>5. CASE To(c, "clean")
    BY <2>1, <2>2, <2>3, <2>5, Proceeds
  <2> QED BY <2>1, <2>4, <2>5
<1>3. ASSUME NEW c \in Callers, NEW wish \in Wishes, Enqueue(c, wish) PROVE IInv'
  BY <1>3, EnqueueSteps
<1>4. CASE UNCHANGED fileVars
  <2>1. file' = file /\ onDisk' = onDisk /\ UNCHANGED <<queue, op, told>>
    BY <1>4 DEF fileVars
  <2> QED BY <2>1, Beside DEF IInv, FileTypeOK, CrashLeavesWholeFile
<1> QED BY <1>1, <1>2, <1>3, <1>4, OutsideSteps DEF FileNext

-----------------------------------------------------------------------------
\* The model keeps its types.
THEOREM FileTypesKept == FileSpec => []FileTypeOK
<1>1. IInv => FileTypeOK
  BY DEF IInv
<1> QED BY <1>1, InitInvariant, NextInvariant, PTL DEF FileSpec

\* Whatever crashes or cuts of the power come, the file that processes read and
\* the one that a cut would leave were written whole (FileJsonStore.write).
THEOREM FilesAreWhole == FileSpec => []CrashLeavesWholeFile
<1>1. IInv => CrashLeavesWholeFile
  BY DEF IInv
<1> QED BY <1>1, InitInvariant, NextInvariant, PTL DEF FileSpec

-----------------------------------------------------------------------------
\* What the refinement makes of the operations in flight.
asked == [c \in Callers |-> op[c].wish]
done == {c \in Callers : op[c].at = "worked"}

\* A step that changes neither what is wanted nor what was done stutters.
LEMMA Stutters ==
  ASSUME asked' = asked, done' = done, UNCHANGED <<onDisk, told>>, file'.items = file.items
  PROVE  UNCHANGED Collection!storeVars
<1>1. UNCHANGED <<file.items, onDisk.items, asked, done, told>>
  OBVIOUS
<1> QED BY <1>1 DEF Collection!storeVars, asked, done

\* Proceeding neither to nor from "worked" stutters.
LEMMA ProceedsBeside ==
  ASSUME IInv, NEW c \in Callers, NEW from, Doing(c, from), from # "worked",
         NEW stage \in Stages \ {"worked"}, To(c, stage), UNCHANGED <<file, onDisk, told>>
  PROVE  UNCHANGED Collection!storeVars
<1>1. op[c] # NoOperation /\ op[c].at = from
  BY DEF Doing
<1>2. /\ op'[c].at = stage /\ op'[c].wish = op[c].wish
      /\ \A d \in Callers : d # c => op'[d] = op[d]
  BY <1>1, Proceeding
<1>3. asked' = asked
  BY <1>2 DEF asked
<1>4. done' = done
  BY <1>1, <1>2 DEF done
<1> QED BY <1>3, <1>4, Stutters

\* Proceeding to "worked" is the moment at which the operation takes effect.
LEMMA Does ==
  ASSUME IInv, NEW c \in Callers, op[c] # NoOperation, op[c].at # "worked",
         To(c, "worked"), UNCHANGED <<onDisk, told>>,
         file'.items = Collection!Applied(op[c].wish, file.items)
  PROVE  Collection!Do(c)
<1>1. op[c] \in Operations
  BY DEF IInv, FileTypeOK
<1>2. /\ op'[c].at = "worked" /\ op'[c].wish = op[c].wish
      /\ \A d \in Callers : d # c => op'[d] = op[d]
  BY Proceeding DEF Stages
<1>3. asked' = asked /\ asked[c] = op[c].wish
  BY <1>2 DEF asked
<1>4. done' = done \cup {c} /\ c \notin done
  BY <1>2 DEF done
<1>5. asked[c] # Nothing
  BY <1>1, <1>3, OperationsAreNotIdle
<1> QED BY <1>3, <1>4, <1>5 DEF Collection!Do, Collection!Nothing, Nothing, asked, done

\* Reading is enough for an operation that finds nothing to write.
LEMMA ReadFileDoes ==
  ASSUME IInv, NEW c \in Callers, ReadFile(c), ~UNCHANGED Collection!storeVars
  PROVE  Collection!Do(c)
<1>1. Doing(c, "read") /\ op[c] # NoOperation /\ op[c].at = "read" /\ UNCHANGED <<file, onDisk, told>>
  BY DEF ReadFile, Doing
<1>2. op[c] \in Operations /\ op \in [Callers -> Operations \cup {NoOperation}]
  BY <1>1 DEF IInv, FileTypeOK
<1>3. ~To(c, "failed")
  BY <1>1, ProceedsBeside DEF Stages
<1>4. ASSUME NEW tmp, op' = [op EXCEPT ![c] = [@ EXCEPT !.at = "open", !.tmp = tmp]] PROVE FALSE
  <2>1. /\ op'[c].at = "open" /\ op'[c].wish = op[c].wish
        /\ \A d \in Callers : d # c => op'[d] = op[d]
    BY <1>2, <1>4 DEF Operations
  <2>2. asked' = asked
    BY <2>1 DEF asked
  <2>3. done' = done
    BY <1>1, <2>1 DEF done
  <2> QED BY <1>1, <2>2, <2>3, Stutters
<1>5. To(c, "worked") /\ ~Writes(op[c].wish, file.items)
  BY <1>3, <1>4 DEF ReadFile, Parsed
<1>6. Collection!Applied(op[c].wish, file.items) = file.items
  <2>1. op[c].wish \in Wishes /\ file.items \in Contents
    BY <1>2 DEF Operations, IInv, FileTypeOK, Files
  <2> DEFINE wish == op[c].wish
  <2>2. wish.op = "list" \/ (wish.op = "remove" /\ wish.id \in Ids /\ file.items[wish.id] = Absent)
    BY <1>5, <2>1 DEF Wishes, Writes
  <2> HIDE DEF wish
  <2>3. CASE wish.op = "list"
    BY <2>3 DEF Collection!Applied, wish
  <2>4. CASE wish.op = "remove" /\ wish.id \in Ids /\ file.items[wish.id] = Absent
    BY <2>1, <2>4 DEF Collection!Applied, Contents, wish
  <2> QED BY <2>2, <2>3, <2>4
<1> QED BY <1>1, <1>5, <1>6, Does

\* The rename is the moment of an operation that writes.
LEMMA RenameTempDoes == ASSUME IInv, NEW c \in Callers, RenameTemp(c) PROVE Collection!Do(c)
<1>1. /\ op[c] # NoOperation /\ op[c].at = "rename"
      /\ To(c, "worked") /\ file' = op[c].tmp /\ UNCHANGED <<onDisk, told>>
  BY DEF RenameTemp, Doing
<1>2. file'.items = Changed(op[c].wish, file.items) /\ Writes(op[c].wish, file.items)
  BY <1>1 DEF IInv, Progress
<1>3. Changed(op[c].wish, file.items) = Collection!Applied(op[c].wish, file.items)
  BY <1>2 DEF Changed, Writes, Collection!Applied
<1> QED BY <1>1, <1>2, <1>3, Does

LEMMA EnqueueAsks ==
  ASSUME IInv, NEW c \in Callers, NEW wish \in Wishes, Enqueue(c, wish)
  PROVE  Collection!Ask(c, wish)
<1>1. /\ op[c] = NoOperation /\ UNCHANGED <<file, onDisk>>
      /\ told' = [told EXCEPT ![c] = "nothing"]
      /\ op'[c].wish = wish /\ op'[c].at = "read"
      /\ \A d \in Callers : d # c => op'[d] = op[d]
  BY DEF IInv, FileTypeOK, Enqueue
<1>2. asked' = [asked EXCEPT ![c] = wish] /\ asked[c] = Nothing
  BY <1>1, IdleKnowsNothing DEF asked
<1>3. done' = done
  BY <1>1, IdleKnowsNothing DEF done
<1> QED BY <1>1, <1>2, <1>3 DEF Collection!Ask, Collection!Nothing, Nothing, asked, done

LEMMA SettlesAnswers == ASSUME IInv, NEW c \in Callers, Settles(c) PROVE Collection!Answer(c)
<1>1. /\ op[c] # NoOperation /\ op[c].at \in {"worked", "failed"} /\ UNCHANGED <<file, onDisk>>
      /\ told' = [told EXCEPT ![c] = op[c].at]
      /\ op'[c] = NoOperation
      /\ \A d \in Callers : d # c => op'[d] = op[d]
  BY DEF IInv, FileTypeOK, Settles, Doing
<1>2. asked' = [asked EXCEPT ![c] = Nothing] /\ asked[c] = op[c].wish
  BY <1>1, IdleKnowsNothing DEF asked
<1>3. asked[c] # Nothing
  BY <1>1, <1>2, OperationsAreNotIdle DEF IInv, FileTypeOK
<1>4. done' = done \ {c}
  BY <1>1, IdleKnowsNothing DEF done
<1>5. op[c].at = IF c \in done THEN "worked" ELSE "failed"
  BY <1>1 DEF done
<1>6. told' = [told EXCEPT ![c] = IF c \in done THEN "worked" ELSE "failed"]
  BY <1>1, <1>5
<1> QED BY <1>1, <1>2, <1>3, <1>4, <1>6 DEF Collection!Answer, Collection!Nothing, Nothing, asked, done

LEMMA OutsideRefines ==
  ASSUME IInv, Journal \/ ProcessDies \/ PowerCut \/ Damage PROVE [Collection!Next]_Collection!storeVars
<1>1. Killed => asked' = [c \in Callers |-> Nothing] /\ done' = {} /\ told' = told
  BY IdleKnowsNothing DEF Killed, asked, done
<1>2. UNCHANGED op => asked' = asked /\ done' = done
  BY DEF asked, done
<1>3. CASE Journal
  BY <1>2, <1>3 DEF Journal, Collection!Next, Collection!Settle, asked, done
<1>4. CASE ProcessDies
  BY <1>1, <1>4 DEF ProcessDies, Collection!Next, Collection!Stop, Collection!Nothing, Nothing, asked, done
<1>5. CASE PowerCut
  <2>1. file'.items \in {file.items, onDisk.items} /\ onDisk' = file' /\ Killed
    BY <1>5 DEF PowerCut, IInv, FileTypeOK, Files
  <2> QED BY <1>1, <2>1 DEF Collection!Next, Collection!Stop, Collection!Nothing, Nothing, asked, done
<1>6. CASE Damage
  <2>1. file'.items = file.items /\ onDisk' = file' /\ UNCHANGED <<op, told>>
    BY <1>6 DEF Damage, IInv, FileTypeOK, Files
  <2> QED BY <1>2, <2>1 DEF Collection!Next, Collection!Settle, asked, done
<1> QED BY <1>3, <1>4, <1>5, <1>6

LEMMA StepRefines == IInv /\ [FileNext]_fileVars => [Collection!Next]_Collection!storeVars
<1> SUFFICES ASSUME IInv, [FileNext]_fileVars PROVE [Collection!Next]_Collection!storeVars
  OBVIOUS
<1>1. ASSUME NEW c \in Callers, Collection!Do(c) \/ Collection!Answer(c) PROVE Collection!Next
  BY <1>1 DEF Collection!Next
<1>2. ASSUME NEW c \in Callers, Advance(c) PROVE [Collection!Next]_Collection!storeVars
  <2>1. CASE ReadFile(c)
    BY <1>1, <2>1, ReadFileDoes
  <2>2. CASE OpenTemp(c)
    BY <2>2, ProceedsBeside DEF OpenTemp, Stages
  <2>3. CASE FillTemp(c)
    BY <2>3, ProceedsBeside DEF FillTemp, Stages
  <2>4. CASE SyncTemp(c)
    <3>1. /\ op[c].at = "sync" /\ op[c] # NoOperation /\ UNCHANGED <<file, onDisk, told>>
          /\ \E tmp : op' = [op EXCEPT ![c] = [@ EXCEPT !.at = "rename", !.tmp = tmp]]
      BY <2>4 DEF SyncTemp, Doing
    <3>2. op[c] \in Operations /\ op \in [Callers -> Operations \cup {NoOperation}]
      BY <3>1 DEF IInv, FileTypeOK
    <3>3. /\ op'[c].at = "rename" /\ op'[c].wish = op[c].wish
          /\ \A d \in Callers : d # c => op'[d] = op[d]
      BY <3>1, <3>2 DEF Operations
    <3>4. asked' = asked
      BY <3>3 DEF asked
    <3>5. done' = done
      BY <3>1, <3>3 DEF done
    <3> QED BY <3>1, <3>4, <3>5, Stutters
  <2>5. CASE RenameTemp(c)
    BY <1>1, <2>5, RenameTempDoes
  <2>6. CASE CleanTemp(c)
    BY <2>6, ProceedsBeside DEF CleanTemp, Stages
  <2>7. CASE Settles(c)
    BY <1>1, <2>7, SettlesAnswers
  <2> QED BY <1>2, <2>1, <2>2, <2>3, <2>4, <2>5, <2>6, <2>7 DEF Advance
<1>3. ASSUME NEW c \in Callers, IoFails(c) PROVE UNCHANGED Collection!storeVars
  <2>1. UNCHANGED <<file, onDisk, told>>
    BY <1>3 DEF IoFails
  <2>2. PICK from \in {"read", "open", "fill", "sync", "rename"} : Doing(c, from)
    BY <1>3 DEF IoFails
  <2>3. To(c, "failed") \/ To(c, "clean")
    BY <1>3 DEF IoFails
  <2>4. {"failed", "clean"} \subseteq Stages \ {"worked"} /\ from # "worked"
    BY DEF Stages
  <2>5. CASE To(c, "failed")
    BY <2>1, <2>2, <2>4, <2>5, ProceedsBeside
  <2>6. CASE To(c, "clean")
    BY <2>1, <2>2, <2>4, <2>6, ProceedsBeside
  <2> QED BY <2>3, <2>5, <2>6
<1>4. ASSUME NEW c \in Callers, NEW wish \in Wishes, Enqueue(c, wish) PROVE Collection!Next
  BY <1>4, EnqueueAsks DEF Collection!Next, Collection!Wishes, Wishes
<1>5. CASE UNCHANGED fileVars
  <2>1. asked' = asked /\ done' = done /\ UNCHANGED <<file, onDisk, told>>
    BY <1>5 DEF fileVars, asked, done
  <2> QED BY <2>1, Stutters
<1> QED BY <1>2, <1>3, <1>4, <1>5, OutsideRefines DEF FileNext

\* Reads, changes and renames of the whole file implement a collection whose
\* operations take effect at one moment or not at all (FileJsonStore against
\* the JsonStore interface).
THEOREM FileImplementsCollection == FileSpec => ImplementsCollection
<1>1. FileInit => Collection!Init
  <2> SUFFICES ASSUME FileInit PROVE Collection!Init
    OBVIOUS
  <2>1. asked = [c \in Callers |-> Nothing] /\ done = {}
    BY IdleKnowsNothing DEF FileInit, asked, done
  <2> QED BY <2>1 DEF FileInit, Empty, Collection!Init, Collection!Nothing, Nothing, asked, done
<1> QED BY <1>1, InitInvariant, NextInvariant, StepRefines, PTL
       DEF FileSpec, ImplementsCollection, Collection!Spec
=============================================================================
