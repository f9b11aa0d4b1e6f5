--------------------------- MODULE MemorySyncProofs ---------------------------
(***************************************************************************)
(* Theorems about MemorySync, for any number of files and contents, any    *)
(* cap on deletes and any bounds on what happens in a session.  They rest  *)
(* on four inductive invariants: SyncInv, every content that the session's *)
(* records name was once in the file; from it BooksInv, what the records   *)
(* say of the memories the session wrote and of files it misses; then, of  *)
(* the end of a session, SavingInv, how its own memories are brought up to *)
(* date, and WorkInv, how the other files are taken up and sent.           *)
(***************************************************************************)
EXTENDS MemorySync, FiniteSetTheorems, TLAPS

-----------------------------------------------------------------------------
(* The parts of the type invariant.                                         *)

Files   == [Paths -> Contents0]
Memory  == [id : Nat, sha : Contents0, by : {"us", "other"}]
Upload  == [st : {"none", "todo", "read", "sent", "lost"}, local : Contents0, data : Contents0,
            item : Memory]

FolderTyped ==
  /\ disk \in Files /\ folder \in {"ours", "bare", "alien", "none"}
  /\ held \in [Paths -> SUBSET Contents] /\ removed \in [Paths -> {"kept", "gone", "midpass"}]

StoreTyped ==
  /\ baseline \in Files /\ refused \in Files /\ sent \in Files
  /\ pending \in [Paths -> {"no", "young", "old"}]

PassTyped ==
  /\ pc \in {"idle", "scan", "list", "path", "confirm", "delete", "upload", "pull", "open", "full", "fill"}
  /\ scan \in Files /\ next \in Files /\ listed \in [Paths -> Memory]
  /\ final \in BOOLEAN /\ at \in 1..NPaths + 1 /\ pulls \subseteq Paths /\ attempted \in 0..NPaths

FlushTyped ==
  /\ fpc \in {"off", "scan", "list", "upload", "done"}
  /\ fscan \in Files /\ todo \subseteq Paths /\ cut \in BOOLEAN

UpTyped == up \in [Owners -> [Paths -> Upload]]

RestTyped ==
  /\ remote \in [Paths -> Memory] /\ setup \in Setups
  /\ edits \in Nat /\ others \in Nat /\ faults \in Nat
  /\ life \in {"download", "running", "finish", "flush", "dispose", "disposed", "failed"}
  /\ overtaken \subseteq Paths

\* A pass leaves nothing behind, and one upload of a sync is out at a time.
IdleIsTidy == pc = "idle" => scan = NoFiles /\ pulls = {} /\ ~final
OneUpload  == \A p \in Paths : up["sync"][p].st # "none" => pc = "upload" /\ at = p

LEMMA Parts ==
  /\ TypeOK <=> /\ FolderTyped /\ StoreTyped /\ PassTyped /\ FlushTyped /\ UpTyped /\ RestTyped
                /\ IdleIsTidy /\ OneUpload
  /\ TypeOK' <=> /\ FolderTyped' /\ StoreTyped' /\ PassTyped' /\ FlushTyped' /\ UpTyped' /\ RestTyped'
                 /\ IdleIsTidy' /\ OneUpload'
<1>1. TypeOK <=> /\ FolderTyped /\ StoreTyped /\ PassTyped /\ FlushTyped /\ UpTyped /\ RestTyped
                 /\ IdleIsTidy /\ OneUpload
  BY DEF TypeOK, FolderTyped, StoreTyped, PassTyped, FlushTyped, UpTyped, RestTyped, IdleIsTidy, OneUpload,
     Files, Memory, Upload
<1>2. TypeOK' <=> /\ FolderTyped' /\ StoreTyped' /\ PassTyped' /\ FlushTyped' /\ UpTyped' /\ RestTyped'
                  /\ IdleIsTidy' /\ OneUpload'
  BY DEF TypeOK, FolderTyped, StoreTyped, PassTyped, FlushTyped, UpTyped, RestTyped, IdleIsTidy, OneUpload,
     Files, Memory, Upload
<1> QED
  BY <1>1, <1>2

LEMMA Constants ==
  /\ None \in Contents0 /\ Contents \subseteq Contents0 /\ None \notin Contents
  /\ NoFiles \in Files /\ (\A p \in Paths : NoFiles[p] = None)
  /\ NoMemory \in Memory /\ NoMemory.sha = None /\ NoMemory.id = 0
  /\ NoMemories \in [Paths -> Memory]
  /\ NoUpload \in Upload /\ NoUpload.st = "none" /\ NoUpload.data = None /\ NoUpload.item = NoMemory
<1>1. NoMemory \in Memory /\ NoMemory.sha = None /\ NoMemory.id = 0
  BY DEF NoMemory, Memory, Contents0
<1> QED
  BY <1>1, MemoryAssumption DEF NoFiles, Files, NoMemories, NoUpload, Upload, Contents0

\* The names a session uses are names.
LEMMA NamesInUse ==
  ASSUME setup \in Setups
  PROVE  /\ InUse \subseteq Paths /\ NPaths \in Nat /\ Paths \subseteq Nat
         /\ setup.edits \in Nat /\ setup.others \in Nat /\ setup.faults \in Nat
         /\ Original \in Contents0
<1>1. setup \in Setups0
  BY MemoryAssumption
<1>2. setup.files \in Paths /\ setup.edits \in Nat /\ setup.others \in Nat /\ setup.faults \in Nat
  BY <1>1 DEF Setups0
<1> QED
  BY <1>2, MemoryAssumption DEF InUse, Paths, Contents0

-----------------------------------------------------------------------------
(* The inductive invariant.                                                 *)

\* A content that the file once had, or none.
Known(p, c) == c \in held[p] \cup {None}

\* What the session compares with, is about to record or has on the way was in the file.
KnownInFolder == \A p \in Paths : Known(p, disk[p])
KnownInStore  == \A p \in Paths : Known(p, baseline[p]) /\ Known(p, sent[p])
KnownInPass   ==
  /\ \A p \in Paths : Known(p, scan[p]) /\ Known(p, next[p])
  /\ pc = "upload" => Known(at, listed[at].sha)
KnownInFlush  == \A p \in Paths : Known(p, fscan[p])
KnownInUp     == \A o \in Owners, p \in Paths : Known(p, up[o][p].data) /\ Known(p, up[o][p].item.sha)

\* Only a store that may be written is.
Writing ==
  /\ pc \in {"confirm", "delete"} \/ fpc \in {"list", "upload"} => ~setup.readOnly
  /\ \A o \in Owners, p \in Paths : up[o][p].st # "none" => ~setup.readOnly

\* A delete is counted, against the cap, before its path is left.
Attempts ==
  CASE pc \in {"path", "confirm", "upload", "pull"} -> attempted < at
    [] pc = "delete" -> attempted <= at
    [] OTHER -> attempted = 0

InPlace == pc \in {"confirm", "delete", "upload"} => at \in InUse

Downloading ==
  life = "download" => pc \in {"open", "full", "fill"} /\ scan = NoFiles /\ pulls = {} /\ ~final

SyncInv ==
  /\ TypeOK
  /\ KnownInFolder /\ KnownInStore /\ KnownInPass /\ KnownInFlush /\ KnownInUp
  /\ Writing /\ Attempts /\ InPlace /\ Downloading

HeldGrows == \A p \in Paths : held[p] \subseteq held'[p]

\* Known once the step is taken.
Recorded(p, c) == c \in held'[p] \cup {None}

-----------------------------------------------------------------------------
(* The folder: who changes it, and what it once held stays known.           *)

LEMMA WroteDoes ==
  ASSUME FolderTyped, NEW p \in Paths, NEW c \in Contents0, disk' = [disk EXCEPT ![p] = c], Wrote(p)
  PROVE  /\ disk' \in Files /\ disk'[p] = c /\ (\A q \in Paths \ {p} : disk'[q] = disk[q])
         /\ held' \in [Paths -> SUBSET Contents] /\ removed' \in [Paths -> {"kept", "gone", "midpass"}]
         /\ HeldGrows /\ c \in held'[p] \cup {None}
<1>1. disk' \in Files /\ disk'[p] = c /\ (\A q \in Paths \ {p} : disk'[q] = disk[q])
  BY DEF FolderTyped, Files
<1>2. {c} \ {None} \subseteq Contents
  BY DEF Contents0
<1>3. /\ held' \in [Paths -> SUBSET Contents] /\ HeldGrows /\ c \in held'[p] \cup {None}
  BY <1>1, <1>2 DEF Wrote, FolderTyped, HeldGrows
<1>4. removed' \in [Paths -> {"kept", "gone", "midpass"}]
  BY DEF Wrote, FolderTyped
<1> QED
  BY <1>1, <1>3, <1>4

\* The folder is touched by the agent, a pass that writes, and its removal.
FolderSteps ==
  \/ Agent \/ RemoveLocal \/ Stamp \/ FullList \/ Fill \/ Dispose
  \/ \E p \in Paths : PullWrites(p)

LEMMA FolderTouched ==
  ASSUME [Next]_vars
  PROVE  FolderSteps \/ UNCHANGED <<disk, folder, held>>
<1>1. CASE SyncStep
  BY <1>1 DEF FolderSteps, SyncStep, Scan, List, ListFails, HoldDelete, AskDelete, Confirm,
     DeleteAnswered, DeleteUnanswered, GoneOnBothSides, RemoveLocal, PushNew, Pull, Adopt,
     PushChange, InStep, PathsDone, PullWrites, PullSkips, PullsDone, RefuseFolder, Stamp, FullList,
     Fill, Filled, store, pass, flush, budgets, ghosts
<1>2. CASE \E o \in Owners : UploadStep(o)
  BY <1>2 DEF UploadStep, UploadRead, UploadAnswered, UploadUnanswered, store, pass, flush, budgets,
     ghosts
<1>3. CASE Teardown
  BY <1>3 DEF FolderSteps, Teardown, Finish, RunFails, FinishCutOff, FlushScan, FlushList,
     FlushDone, FlushCutOff, Dispose, FlushStart, store, pass, flush, budgets, ghosts
<1>4. CASE SyncIfDue \/ \E p \in InUse : OtherClient(p) \/ Age(p)
  BY <1>4 DEF SyncIfDue, OtherClient, Age, ghosts
<1> QED
  BY <1>1, <1>2, <1>3, <1>4 DEF Next, vars, FolderSteps, ghosts

LEMMA RemovedTyped ==
  ASSUME SyncInv, [Next]_vars
  PROVE  removed' \in [Paths -> {"kept", "gone", "midpass"}]
<1>t. removed \in [Paths -> {"kept", "gone", "midpass"}] /\ setup \in Setups
  BY Parts DEF SyncInv, FolderTyped, RestTyped
<1>1. CASE SyncStep
  <2>1. CASE \E p \in Paths : PullWrites(p)
    BY <1>t, <2>1 DEF PullWrites, Wrote
  <2>2. CASE RemoveLocal
    BY <1>t, <2>2 DEF RemoveLocal
  <2>3. CASE Stamp
    BY <1>t, <2>3 DEF Stamp
  <2>4. CASE Fill
    BY <1>t, <2>4 DEF Fill, Wrote, ghosts
  <2>5. CASE UNCHANGED removed
    BY <1>t, <2>5
  <2> QED
    BY <1>1, <2>1, <2>2, <2>3, <2>4, <2>5 DEF SyncStep, Scan, List, ListFails, HoldDelete,
       AskDelete, Confirm, DeleteAnswered, DeleteUnanswered, GoneOnBothSides, RemoveLocal, PushNew,
       Pull, Adopt, PushChange, InStep, PathsDone, PullWrites, PullSkips, PullsDone, RefuseFolder,
       Stamp, FullList, Fill, Filled, store, pass, flush, budgets, ghosts
<1>2. CASE \E o \in Owners : UploadStep(o)
  BY <1>2, <1>t DEF UploadStep, UploadRead, UploadAnswered, UploadUnanswered, store, pass, flush,
     budgets, ghosts
<1>3. CASE Teardown
  BY <1>3, <1>t DEF Teardown, Finish, RunFails, FinishCutOff, FlushScan, FlushList, FlushDone,
     FlushCutOff, Dispose, FlushStart, store, pass, flush, budgets, ghosts
<1>4. CASE SyncIfDue \/ \E p \in InUse : OtherClient(p) \/ Age(p)
  <2>1. CASE \E p \in InUse : OtherClient(p)
    <3> DEFINE wiped == {q \in Paths : disk[q] = None /\ removed[q] # "gone"}
               lone(q) == q \in wiped /\ Cardinality(Synced(wiped, remote')) <= 1
    <3>1. removed' = [q \in Paths |-> IF lone(q) THEN "gone" ELSE removed[q]]
      BY <2>1 DEF OtherClient
    <3> HIDE DEF lone
    <3> QED
      BY <1>t, <3>1
  <2>2. CASE SyncIfDue \/ \E p \in InUse : Age(p)
    BY <1>t, <2>2 DEF SyncIfDue, Age, ghosts
  <2> QED
    BY <1>4, <2>1, <2>2
<1>5. CASE Agent
  <2>1. CASE WipeFiles
    BY <1>t, <2>1 DEF WipeFiles
  <2>2. CASE ~WipeFiles
    BY <1>t, <1>5, <2>2 DEF Agent, WipeFolder, SwapFolder, Edit, Remove, ghosts
  <2> QED
    BY <2>1, <2>2
<1> QED
  BY <1>t, <1>1, <1>2, <1>3, <1>4, <1>5 DEF Next, vars, ghosts

LEMMA FolderStep ==
  ASSUME SyncInv, [Next]_vars
  PROVE  FolderTyped' /\ KnownInFolder' /\ HeldGrows
<1>t. FolderTyped /\ RestTyped /\ PassTyped /\ KnownInFolder /\ setup \in Setups /\ InUse \subseteq Paths
  BY Parts, NamesInUse DEF SyncInv, RestTyped
<1>r. removed' \in [Paths -> {"kept", "gone", "midpass"}]
  BY RemovedTyped
<1>n. NoFiles \in Files /\ \A p \in Paths : NoFiles[p] = None
  BY Constants
<1>h. ASSUME UNCHANGED held PROVE HeldGrows /\ held' \in [Paths -> SUBSET Contents]
  BY <1>h, <1>t DEF HeldGrows, FolderTyped
<1>1. CASE UNCHANGED <<disk, folder, held>>
  BY <1>1, <1>t, <1>r DEF FolderTyped, KnownInFolder, Known, HeldGrows
<1>2. ASSUME NEW p \in Paths, NEW c \in Contents0, disk' = [disk EXCEPT ![p] = c], Wrote(p), UNCHANGED folder
      PROVE  FolderTyped' /\ KnownInFolder' /\ HeldGrows
  <2>1. /\ disk' \in Files /\ disk'[p] = c /\ (\A q \in Paths \ {p} : disk'[q] = disk[q])
        /\ held' \in [Paths -> SUBSET Contents] /\ HeldGrows /\ c \in held'[p] \cup {None}
    BY <1>2, <1>t, WroteDoes
  <2>2. KnownInFolder'
    BY <1>t, <2>1 DEF KnownInFolder, Known, HeldGrows
  <2> QED
    BY <1>2, <1>r, <1>t, <2>1, <2>2 DEF FolderTyped
<1>3. ASSUME UNCHANGED held, disk' \in Files, \A p \in Paths : disk'[p] \in {disk[p], None},
             folder' \in {"ours", "bare", "alien", "none"}
      PROVE  FolderTyped' /\ KnownInFolder' /\ HeldGrows
  BY <1>3, <1>r, <1>t, <1>h DEF FolderTyped, KnownInFolder, Known
<1>4. CASE Agent
  <2>1. CASE \E p \in InUse : Edit(p)
    <3>1. PICK p \in InUse, c \in Contents :
            /\ disk' = [disk EXCEPT ![p] = c] /\ held' = [held EXCEPT ![p] = @ \cup {disk'[p]}]
            /\ folder' \in {folder, "bare"}
      BY <2>1 DEF Edit
    <3>2. p \in Paths /\ c \in Contents0
      BY <1>t, Constants
    <3>3. disk' \in Files /\ disk'[p] = c /\ \A q \in Paths \ {p} : disk'[q] = disk[q]
      BY <1>t, <3>1, <3>2 DEF FolderTyped, Files
    <3>4. held' \in [Paths -> SUBSET Contents] /\ HeldGrows /\ c \in held'[p]
      BY <1>t, <3>1, <3>2, <3>3 DEF FolderTyped, HeldGrows
    <3>5. KnownInFolder'
      BY <1>t, <3>3, <3>4 DEF KnownInFolder, Known, HeldGrows
    <3> QED
      BY <1>r, <1>t, <3>1, <3>3, <3>4, <3>5 DEF FolderTyped
  <2>2. CASE \E p \in InUse : Remove(p)
    <3>1. PICK p \in InUse : disk' = [disk EXCEPT ![p] = None] /\ UNCHANGED <<folder, held>>
      BY <2>2 DEF Remove
    <3>2. disk' \in Files /\ \A q \in Paths : disk'[q] \in {disk[q], None}
      BY <1>t, <3>1, Constants DEF FolderTyped, Files
    <3> QED
      BY <1>3, <1>t, <3>1, <3>2 DEF FolderTyped
  <2>3. CASE WipeFiles \/ WipeFolder
    BY <1>3, <1>n, <1>t, <2>3 DEF WipeFiles, WipeFolder, FolderTyped, ghosts
  <2>4. CASE SwapFolder
    BY <1>3, <1>t, <2>4 DEF SwapFolder, FolderTyped, ghosts
  <2> QED
    BY <1>4, <2>1, <2>2, <2>3, <2>4 DEF Agent
<1>5. CASE RemoveLocal
  <2>1. UNCHANGED <<folder, held>> /\ disk' \in {disk, [disk EXCEPT ![at] = None]}
    BY <1>5 DEF RemoveLocal
  <2>2. disk' \in Files /\ \A q \in Paths : disk'[q] \in {disk[q], None}
    BY <1>t, <2>1, Constants DEF FolderTyped, Files
  <2> QED
    BY <1>3, <1>t, <2>1, <2>2 DEF FolderTyped
<1>6. CASE Stamp \/ FullList \/ Dispose
  <2>1. /\ UNCHANGED held /\ disk' \in {disk, NoFiles} /\ folder' \in {folder, "ours", "bare", "none"}
    BY <1>6 DEF Stamp, FullList, Dispose, DownloadFails, PassFails, ghosts
  <2> QED
    BY <1>3, <1>n, <1>t, <2>1 DEF FolderTyped
<1>7. CASE Fill
  <2>1. at \in Paths /\ Item.sha \in Contents0 /\ UNCHANGED folder
    BY <1>7, <1>t DEF Fill, PassTyped, Memory, Item
  <2> QED
    BY <1>1, <1>2, <1>7, <2>1 DEF Fill, ghosts
<1>8. CASE \E p \in Paths : PullWrites(p)
  <2>1. PICK p \in Paths : PullWrites(p)
    BY <1>8
  <2>2. remote[p].sha \in Contents0
    BY <1>t DEF RestTyped, Memory
  <2> QED
    BY <1>2, <2>1, <2>2 DEF PullWrites
<1> QED
  BY <1>1, <1>4, <1>5, <1>6, <1>7, <1>8, FolderTouched DEF FolderSteps

-----------------------------------------------------------------------------
(* The records of the store.                                                *)

LEMMA PendingStep ==
  ASSUME SyncInv, [Next]_vars
  PROVE  pending' \in [Paths -> {"no", "young", "old"}]
<1>t. pending \in [Paths -> {"no", "young", "old"}]
  BY Parts DEF SyncInv, StoreTyped
<1>1. CASE SyncStep
  BY <1>1, <1>t DEF SyncStep, Scan, List, ListFails, HoldDelete, AskDelete, Confirm, DeleteAnswered,
     DeleteUnanswered, GoneOnBothSides, RemoveLocal, PushNew, Pull, Adopt, PushChange, InStep,
     PathsDone, PullWrites, PullSkips, PullsDone, RefuseFolder, Stamp, FullList, Fill, Filled,
     Forget, Seen, store, pass, flush, budgets, ghosts
<1>2. CASE \E o \in Owners : UploadStep(o)
  BY <1>2, <1>t DEF UploadStep, UploadRead, UploadAnswered, UploadUnanswered, store, pass, flush,
     budgets, ghosts
<1>3. CASE Teardown
  BY <1>3, <1>t DEF Teardown, Finish, RunFails, FinishCutOff, FlushScan, FlushList, FlushDone,
     FlushCutOff, Dispose, FlushStart, store, pass, flush, budgets, ghosts
<1>4. CASE SyncIfDue \/ \E p \in InUse : OtherClient(p) \/ Age(p)
  BY <1>4, <1>t DEF SyncIfDue, OtherClient, Age, store
<1>5. CASE Agent
  BY <1>5, <1>t DEF Agent, WipeFiles, WipeFolder, SwapFolder, Edit, Remove, AgentActs, AgentLeaves,
     store
<1> QED
  BY <1>t, <1>1, <1>2, <1>3, <1>4, <1>5 DEF Next, vars, store

\* Who changes what the session compares with or has sent.
StoreSteps ==
  \/ List \/ PathsDone \/ Stamp \/ Fill \/ FlushList
  \/ \E p \in Paths : PullWrites(p)
  \/ \E o \in Owners : UploadStep(o)

LEMMA StoreTouched ==
  ASSUME [Next]_vars
  PROVE  StoreSteps \/ UNCHANGED <<baseline, refused, sent>>
<1>1. CASE SyncStep
  BY <1>1 DEF StoreSteps, SyncStep, Scan, List, ListFails, HoldDelete, AskDelete, Confirm,
     DeleteAnswered, DeleteUnanswered, GoneOnBothSides, RemoveLocal, PushNew, Pull, Adopt,
     PushChange, InStep, PathsDone, PullWrites, PullSkips, PullsDone, RefuseFolder, Stamp, FullList,
     Fill, Filled, store, pass, flush, budgets, ghosts
<1>3. CASE Teardown
  BY <1>3 DEF StoreSteps, Teardown, Finish, RunFails, FinishCutOff, FlushScan, FlushList, FlushDone,
     FlushCutOff, Dispose, FlushStart, store, pass, flush, budgets, ghosts
<1>4. CASE SyncIfDue \/ \E p \in InUse : OtherClient(p) \/ Age(p)
  BY <1>4 DEF SyncIfDue, OtherClient, Age, store
<1>5. CASE Agent
  BY <1>5 DEF Agent, WipeFiles, WipeFolder, SwapFolder, Edit, Remove, AgentActs, AgentLeaves, store
<1> QED
  BY <1>1, <1>3, <1>4, <1>5 DEF Next, vars, StoreSteps, store

\* Settling the uploads takes a content from `sent` at most.
LEMMA SettleSentIs ==
  ASSUME SyncInv
  PROVE  SettleSent \in Files /\ \A p \in Paths : SettleSent[p] \in {baseline[p], sent[p]}
  BY Parts DEF SyncInv, StoreTyped, SettleSent, Files

\* One path's entry is replaced.
LEMMA EntryBecomes ==
  ASSUME NEW f \in Files, NEW g, NEW p, NEW c \in Contents0, g = [f EXCEPT ![p] = c]
  PROVE  g \in Files /\ (\A q \in Paths : g[q] \in {f[q], c}) /\ \A q \in Paths \ {p} : g[q] = f[q]
  BY DEF Files

LEMMA StoreStep ==
  ASSUME SyncInv, [Next]_vars
  PROVE  StoreTyped' /\ KnownInStore'
<1>t. /\ FolderTyped /\ StoreTyped /\ RestTyped /\ PassTyped /\ FlushTyped /\ UpTyped
      /\ KnownInFolder /\ KnownInStore /\ KnownInPass /\ KnownInFlush /\ KnownInUp
  BY Parts DEF SyncInv
<1>c. None \in Contents0 /\ NoFiles \in Files /\ \A p \in Paths : NoFiles[p] = None
  BY Constants
<1>h. HeldGrows /\ \A p \in Paths : \A c : Known(p, c) => Recorded(p, c)
  BY FolderStep DEF Known, Recorded, HeldGrows
<1>p. pending' \in [Paths -> {"no", "young", "old"}]
  BY PendingStep
<1>r. baseline \in Files /\ refused \in Files /\ sent \in Files
      /\ \A p \in Paths : Known(p, baseline[p]) /\ Known(p, sent[p]) /\ Known(p, None)
  BY <1>t DEF StoreTyped, KnownInStore, Known
<1> SUFFICES /\ baseline' \in Files /\ refused' \in Files /\ sent' \in Files
             /\ \A p \in Paths : Recorded(p, baseline'[p]) /\ Recorded(p, sent'[p])
  BY <1>p DEF StoreTyped, KnownInStore, Known, Recorded
<1>0. ASSUME UNCHANGED <<baseline, refused, sent>>
      PROVE  /\ baseline' \in Files /\ refused' \in Files /\ sent' \in Files
             /\ \A p \in Paths : Recorded(p, baseline'[p]) /\ Recorded(p, sent'[p])
  BY <1>0, <1>h, <1>r
<1>1. CASE List
  BY <1>1, <1>c, <1>h, <1>r, SettleSentIs DEF List
<1>2. CASE PathsDone
  BY <1>2, <1>h, <1>r, <1>t DEF PathsDone, PassTyped, KnownInPass
<1>3. CASE Stamp
  BY <1>3, <1>c, <1>h, <1>r DEF Stamp
<1>4. CASE Fill
  <2>1. Item.sha \in Contents0 /\ at \in Paths
    BY <1>4, <1>t, NamesInUse DEF Fill, Item, PassTyped, Memory, RestTyped
  <2>2. CASE UNCHANGED baseline
    BY <1>4, <1>h, <1>r, <2>2 DEF Fill
  <2>3. CASE disk' = [disk EXCEPT ![at] = Item.sha] /\ baseline' = [baseline EXCEPT ![at] = Item.sha]
    <3>1. Recorded(at, Item.sha)
      <4>1. KnownInFolder' /\ disk'[at] = Item.sha
        BY <1>t, <2>1, <2>3, FolderStep DEF FolderTyped, Files
      <4>2. Recorded(at, disk'[at])
        BY <2>1, <4>1 DEF KnownInFolder, Known, Recorded
      <4> QED
        BY <4>1, <4>2
    <3>2. baseline' \in Files /\ baseline'[at] = Item.sha /\ \A q \in Paths \ {at} : baseline'[q] = baseline[q]
      BY <1>r, <2>1, <2>3 DEF Files
    <3>3. \A q \in Paths : Recorded(q, baseline'[q])
      BY <1>h, <1>r, <3>1, <3>2 DEF Known
    <3> QED
      BY <1>4, <1>h, <1>r, <3>2, <3>3 DEF Fill
  <2> QED
    BY <1>4, <2>2, <2>3 DEF Fill
<1>5. CASE \E p \in Paths : PullWrites(p)
  <2>1. PICK p \in Paths : PullWrites(p)
    BY <1>5
  <2> DEFINE c == remote[p].sha
  <2>2. c \in Contents0 /\ disk' = [disk EXCEPT ![p] = c] /\ baseline' = [baseline EXCEPT ![p] = c]
        /\ UNCHANGED <<refused, sent>>
    BY <1>t, <2>1 DEF PullWrites, RestTyped, Memory
  <2> HIDE DEF c
  <2>3. Recorded(p, c)
    <3>1. KnownInFolder' /\ disk'[p] = c
      BY <1>t, <2>2, FolderStep DEF FolderTyped, Files
    <3>2. Recorded(p, disk'[p])
      BY <3>1 DEF KnownInFolder, Known, Recorded
    <3> QED
      BY <3>1, <3>2
  <2>4. baseline' \in Files /\ baseline'[p] = c /\ \A q \in Paths \ {p} : baseline'[q] = baseline[q]
    BY <1>r, <2>2 DEF Files
  <2>5. \A q \in Paths : Recorded(q, baseline'[q])
    BY <1>h, <1>r, <2>3, <2>4
  <2> QED
    BY <1>h, <1>r, <2>2, <2>4, <2>5
<1>6. CASE FlushList
  <2>1. CASE UNCHANGED <<baseline, sent>>
    BY <1>6, <1>h, <1>r, <2>1 DEF FlushList
  <2>2. CASE /\ sent' = NoFiles
             /\ baseline' = [p \in Paths |-> IF p \in todo /\ remote[p].sha = fscan[p]
                                               THEN fscan[p] ELSE SettleSent[p]]
    <3>1. baseline' \in Files /\ \A p \in Paths : baseline'[p] \in {fscan[p], baseline[p], sent[p]}
      BY <1>t, <2>2, SettleSentIs DEF FlushTyped, Files
    <3>2. \A p \in Paths : Recorded(p, baseline'[p])
      BY <1>h, <1>r, <1>t, <3>1 DEF KnownInFlush
    <3> QED
      BY <1>6, <1>c, <1>h, <1>r, <2>2, <3>1, <3>2 DEF FlushList
  <2> QED
    BY <1>6, <2>1, <2>2 DEF FlushList
<1>7. CASE \E o \in Owners : UploadStep(o)
  <2>1. PICK o \in Owners, p \in Paths : UploadRead(o, p) \/ UploadAnswered(o, p) \/ UploadUnanswered(o, p)
    BY <1>7 DEF UploadStep
  <2>2. /\ up[o][p].data \in Contents0 /\ up[o][p].local \in Contents0 /\ Known(p, up[o][p].data)
        /\ disk[p] \in Contents0 /\ Known(p, disk[p])
    BY <1>t DEF UpTyped, Upload, KnownInUp, FolderTyped, Files, KnownInFolder
  <2>3. /\ \E c \in {None, up[o][p].data} : baseline' \in {baseline, [baseline EXCEPT ![p] = c]}
        /\ \E c \in {None, disk[p]} : sent' \in {sent, [sent EXCEPT ![p] = c]}
        /\ \E c \in {None, up[o][p].local} : refused' \in {refused, [refused EXCEPT ![p] = c]}
    BY <2>1 DEF UploadRead, UploadAnswered, UploadUnanswered, UploadEnds, UploadLost
  <2>4. baseline' \in Files /\ \A q \in Paths : Recorded(q, baseline'[q])
    <3>1. PICK c \in {None, up[o][p].data} : baseline' \in {baseline, [baseline EXCEPT ![p] = c]}
      BY <2>3
    <3>2. c \in Contents0 /\ Known(p, c)
      BY <1>c, <1>r, <2>2, <3>1
    <3>3. /\ baseline' \in Files /\ (\A q \in Paths \ {p} : baseline'[q] = baseline[q])
          /\ baseline'[p] \in {baseline[p], c}
      BY <1>r, <3>1, <3>2 DEF Files
    <3> QED
      BY <1>h, <1>r, <3>2, <3>3
  <2>5. sent' \in Files /\ \A q \in Paths : Recorded(q, sent'[q])
    <3>1. PICK c \in {None, disk[p]} : sent' \in {sent, [sent EXCEPT ![p] = c]}
      BY <2>3
    <3>2. c \in Contents0 /\ Known(p, c)
      BY <1>c, <1>r, <2>2, <3>1
    <3>3. /\ sent' \in Files /\ (\A q \in Paths \ {p} : sent'[q] = sent[q]) /\ sent'[p] \in {sent[p], c}
      BY <1>r, <3>1, <3>2 DEF Files
    <3> QED
      BY <1>h, <1>r, <3>2, <3>3
  <2>6. refused' \in Files
    BY <1>c, <1>r, <2>2, <2>3 DEF Files
  <2> QED
    BY <2>4, <2>5, <2>6
<1> QED
  BY <1>0, <1>1, <1>2, <1>3, <1>4, <1>5, <1>6, <1>7, StoreTouched DEF StoreSteps

-----------------------------------------------------------------------------
(* The server, the worker and the bounds.                                   *)

LEMMA SetupStays ==
  ASSUME [Next]_vars
  PROVE  UNCHANGED setup
<1>1. CASE SyncStep
  BY <1>1 DEF SyncStep, Scan, List, ListFails, HoldDelete, AskDelete, Confirm, DeleteAnswered,
     DeleteUnanswered, GoneOnBothSides, RemoveLocal, PushNew, Pull, Adopt, PushChange, InStep,
     PathsDone, PullWrites, PullSkips, PullsDone, RefuseFolder, Stamp, FullList, Fill, Filled
<1>2. CASE \E o \in Owners : UploadStep(o)
  BY <1>2 DEF UploadStep, UploadRead, UploadAnswered, UploadUnanswered
<1>3. CASE Teardown
  BY <1>3 DEF Teardown, Finish, RunFails, FinishCutOff, FlushScan, FlushList, FlushDone,
     FlushCutOff, Dispose, FlushStart
<1>4. CASE SyncIfDue \/ \E p \in InUse : OtherClient(p) \/ Age(p)
  BY <1>4 DEF SyncIfDue, OtherClient, Age
<1>5. CASE Agent
  BY <1>5 DEF Agent, WipeFiles, WipeFolder, SwapFolder, Edit, Remove, AgentActs, AgentLeaves
<1> QED
  BY <1>1, <1>2, <1>3, <1>4, <1>5 DEF Next, vars

LEMMA BudgetStep ==
  ASSUME RestTyped, [Next]_vars
  PROVE  edits' \in Nat /\ others' \in Nat /\ faults' \in Nat
<1>t. edits \in Nat /\ others \in Nat /\ faults \in Nat
  BY DEF RestTyped
<1>f. Fault => faults' \in Nat
  BY <1>t DEF Fault
<1>1. CASE SyncStep
  BY <1>1, <1>t, <1>f DEF SyncStep, Scan, List, ListFails, HoldDelete, AskDelete, Confirm,
     DeleteAnswered, DeleteUnanswered, GoneOnBothSides, RemoveLocal, PushNew, Pull, Adopt,
     PushChange, InStep, PathsDone, PullWrites, PullSkips, PullsDone, RefuseFolder, Stamp, FullList,
     Fill, Filled, NoFault, budgets
<1>2. CASE \E o \in Owners : UploadStep(o)
  BY <1>2, <1>t, <1>f DEF UploadStep, UploadRead, UploadAnswered, UploadUnanswered, NoFault, budgets
<1>3. CASE Teardown
  BY <1>3, <1>t, <1>f DEF Teardown, Finish, RunFails, FinishCutOff, FlushScan, FlushList, FlushDone,
     FlushCutOff, Dispose, FlushStart, NoFault, budgets
<1>4. CASE SyncIfDue \/ \E p \in InUse : OtherClient(p) \/ Age(p)
  BY <1>4, <1>t DEF SyncIfDue, OtherClient, Age, budgets
<1>5. CASE Agent
  BY <1>5, <1>t DEF Agent, WipeFiles, WipeFolder, SwapFolder, Edit, Remove, AgentActs, AgentLeaves
<1> QED
  BY <1>t, <1>1, <1>2, <1>3, <1>4, <1>5 DEF Next, vars, budgets

LEMMA LifeStep ==
  ASSUME RestTyped, [Next]_vars
  PROVE  life' \in {"download", "running", "finish", "flush", "dispose", "disposed", "failed"}
<1>t. life \in {"download", "running", "finish", "flush", "dispose", "disposed", "failed"}
  BY DEF RestTyped
<1>1. CASE SyncStep
  BY <1>1, <1>t DEF SyncStep, Scan, List, ListFails, HoldDelete, AskDelete, Confirm, DeleteAnswered,
     DeleteUnanswered, GoneOnBothSides, RemoveLocal, PushNew, Pull, Adopt, PushChange, InStep,
     PathsDone, PullWrites, PullSkips, PullsDone, RefuseFolder, Stamp, FullList, Fill, Filled,
     EndPass, DownloadFails, PassFails
<1>2. CASE \E o \in Owners : UploadStep(o)
  BY <1>2, <1>t DEF UploadStep, UploadRead, UploadAnswered, UploadUnanswered
<1>3. CASE Teardown
  BY <1>3, <1>t DEF Teardown, Finish, RunFails, FinishCutOff, FlushScan, FlushList, FlushDone,
     FlushCutOff, Dispose, FlushStart, FlushEnds
<1>4. CASE SyncIfDue \/ \E p \in InUse : OtherClient(p) \/ Age(p)
  BY <1>4, <1>t DEF SyncIfDue, OtherClient, Age
<1>5. CASE Agent
  BY <1>5, <1>t DEF Agent, WipeFiles, WipeFolder, SwapFolder, Edit, Remove, AgentActs, AgentLeaves
<1> QED
  BY <1>t, <1>1, <1>2, <1>3, <1>4, <1>5 DEF Next, vars

\* What a step may do to the memories: one of them changes, or who wrote them is forgotten.
RemoteChanges ==
  \/ UNCHANGED remote
  \/ remote' \in [Paths -> Memory] /\ \A p \in Paths : remote'[p].sha = remote[p].sha
  \/ \E p \in Paths, m \in Memory : remote' = [remote EXCEPT ![p] = m]

LEMMA UploadedDoes ==
  ASSUME RestTyped, NEW p \in Paths, NEW c \in Contents0, Uploaded(p, c)
  PROVE  RemoteChanges
<1>1. CASE remote' = remote
  BY <1>1 DEF RemoteChanges
<1>2. CASE remote' = [remote EXCEPT ![p] = [id |-> IF @.sha = None THEN @.id + 1 ELSE @.id, sha |-> c,
                                            by |-> "us"]]
  <2> DEFINE m == [id |-> IF remote[p].sha = None THEN remote[p].id + 1 ELSE remote[p].id, sha |-> c,
                   by |-> "us"]
  <2>1. remote[p] \in Memory
    BY DEF RestTyped
  <2>2. m \in Memory
    BY <2>1 DEF Memory
  <2>3. remote' = [remote EXCEPT ![p] = m]
    BY <1>2 DEF RestTyped
  <2> QED
    BY <2>2, <2>3 DEF RemoteChanges
<1> QED
  BY <1>1, <1>2 DEF Uploaded

LEMMA RemoteStep ==
  ASSUME SyncInv, [Next]_vars
  PROVE  RemoteChanges
<1>t. RestTyped /\ PassTyped /\ UpTyped /\ None \in Contents0 /\ InUse \subseteq Paths
  BY Parts, NamesInUse, Constants DEF SyncInv, RestTyped
<1>1. CASE SyncStep
  <2>1. CASE DeleteAnswered \/ DeleteUnanswered
    <3>1. CASE DeletedRemotely
      <4>1. at \in Paths
        BY <1>t, <2>1 DEF DeleteAnswered, DeleteUnanswered, SyncInv, InPlace
      <4> DEFINE m == [remote[at] EXCEPT !.sha = None, !.by = "us"]
      <4>2. remote[at] \in Memory
        BY <1>t, <4>1 DEF RestTyped
      <4>3. m \in Memory
        BY <1>t, <4>2 DEF Memory
      <4> QED
        BY <3>1, <4>1, <4>3 DEF DeletedRemotely, RemoteChanges
    <3> QED
      BY <2>1, <3>1 DEF DeleteAnswered, DeleteUnanswered, RemoteChanges
  <2>2. CASE Stamp
    <3>1. remote' = [p \in Paths |-> [remote[p] EXCEPT !.by = "other"]]
      BY <2>2 DEF Stamp
    <3>2. ASSUME NEW m \in Memory
          PROVE  [m EXCEPT !.by = "other"] \in Memory /\ [m EXCEPT !.by = "other"].sha = m.sha
      BY DEF Memory
    <3> QED
      BY <1>t, <3>1, <3>2 DEF RemoteChanges, RestTyped
  <2> QED
    BY <1>1, <2>1, <2>2 DEF RemoteChanges, SyncStep, Scan, List, ListFails, HoldDelete, AskDelete,
       Confirm, DeleteAnswered, DeleteUnanswered, GoneOnBothSides, RemoveLocal, PushNew, Pull,
       Adopt, PushChange, InStep, PathsDone, PullWrites, PullSkips, PullsDone, RefuseFolder,
       FullList, Fill, Filled
<1>2. CASE \E o \in Owners : UploadStep(o)
  <2>1. PICK o \in Owners, p \in Paths : UploadRead(o, p) \/ UploadAnswered(o, p) \/ UploadUnanswered(o, p)
    BY <1>2 DEF UploadStep
  <2>2. up[o][p].data \in Contents0
    BY <1>t DEF UpTyped, Upload
  <2>3. Uploaded(p, up[o][p].data) \/ UNCHANGED remote
    BY <2>1 DEF UploadRead, UploadAnswered, UploadUnanswered
  <2> QED
    BY <1>t, <2>2, <2>3, UploadedDoes DEF RemoteChanges
<1>3. CASE Teardown
  BY <1>3 DEF RemoteChanges, Teardown, Finish, RunFails, FinishCutOff, FlushScan, FlushList,
     FlushDone, FlushCutOff, Dispose, FlushStart
<1>4. CASE \E p \in InUse : OtherClient(p)
  <2>0. PICK p \in InUse : OtherClient(p)
    BY <1>4
  <2>1. PICK c \in Contents0 :
          remote' = [remote EXCEPT ![p] =
                      [id |-> IF @.sha = None THEN @.id + 1 ELSE @.id, sha |-> c, by |-> "other"]]
    BY <2>0 DEF OtherClient
  <2> DEFINE m == [id |-> IF remote[p].sha = None THEN remote[p].id + 1 ELSE remote[p].id, sha |-> c,
                   by |-> "other"]
  <2>2. remote[p] \in Memory /\ p \in Paths
    BY <1>t DEF RestTyped
  <2>3. m \in Memory
    BY <2>2 DEF Memory
  <2>4. remote' = [remote EXCEPT ![p] = m]
    BY <1>t, <2>1, <2>2 DEF RestTyped
  <2> QED
    BY <2>2, <2>3, <2>4 DEF RemoteChanges
<1>5. CASE Agent \/ SyncIfDue \/ \E p \in InUse : Age(p)
  BY <1>5 DEF RemoteChanges, SyncIfDue, Age, Agent, WipeFiles, WipeFolder, SwapFolder, Edit, Remove,
     AgentActs, AgentLeaves
<1> QED
  BY <1>1, <1>2, <1>3, <1>4, <1>5 DEF Next, vars, RemoteChanges

LEMMA OvertakenStep ==
  ASSUME RestTyped, [Next]_vars
  PROVE  overtaken' \subseteq Paths
<1>t. overtaken \subseteq Paths /\ InUse \subseteq Paths
  BY NamesInUse DEF RestTyped
<1>1. CASE SyncStep
  BY <1>1, <1>t DEF SyncStep, Scan, List, ListFails, HoldDelete, AskDelete, Confirm, DeleteAnswered, DeleteUnanswered,
     GoneOnBothSides, RemoveLocal, PushNew, Pull, Adopt, PushChange, InStep, PathsDone, PullWrites, PullSkips,
     PullsDone, RefuseFolder, Stamp, FullList, Fill, Filled, Wrote, ghosts
<1>2. CASE \E o \in Owners : UploadStep(o)
  BY <1>2, <1>t DEF UploadStep, UploadRead, UploadAnswered, UploadUnanswered, ghosts
<1>3. CASE FlushList
  BY <1>3, <1>t DEF FlushList
<1>4. CASE Teardown /\ ~FlushList
  BY <1>4, <1>t DEF Teardown, Finish, RunFails, FinishCutOff, FlushScan, FlushDone, FlushCutOff, Dispose,
     FlushStart, ghosts
<1>5. CASE \E p \in InUse : OtherClient(p)
  BY <1>5, <1>t DEF OtherClient
<1>6. CASE SyncIfDue \/ Agent \/ \E p \in InUse : Age(p)
  BY <1>6, <1>t DEF SyncIfDue, Age, Agent, WipeFiles, WipeFolder, SwapFolder, Edit, Remove, AgentLeaves, ghosts
<1> QED
  BY <1>t, <1>1, <1>2, <1>3, <1>4, <1>5, <1>6 DEF Next, vars, ghosts

LEMMA RestStep ==
  ASSUME SyncInv, [Next]_vars
  PROVE  RestTyped'
<1>t. RestTyped
  BY Parts DEF SyncInv
<1>1. remote' \in [Paths -> Memory]
  BY <1>t, RemoteStep DEF RemoteChanges, RestTyped
<1> QED
  BY <1>t, <1>1, SetupStays, BudgetStep, LifeStep, OvertakenStep DEF RestTyped

-----------------------------------------------------------------------------
(* The flush, and the uploads of both.                                      *)

\* What the flush read when it looked at the folder, and that it may write.
FlushBooks == KnownInFlush /\ (fpc \in {"list", "upload"} => ~setup.readOnly)

LEMMA FlushStep ==
  ASSUME SyncInv, [Next]_vars
  PROVE  FlushTyped' /\ FlushBooks'
<1>t. FlushTyped /\ FlushBooks /\ KnownInFolder /\ FolderTyped
  BY Parts DEF SyncInv, FlushBooks, Writing
<1>s. UNCHANGED setup
  BY SetupStays
<1>h. HeldGrows /\ \A p \in Paths : \A c : Known(p, c) => Recorded(p, c)
  BY FolderStep DEF Known, Recorded, HeldGrows
<1>c. NoFiles \in Files /\ \A p \in Paths : NoFiles[p] = None
  BY Constants
<1>0. ASSUME fscan' \in {fscan, NoFiles, disk}, todo' \subseteq Paths, cut' \in BOOLEAN,
             fpc' \in {"off", "scan", "list", "upload", "done"},
             fpc' \in {"list", "upload"} => fpc \in {"list", "upload"} \/ ~setup.readOnly
      PROVE  FlushTyped' /\ FlushBooks'
  <2>1. fscan' \in Files
    BY <1>0, <1>c, <1>t DEF FlushTyped, FolderTyped
  <2>2. ASSUME NEW p \in Paths PROVE Recorded(p, fscan'[p])
    <3>1. Known(p, fscan[p]) /\ Known(p, NoFiles[p]) /\ Known(p, disk[p])
      BY <1>c, <1>t DEF FlushBooks, KnownInFlush, KnownInFolder, Known
    <3> QED
      BY <1>0, <1>h, <3>1
  <2> QED
    BY <1>0, <1>s, <1>t, <2>1, <2>2 DEF FlushTyped, FlushBooks, KnownInFlush, Known, Recorded
<1>1. CASE UNCHANGED <<fscan, todo, cut>> /\ fpc' \in {fpc, "scan"}
  BY <1>0, <1>1, <1>t DEF FlushTyped
<1>2. CASE SyncStep
  <2>1. UNCHANGED <<fscan, todo, cut>>
    BY <1>2 DEF SyncStep, Scan, List, ListFails, HoldDelete, AskDelete, Confirm, DeleteAnswered,
       DeleteUnanswered, GoneOnBothSides, RemoveLocal, PushNew, Pull, Adopt, PushChange, InStep,
       PathsDone, PullWrites, PullSkips, PullsDone, RefuseFolder, Stamp, FullList, Fill, Filled,
       flush
  <2>2. fpc' \in {fpc, "scan"}
    BY <1>2 DEF SyncStep, Scan, List, ListFails, HoldDelete, AskDelete, Confirm, DeleteAnswered,
       DeleteUnanswered, GoneOnBothSides, RemoveLocal, PushNew, Pull, Adopt, PushChange, InStep,
       PathsDone, PullWrites, PullSkips, PullsDone, RefuseFolder, Stamp, FullList, Fill, Filled,
       EndPass, DownloadFails, PassFails, flush
  <2> QED
    BY <1>1, <2>1, <2>2
<1>3. CASE \E o \in Owners : UploadStep(o)
  BY <1>3, <1>1 DEF UploadStep, UploadRead, UploadAnswered, UploadUnanswered, flush
<1>4. CASE Teardown
  <2>1. CASE FlushScan
    <3>1. Dirty(disk) \subseteq Paths
      BY DEF Dirty, Present
    <3> QED
      BY <1>0, <1>t, <2>1, <3>1 DEF FlushScan, FlushEnds, FlushTyped
  <2>2. CASE FlushList
    BY <1>0, <1>t, <2>2 DEF FlushList, FlushEnds, FlushTyped
  <2>3. CASE FlushDone \/ FlushCutOff
    BY <1>0, <1>t, <2>3 DEF FlushDone, FlushCutOff, FlushEnds, FlushTyped
  <2>4. CASE Finish \/ RunFails \/ FinishCutOff \/ Dispose \/ \E p \in Paths : FlushStart(p)
    BY <1>1, <2>4 DEF Finish, RunFails, FinishCutOff, Dispose, FlushStart, flush
  <2> QED
    BY <1>4, <2>1, <2>2, <2>3, <2>4 DEF Teardown
<1>5. CASE Agent \/ SyncIfDue \/ \E p \in InUse : OtherClient(p) \/ Age(p)
  BY <1>5, <1>1 DEF SyncIfDue, OtherClient, Age, Agent, WipeFiles, WipeFolder, SwapFolder, Edit,
     Remove, AgentActs, AgentLeaves, flush
<1> QED
  BY <1>1, <1>2, <1>3, <1>4, <1>5 DEF Next, vars, flush

\* One upload is replaced.
LEMMA UploadBecomes ==
  ASSUME UpTyped, NEW o \in Owners, NEW p \in Paths, NEW u \in Upload, up' = [up EXCEPT ![o][p] = u]
  PROVE  /\ UpTyped' /\ up'[o][p] = u
         /\ \A v \in Owners, q \in Paths : v # o \/ q # p => up'[v][q] = up[v][q]
  BY DEF UpTyped

\* The record of an upload that starts.
LEMMA StartedUpload ==
  ASSUME NEW c \in Contents0, NEW m \in Memory
  PROVE  LET u == [st |-> "read", item |-> m, local |-> c, data |-> None]
         IN  u \in Upload /\ u.data = None /\ u.item = m
  BY Constants DEF Upload

\* What an upload may hold, and that a store that is only read has none.
UpBooks == KnownInUp /\ \A o \in Owners, p \in Paths : up[o][p].st # "none" => ~setup.readOnly

LEMMA UpKeeps ==
  ASSUME SyncInv, HeldGrows, UNCHANGED setup, NEW o \in Owners, NEW p \in Paths, NEW u \in Upload,
         up' = [up EXCEPT ![o][p] = u], Known(p, u.data), Known(p, u.item.sha),
         u.st = "none" \/ up[o][p].st # "none" \/ ~setup.readOnly
  PROVE  UpTyped' /\ UpBooks'
<1>t. UpTyped /\ UpBooks
  BY Parts DEF SyncInv, UpBooks, Writing
<1>1. /\ UpTyped' /\ up'[o][p] = u
      /\ \A v \in Owners, q \in Paths : v # o \/ q # p => up'[v][q] = up[v][q]
  BY <1>t, UploadBecomes
<1>2. ASSUME NEW v \in Owners, NEW q \in Paths
      PROVE  /\ Recorded(q, up'[v][q].data) /\ Recorded(q, up'[v][q].item.sha)
             /\ up'[v][q].st # "none" => ~setup.readOnly
  <2>1. \A c : Known(q, c) => Recorded(q, c)
    BY DEF Known, Recorded, HeldGrows
  <2>2. CASE v = o /\ q = p
    BY <1>1, <1>t, <2>1, <2>2 DEF UpBooks
  <2>3. CASE v # o \/ q # p
    BY <1>1, <1>t, <2>1, <2>3 DEF UpBooks, KnownInUp
  <2> QED
    BY <2>2, <2>3
<1> QED
  BY <1>1, <1>2 DEF UpBooks, KnownInUp, Known, Recorded

UpSteps ==
  \/ RemoveLocal \/ PushNew \/ PushChange \/ FlushList \/ FlushDone
  \/ \E p \in Paths : FlushStart(p)
  \/ \E o \in Owners : UploadStep(o)

LEMMA UpTouched ==
  ASSUME [Next]_vars
  PROVE  UpSteps \/ UNCHANGED up
<1>1. CASE SyncStep
  BY <1>1 DEF UpSteps, SyncStep, Scan, List, ListFails, HoldDelete, AskDelete, Confirm,
     DeleteAnswered, DeleteUnanswered, GoneOnBothSides, RemoveLocal, PushNew, Pull, Adopt,
     PushChange, InStep, PathsDone, PullWrites, PullSkips, PullsDone, RefuseFolder, Stamp, FullList,
     Fill, Filled
<1>3. CASE Teardown
  BY <1>3 DEF UpSteps, Teardown, Finish, RunFails, FinishCutOff, FlushScan, FlushList, FlushDone,
     FlushCutOff, Dispose, FlushStart
<1>4. CASE SyncIfDue \/ \E p \in InUse : OtherClient(p) \/ Age(p)
  BY <1>4 DEF SyncIfDue, OtherClient, Age
<1>5. CASE Agent
  BY <1>5 DEF Agent, WipeFiles, WipeFolder, SwapFolder, Edit, Remove, AgentActs, AgentLeaves
<1> QED
  BY <1>1, <1>3, <1>4, <1>5 DEF Next, vars, UpSteps

\* What a sync uploads was in the file, over a memory whose content was.
LEMMA PassUploads ==
  ASSUME SyncInv, [Next]_vars, RemoveLocal \/ PushNew \/ PushChange
  PROVE  /\ at \in Paths /\ at \in InUse /\ pc = "path"
         /\ \/ UNCHANGED up /\ ((\E c \in {None, Base} : Keep(c)) \/ Keep(None))
            \/ /\ \E c \in Contents0, m \in {NoMemory, Item} :
                    /\ StartUpload("sync", at, c, m)
                    /\ Known(at, m.sha)
               /\ ~setup.readOnly /\ pc' = "upload" /\ Known(at, Item.sha)
               /\ UNCHANGED <<final, scan, listed, at, next, pulls, attempted>>
<1>t. FolderTyped /\ PassTyped /\ KnownInStore /\ KnownInFolder /\ at \in InUse /\ at \in Paths /\ pc = "path"
      /\ Known(at, None) /\ NoMemory.sha = None
  BY Parts, NamesInUse, Constants DEF SyncInv, RestTyped, RemoveLocal, PushNew, PushChange, AtPath, Known
<1>1. disk[at] \in Contents0 /\ Local \in Contents0 /\ Known(at, Base)
  BY <1>t DEF FolderTyped, PassTyped, Files, Local, Base, KnownInStore
<1>2. CASE RemoveLocal
  BY <1>t, <1>1, <1>2 DEF RemoveLocal, Push
<1>3. CASE PushNew
  BY <1>t, <1>1, <1>3 DEF PushNew, Push
<1>4. CASE PushChange
  <2>1. Item.sha = Base
    BY <1>4 DEF PushChange, RemoteChanged
  <2> QED
    BY <1>t, <1>1, <1>4, <2>1 DEF PushChange, LocalChanged
<1> QED
  BY <1>2, <1>3, <1>4

LEMMA UpStep ==
  ASSUME SyncInv, [Next]_vars
  PROVE  UpTyped' /\ UpBooks'
<1>t. UpTyped /\ UpBooks /\ FlushTyped /\ FlushBooks /\ RestTyped /\ FolderTyped /\ KnownInFolder /\ PassTyped
  BY Parts DEF SyncInv, UpBooks, FlushBooks, Writing
<1>s. UNCHANGED setup
  BY SetupStays
<1>h. HeldGrows
  BY FolderStep
<1>c. NoMemory \in Memory /\ NoMemory.sha = None /\ NoUpload \in Upload /\ NoUpload.st = "none"
      /\ NoUpload.data = None /\ NoUpload.item = NoMemory /\ \A p \in Paths : Known(p, None)
  BY Constants DEF Known
<1>1. CASE UNCHANGED up
  BY <1>1, <1>s, <1>h, <1>t DEF UpTyped, UpBooks, KnownInUp, Known, HeldGrows
<1>2. CASE RemoveLocal \/ PushNew \/ PushChange
  <2>1. CASE UNCHANGED up
    BY <1>1, <2>1
  <2>2. CASE \E c \in Contents0, m \in {NoMemory, Item} :
               StartUpload("sync", at, c, m) /\ Known(at, m.sha) /\ ~setup.readOnly
    <3>1. PICK c \in Contents0, m \in {NoMemory, Item} :
            StartUpload("sync", at, c, m) /\ Known(at, m.sha) /\ ~setup.readOnly
      BY <2>2
    <3>2. at \in Paths /\ m \in Memory /\ "sync" \in Owners
      BY <1>2, <1>c, <1>t, PassUploads DEF PassTyped, Item, Owners
    <3> DEFINE u == [st |-> "read", item |-> m, local |-> c, data |-> None]
    <3>3. u \in Upload /\ u.data = None /\ u.item = m
      BY <1>t, <3>2, StartedUpload
    <3>4. up' = [up EXCEPT !["sync"][at] = u]
      BY <3>1 DEF StartUpload
    <3> HIDE DEF u
    <3> QED
      BY <1>c, <1>h, <1>s, <3>1, <3>2, <3>3, <3>4, UpKeeps
  <2> QED
    BY <1>2, <2>1, <2>2, PassUploads
<1>3. CASE FlushList
  <2>1. CASE UNCHANGED up
    BY <1>1, <2>1
  <2>2. CASE up' = [up EXCEPT !["flush"] = [p \in Paths |->
                    IF p \in todo /\ fscan[p] # baseline'[p] /\ remote[p].sha \in {None, baseline'[p]}
                      THEN [NoUpload EXCEPT !.st = "todo", !.item = IF remote[p].sha = None THEN NoMemory
                                                                    ELSE remote[p]]
                      ELSE NoUpload]]
    <3> DEFINE go(p) == p \in todo /\ fscan[p] # baseline'[p] /\ remote[p].sha \in {None, baseline'[p]}
               m(p)  == IF remote[p].sha = None THEN NoMemory ELSE remote[p]
               u(p)  == [NoUpload EXCEPT !.st = "todo", !.item = m(p)]
    <3>1. ~setup.readOnly
      BY <1>3, <1>t DEF FlushList, FlushBooks
    <3>2. ASSUME NEW p \in Paths, go(p) PROVE m(p) \in Memory /\ Recorded(p, m(p).sha)
      <4>1. Recorded(p, baseline'[p]) /\ Recorded(p, None)
        BY StoreStep DEF KnownInStore, Known, Recorded
      <4>2. remote[p] \in Memory
        BY <1>t DEF RestTyped
      <4> QED
        BY <1>c, <3>2, <4>1, <4>2
    <3>3. ASSUME NEW p \in Paths, go(p)
          PROVE  u(p) \in Upload /\ u(p).data = None /\ u(p).item = m(p)
      <4>1. ASSUME NEW mm \in Memory
            PROVE  LET x == [NoUpload EXCEPT !.st = "todo", !.item = mm]
                   IN  x \in Upload /\ x.data = None /\ x.item = mm
        BY <1>c DEF Upload
      <4> QED
        BY <3>2, <3>3, <4>1
    <3> HIDE DEF m, u
    <3>4. up' = [up EXCEPT !["flush"] = [p \in Paths |-> IF go(p) THEN u(p) ELSE NoUpload]]
      BY <2>2 DEF m, u
    <3> HIDE DEF go
    <3>5. /\ UpTyped' /\ \A q \in Paths : up'["sync"][q] = up["sync"][q]
          /\ \A q \in Paths : up'["flush"][q] = IF go(q) THEN u(q) ELSE NoUpload
      BY <1>c, <1>t, <3>3, <3>4 DEF UpTyped, Owners
    <3>6. ASSUME NEW q \in Paths
          PROVE  Recorded(q, up'["flush"][q].data) /\ Recorded(q, up'["flush"][q].item.sha)
      <4>1. Recorded(q, None)
        BY DEF Recorded
      <4> QED
        BY <1>c, <3>2, <3>3, <3>5, <4>1
    <3>7. ASSUME NEW q \in Paths
          PROVE  Recorded(q, up'["sync"][q].data) /\ Recorded(q, up'["sync"][q].item.sha)
      BY <1>h, <1>t, <3>5 DEF UpBooks, KnownInUp, Owners, Known, Recorded, HeldGrows
    <3> QED
      BY <1>s, <3>1, <3>5, <3>6, <3>7 DEF UpBooks, KnownInUp, Owners, Known, Recorded
  <2> QED
    BY <1>3, <2>1, <2>2 DEF FlushList
<1>4. CASE FlushDone
  <2>1. up' = [up EXCEPT !["flush"] = [p \in Paths |-> NoUpload]]
    BY <1>4 DEF FlushDone
  <2>2. UpTyped' /\ \A o \in Owners, p \in Paths : up'[o][p] \in {up[o][p], NoUpload}
    BY <1>c, <1>t, <2>1 DEF UpTyped, Owners
  <2> QED
    BY <1>c, <1>h, <1>s, <1>t, <2>2 DEF UpBooks, KnownInUp, Known, HeldGrows
<1>5. CASE \E p \in Paths : FlushStart(p)
  <2>1. PICK p \in Paths : FlushStart(p)
    BY <1>5
  <2> DEFINE m == up["flush"][p].item
             u == [st |-> "read", item |-> m, local |-> fscan[p], data |-> None]
  <2>2. m \in Memory /\ Known(p, m.sha) /\ fscan[p] \in Contents0 /\ "flush" \in Owners
    BY <1>t DEF UpTyped, Upload, UpBooks, KnownInUp, FlushTyped, Files, Owners
  <2>3. up' = [up EXCEPT !["flush"][p] = u] /\ up["flush"][p].st # "none"
    BY <2>1 DEF FlushStart, StartUpload
  <2>4. u \in Upload /\ u.data = None /\ u.item = m
    BY <1>t, <2>2, StartedUpload
  <2> HIDE DEF m, u
  <2> QED
    BY <1>c, <1>h, <1>s, <2>2, <2>3, <2>4, UpKeeps
<1>6. CASE \E o \in Owners : UploadStep(o)
  <2>1. PICK o \in Owners, p \in Paths : UploadRead(o, p) \/ UploadAnswered(o, p) \/ UploadUnanswered(o, p)
    BY <1>6 DEF UploadStep
  <2>2. up[o][p] \in Upload /\ up[o][p].st # "none"
    BY <1>t, <2>1 DEF UpTyped, UploadRead, UploadAnswered, UploadUnanswered
  <2>3. \/ up' = [up EXCEPT ![o][p] = NoUpload]
        \/ up' = [up EXCEPT ![o][p].st = "sent", ![o][p].data = disk[p]]
        \/ up' = [up EXCEPT ![o][p] = [st |-> "read", item |-> NoMemory, local |-> up[o][p].local,
                                       data |-> None]]
        \/ up' = [up EXCEPT ![o][p] = [NoUpload EXCEPT !.st = IF o = "flush" THEN "lost" ELSE "none"]]
    BY <2>1 DEF UploadRead, UploadAnswered, UploadUnanswered, UploadEnds, UploadLost, StartUpload
  <2>4. CASE up' = [up EXCEPT ![o][p] = NoUpload]
    BY <1>c, <1>h, <1>s, <2>4, UpKeeps
  <2>5. CASE up' = [up EXCEPT ![o][p].st = "sent", ![o][p].data = disk[p]]
    <3> DEFINE u == [up[o][p] EXCEPT !.st = "sent", !.data = disk[p]]
    <3>1. disk[p] \in Contents0 /\ Known(p, disk[p]) /\ Known(p, up[o][p].item.sha)
      BY <1>t DEF FolderTyped, Files, KnownInFolder, UpBooks, KnownInUp
    <3>2. u \in Upload /\ u.data = disk[p] /\ u.item = up[o][p].item
      BY <2>2, <3>1 DEF Upload
    <3>3. up' = [up EXCEPT ![o][p] = u]
      BY <1>t, <2>5 DEF UpTyped
    <3> HIDE DEF u
    <3> QED
      BY <1>h, <1>s, <2>2, <3>1, <3>2, <3>3, UpKeeps
  <2>6. CASE up' = [up EXCEPT ![o][p] = [st |-> "read", item |-> NoMemory, local |-> up[o][p].local,
                                         data |-> None]]
    <3> DEFINE u == [st |-> "read", item |-> NoMemory, local |-> up[o][p].local, data |-> None]
    <3>1. u \in Upload /\ u.data = None /\ u.item = NoMemory
      BY <1>c, <1>t, <2>2, StartedUpload DEF Upload
    <3>2. up' = [up EXCEPT ![o][p] = u]
      BY <2>6
    <3> HIDE DEF u
    <3> QED
      BY <1>c, <1>h, <1>s, <2>2, <3>1, <3>2, UpKeeps
  <2>7. CASE up' = [up EXCEPT ![o][p] = [NoUpload EXCEPT !.st = IF o = "flush" THEN "lost" ELSE "none"]]
    <3> DEFINE u == [NoUpload EXCEPT !.st = IF o = "flush" THEN "lost" ELSE "none"]
    <3>1. u \in Upload /\ u.data = None /\ u.item = NoMemory
      BY <1>c DEF Upload
    <3>2. up' = [up EXCEPT ![o][p] = u]
      BY <2>7
    <3> HIDE DEF u
    <3> QED
      BY <1>c, <1>h, <1>s, <2>2, <3>1, <3>2, UpKeeps
  <2> QED
    BY <2>3, <2>4, <2>5, <2>6, <2>7
<1> QED
  BY <1>1, <1>2, <1>3, <1>4, <1>5, <1>6, UpTouched DEF UpSteps

-----------------------------------------------------------------------------
(* The pass of a sync.                                                      *)

PassBooks ==
  /\ PassTyped /\ KnownInPass /\ Attempts /\ InPlace /\ IdleIsTidy /\ OneUpload /\ Downloading
  /\ pc \in {"confirm", "delete"} => ~setup.readOnly

LEMMA NoNewDownload ==
  ASSUME [Next]_vars
  PROVE  life' = "download" => life = "download"
<1>1. CASE SyncStep
  BY <1>1 DEF SyncStep, Scan, List, ListFails, HoldDelete, AskDelete, Confirm, DeleteAnswered,
     DeleteUnanswered, GoneOnBothSides, RemoveLocal, PushNew, Pull, Adopt, PushChange, InStep,
     PathsDone, PullWrites, PullSkips, PullsDone, RefuseFolder, Stamp, FullList, Fill, Filled,
     EndPass, DownloadFails, PassFails
<1>2. CASE \E o \in Owners : UploadStep(o)
  BY <1>2 DEF UploadStep, UploadRead, UploadAnswered, UploadUnanswered
<1>3. CASE Teardown
  BY <1>3 DEF Teardown, Finish, RunFails, FinishCutOff, FlushScan, FlushList, FlushDone,
     FlushCutOff, Dispose, FlushStart, FlushEnds
<1>4. CASE SyncIfDue \/ \E p \in InUse : OtherClient(p) \/ Age(p)
  BY <1>4 DEF SyncIfDue, OtherClient, Age
<1>5. CASE Agent
  BY <1>5 DEF Agent, WipeFiles, WipeFolder, SwapFolder, Edit, Remove, AgentActs, AgentLeaves
<1> QED
  BY <1>1, <1>2, <1>3, <1>4, <1>5 DEF Next, vars

LEMMA PassFacts ==
  ASSUME SyncInv
  PROVE  /\ PassBooks /\ InUse \subseteq Paths /\ NPaths \in Nat /\ Paths = 1..NPaths
         /\ at \in Nat /\ attempted \in Nat /\ setup \in Setups
<1>1. PassBooks /\ setup \in Setups
  BY Parts DEF SyncInv, PassBooks, Writing, RestTyped
<1>2. NPaths \in Nat /\ InUse \subseteq Paths
  BY <1>1, NamesInUse
<1> QED
  BY <1>1, <1>2 DEF PassBooks, PassTyped, Paths

\* A pass that goes on without an upload.
LEMMA PassMoves ==
  ASSUME SyncInv, [Next]_vars, \A p \in Paths : up'["sync"][p].st = "none",
         pc' \in {"idle", "scan", "list", "path", "confirm", "delete", "pull", "open", "full", "fill"},
         scan' \in Files, next' \in Files, listed' \in [Paths -> Memory],
         \A p \in Paths : Recorded(p, scan'[p]) /\ Recorded(p, next'[p]),
         final' \in BOOLEAN, at' \in 1..NPaths + 1, pulls' \subseteq Paths, attempted' \in 0..NPaths,
         Attempts', InPlace', IdleIsTidy', Downloading',
         pc' \in {"confirm", "delete"} => ~setup.readOnly
  PROVE  PassBooks'
  BY SetupStays DEF PassBooks, PassTyped, KnownInPass, OneUpload, Known, Recorded

\* A path is done.
LEMMA PassKeeps ==
  ASSUME SyncInv, [Next]_vars, at \in InUse, pc \in {"path", "confirm", "delete", "upload"},
         NEW c \in Contents0, Known(at, c), Keep(c), pulls' \subseteq Paths,
         \A p \in Paths : up'["sync"][p].st = "none"
  PROVE  PassBooks'
<1>t. PassBooks /\ HeldGrows /\ at \in Paths /\ Paths = 1..NPaths /\ NPaths \in Nat
  BY PassFacts, FolderStep
<1>1. /\ next' = [next EXCEPT ![at] = c] /\ at' = at + 1 /\ pc' = "path"
      /\ UNCHANGED <<final, scan, listed, attempted>>
  BY DEF Keep
<1>2. /\ next' \in Files /\ next'[at] = c /\ \A q \in Paths \ {at} : next'[q] = next[q]
  BY <1>t, <1>1 DEF PassBooks, PassTyped, Files
<1>3. \A p \in Paths : Recorded(p, scan'[p]) /\ Recorded(p, next'[p])
  BY <1>t, <1>1, <1>2 DEF PassBooks, KnownInPass, Known, Recorded, HeldGrows
<1>4. at' \in 1..NPaths + 1
  BY <1>t, <1>1
<1>5. attempted \in Nat /\ attempted <= at
  BY <1>t DEF PassBooks, PassTyped, Attempts
<1>6. Attempts' /\ InPlace' /\ IdleIsTidy'
  BY <1>t, <1>1, <1>5 DEF Attempts, InPlace, IdleIsTidy
<1>7. Downloading'
  BY <1>t, NoNewDownload DEF PassBooks, Downloading
<1> QED
  BY <1>t, <1>1, <1>2, <1>3, <1>4, <1>6, <1>7, PassMoves DEF PassBooks, PassTyped

\* A pass ends, or never comes to run.
LEMMA PassEnds ==
  ASSUME SyncInv, [Next]_vars, \A p \in Paths : up'["sync"][p].st = "none",
         \/ EndPass /\ pc \notin {"open", "full", "fill"}
         \/ EndPass /\ life # "download"
         \/ DownloadFails /\ life = "download"
  PROVE  PassBooks'
<1>t. PassBooks /\ NPaths \in Nat
  BY PassFacts
<1>c. NoFiles \in Files /\ NoMemories \in [Paths -> Memory] /\ \A p \in Paths : NoFiles[p] = None
  BY Constants
<1>1. life' # "download"
  BY <1>t, NoNewDownload DEF PassBooks, Downloading, EndPass, DownloadFails
<1>2. /\ pc' = "idle" /\ scan' = NoFiles /\ listed' = NoMemories /\ at' = 1
      /\ next' \in {next, NoFiles} /\ pulls' = {} /\ final' = FALSE /\ attempted' = 0
  BY <1>t DEF EndPass, DownloadFails, PassBooks, Downloading, Attempts
<1>3. \A p \in Paths : Recorded(p, scan'[p]) /\ Recorded(p, next'[p])
  BY <1>t, <1>c, <1>2, FolderStep DEF PassBooks, KnownInPass, Known, Recorded, HeldGrows
<1>4. Attempts' /\ InPlace' /\ IdleIsTidy' /\ Downloading'
  BY <1>1, <1>2 DEF Attempts, InPlace, IdleIsTidy, Downloading
<1>5. at' \in 1..NPaths + 1 /\ attempted' \in 0..NPaths
  BY <1>t, <1>2
<1>6. next \in Files
  BY <1>t DEF PassBooks, PassTyped
<1>7. scan' \in Files /\ next' \in Files /\ listed' \in [Paths -> Memory] /\ pulls' \subseteq Paths
  BY <1>c, <1>2, <1>6
<1>8. final' \in BOOLEAN
  BY <1>2
<1> QED
  BY <1>2, <1>3, <1>4, <1>5, <1>7, <1>8, PassMoves

\* Nothing of the pass changes but, at most, the upload it waits for.
LEMMA PassStays ==
  ASSUME SyncInv, [Next]_vars, UNCHANGED pass,
         \A p \in Paths : up'["sync"][p].st # "none" => up["sync"][p].st # "none"
  PROVE  PassBooks'
<1>t. PassBooks /\ HeldGrows /\ UNCHANGED setup /\ Paths = 1..NPaths
  BY PassFacts, FolderStep, SetupStays
<1>1. PassTyped' /\ Attempts' /\ InPlace' /\ IdleIsTidy' /\ OneUpload' /\ Downloading'
  BY <1>t, NoNewDownload DEF pass, PassBooks, PassTyped, Attempts, InPlace, InUse, IdleIsTidy, OneUpload, Downloading
<1>2. pc = "upload" => at \in Paths
  BY <1>t, PassFacts DEF PassBooks, InPlace
<1>3. KnownInPass'
  BY <1>t, <1>2 DEF pass, PassBooks, KnownInPass, Known, HeldGrows
<1> QED
  BY <1>t, <1>1, <1>3 DEF pass, PassBooks

\* The uploads that the pass waits for.
LEMMA UploadPassStep ==
  ASSUME SyncInv, [Next]_vars, NEW o \in Owners, UploadStep(o)
  PROVE  PassBooks'
<1>t. PassBooks /\ UpTyped /\ UpBooks /\ RestTyped
  BY PassFacts, Parts DEF SyncInv, UpBooks, Writing
<1>1. PICK p \in Paths : UploadRead(o, p) \/ UploadAnswered(o, p) \/ UploadUnanswered(o, p)
  BY DEF UploadStep
<1>2. up[o][p] \in Upload /\ up[o][p].st # "none" /\ UNCHANGED pulls
  BY <1>t, <1>1 DEF UpTyped, UploadRead, UploadAnswered, UploadUnanswered
<1>3. CASE o = "flush"
  <2>1. UNCHANGED pass
    BY <1>1, <1>3 DEF UploadRead, UploadAnswered, UploadUnanswered, UploadEnds, UploadLost, pass
  <2>2. \A q \in Paths : up'["sync"][q] = up["sync"][q]
    <3>1. \E u : up' = [up EXCEPT !["flush"][p] = u]
      <4>1. CASE up' = [up EXCEPT !["flush"][p].st = "sent", !["flush"][p].data = disk[p]]
        <5>1. up' = [up EXCEPT !["flush"][p] = [up["flush"][p] EXCEPT !.st = "sent", !.data = disk[p]]]
          BY <1>t, <1>3, <4>1 DEF UpTyped
        <5> QED
          BY <5>1
      <4> QED
        BY <1>1, <1>3, <4>1 DEF UploadRead, UploadAnswered, UploadUnanswered, UploadEnds, UploadLost, StartUpload
    <3> QED
      BY <1>t, <3>1 DEF UpTyped, Owners
  <2> QED
    BY <2>1, <2>2, PassStays
<1>4. CASE o = "sync"
  <2>1. pc = "upload" /\ at = p /\ at \in InUse
    BY <1>2, <1>4, <1>t DEF PassBooks, OneUpload, InPlace
  <2>2. Known(at, Item.sha) /\ Item.sha \in Contents0 /\ Known(at, up[o][p].data) /\ up[o][p].data \in Contents0
    BY <1>2, <1>t, <2>1 DEF PassBooks, KnownInPass, PassTyped, Memory, Item, UpBooks, KnownInUp, Upload
  <2>3. CASE /\ \E c \in {Item.sha, up[o][p].data} : Keep(c)
             /\ \/ up' = [up EXCEPT ![o][p] = NoUpload]
                \/ up' = [up EXCEPT ![o][p] = [NoUpload EXCEPT !.st = "none"]]
    <3>1. [NoUpload EXCEPT !.st = "none"] = NoUpload /\ NoUpload.st = "none"
      BY Constants DEF Upload
    <3>2. \A q \in Paths : up'["sync"][q].st = "none"
      BY <1>4, <1>t, <2>1, <2>3, <3>1 DEF UpTyped, PassBooks, OneUpload
    <3>3. pulls' \subseteq Paths
      BY <1>2, <1>t DEF PassBooks, PassTyped
    <3> QED
      BY <2>1, <2>2, <2>3, <3>2, <3>3, PassKeeps
  <2>4. CASE UNCHANGED pass /\ \E u : up' = [up EXCEPT ![o][p] = u]
    <3>1. \A q \in Paths : up'["sync"][q].st # "none" => up["sync"][q].st # "none"
      BY <1>2, <1>4, <1>t, <2>4 DEF UpTyped
    <3> QED
      BY <2>4, <3>1, PassStays
  <2>5. CASE UploadRead(o, p)
    <3>1. CASE disk[p] = None
      BY <1>4, <2>3, <2>5, <3>1 DEF UploadRead, UploadEnds
    <3>2. CASE disk[p] # None
      <4>1. up' = [up EXCEPT ![o][p].st = "sent", ![o][p].data = disk[p]] /\ UNCHANGED pass
        BY <2>5, <3>2 DEF UploadRead, pass
      <4>2. up' = [up EXCEPT ![o][p] = [up[o][p] EXCEPT !.st = "sent", !.data = disk[p]]]
        BY <1>t, <4>1 DEF UpTyped
      <4> QED
        BY <2>4, <4>1, <4>2
    <3> QED
      BY <3>1, <3>2
  <2>6. CASE UploadAnswered(o, p)
    <3>1. \/ \E c \in {None, up[o][p].data} : UploadEnds(o, p, c)
          \/ StartUpload(o, p, up[o][p].local, NoMemory) /\ UNCHANGED pass
      BY <2>6 DEF UploadAnswered, pass
    <3>2. CASE \E c \in {None, up[o][p].data} : UploadEnds(o, p, c)
      BY <1>4, <2>3, <3>2 DEF UploadEnds
    <3>3. CASE StartUpload(o, p, up[o][p].local, NoMemory) /\ UNCHANGED pass
      BY <2>4, <3>3 DEF StartUpload
    <3> QED
      BY <3>1, <3>2, <3>3
  <2>7. CASE UploadUnanswered(o, p)
    BY <1>4, <2>3, <2>7 DEF UploadUnanswered, UploadLost
  <2> QED
    BY <1>1, <2>5, <2>6, <2>7
<1> QED
  BY <1>3, <1>4 DEF Owners

\* A path that is visited.
LEMMA PathStep ==
  ASSUME SyncInv, [Next]_vars,
         \/ HoldDelete \/ AskDelete \/ Confirm \/ DeleteAnswered \/ DeleteUnanswered \/ GoneOnBothSides
         \/ RemoveLocal \/ PushNew \/ Pull \/ Adopt \/ PushChange \/ InStep \/ PathsDone
  PROVE  PassBooks'
<1>t. /\ PassBooks /\ UpTyped /\ StoreTyped /\ KnownInStore /\ HeldGrows /\ Paths = 1..NPaths /\ NPaths \in Nat
      /\ InUse \subseteq Paths /\ \A p \in Paths : Known(p, None)
  BY PassFacts, Parts, FolderStep DEF SyncInv, Known
<1>c. None \in Contents0
  BY Constants
<1>k. at \in Paths => Known(at, Base) /\ Base \in Contents0 /\ Known(at, Local) /\ Local \in Contents0
  BY <1>t DEF KnownInStore, StoreTyped, Base, Local, PassBooks, KnownInPass, PassTyped, Files
<1>n. pc # "upload" => \A p \in Paths : up["sync"][p].st = "none"
  BY <1>t DEF PassBooks, OneUpload
<1>1. ASSUME UNCHANGED up, pc \in {"path", "confirm", "delete"}, at \in InUse, pulls' \subseteq Paths,
             NEW c \in Contents0, Known(at, c), Keep(c)
      PROVE  PassBooks'
  BY <1>1, <1>n, PassKeeps
<1>2. CASE HoldDelete \/ GoneOnBothSides \/ DeleteAnswered \/ DeleteUnanswered
  <2>1. UNCHANGED <<up, pulls>> /\ pc \in {"path", "delete"} /\ at \in InUse /\ (Keep(Base) \/ Keep(None))
    BY <1>2, <1>t DEF HoldDelete, GoneOnBothSides, DeleteAnswered, DeleteUnanswered, AtPath, PassBooks, InPlace
  <2>2. pulls' \subseteq Paths
    BY <1>t, <2>1 DEF PassBooks, PassTyped
  <2> QED
    BY <1>1, <1>c, <1>k, <1>t, <2>1, <2>2
<1>3. CASE Adopt \/ InStep \/ Pull
  <2>1. UNCHANGED up /\ pc = "path" /\ at \in InUse /\ pulls' \subseteq Paths
        /\ (Keep(Base) \/ (Keep(Item.sha) /\ Item.sha \in {Local, Base}))
    BY <1>3, <1>t DEF Adopt, InStep, Pull, AtPath, RemoteChanged, PassBooks, PassTyped
  <2> QED
    BY <1>1, <1>k, <1>t, <2>1
<1>4. CASE RemoveLocal \/ PushNew \/ PushChange
  <2>1. UNCHANGED pulls
    BY <1>4, PassUploads DEF RemoveLocal, PushNew, PushChange
  <2>2. pulls' \subseteq Paths /\ at \in InUse /\ at \in Paths /\ pc = "path"
    BY <1>4, <1>t, <2>1, PassUploads DEF PassBooks, PassTyped
  <2>3. CASE UNCHANGED up /\ ((\E c \in {None, Base} : Keep(c)) \/ Keep(None))
    BY <1>1, <1>c, <1>k, <1>t, <2>2, <2>3
  <2>4. CASE /\ \E c \in Contents0, m \in {NoMemory, Item} : StartUpload("sync", at, c, m)
             /\ pc' = "upload" /\ Known(at, Item.sha)
             /\ UNCHANGED <<final, scan, listed, at, next, pulls, attempted>>
    <3>1. PassTyped'
      BY <1>t, <2>4 DEF PassBooks, PassTyped
    <3>2. KnownInPass'
      BY <1>t, <2>2, <2>4 DEF PassBooks, KnownInPass, Known, HeldGrows, Item
    <3>3. Attempts' /\ InPlace' /\ IdleIsTidy'
      BY <1>t, <2>2, <2>4, SetupStays DEF PassBooks, Attempts, InPlace, IdleIsTidy, InUse
    <3>4. OneUpload'
      <4>1. \A q \in Paths \ {at} : up'["sync"][q] = up["sync"][q]
        BY <1>t, <2>4 DEF StartUpload, UpTyped
      <4> QED
        BY <1>n, <2>2, <2>4, <4>1 DEF OneUpload
    <3>5. Downloading'
      BY <1>t, <2>2, NoNewDownload DEF PassBooks, Downloading
    <3> QED
      BY <2>4, <3>1, <3>2, <3>3, <3>4, <3>5 DEF PassBooks
  <2> QED
    BY <1>4, <2>3, <2>4, PassUploads
<1>5. CASE AskDelete
  <2>1. /\ pc = "path" /\ at \in InUse /\ ~setup.readOnly /\ pc' = "confirm"
        /\ UNCHANGED <<final, scan, listed, at, next, pulls, attempted, up>>
    BY <1>5 DEF AskDelete, AtPath, Deleted
  <2>2. Attempts' /\ InPlace' /\ IdleIsTidy' /\ Downloading'
    BY <1>t, <2>1, SetupStays, NoNewDownload DEF PassBooks, Attempts, InPlace, IdleIsTidy, Downloading, InUse
  <2>3. \A p \in Paths : Recorded(p, scan'[p]) /\ Recorded(p, next'[p])
    BY <1>t, <2>1 DEF PassBooks, KnownInPass, Known, Recorded, HeldGrows
  <2> QED
    BY <1>n, <1>t, <2>1, <2>2, <2>3, PassMoves DEF PassBooks, PassTyped
<1>6. CASE Confirm
  <2>1. pc = "confirm" /\ at \in InUse /\ at \in Paths /\ UNCHANGED <<up, pulls>> /\ ~setup.readOnly
    BY <1>6, <1>t DEF Confirm, PassBooks, InPlace
  <2>2. CASE Keep(Base)
    BY <1>1, <1>k, <1>t, <2>1, <2>2 DEF PassBooks, PassTyped
  <2>3. CASE attempted < Cap /\ attempted' = attempted + 1 /\ UNCHANGED <<final, scan, listed>>
             /\ IF setup.mode = "log_only"
                  THEN next' = [next EXCEPT ![at] = Base] /\ at' = at + 1 /\ pc' = "path"
                  ELSE pc' = "delete" /\ UNCHANGED <<next, at>>
    <3>1. attempted < at /\ attempted \in Nat /\ at \in 1..NPaths
      BY <1>t, <2>1 DEF PassBooks, Attempts, PassTyped
    <3>2. attempted' \in 0..NPaths /\ attempted' <= at /\ at' \in {at, at + 1} /\ at' \in 1..NPaths + 1
      BY <1>t, <2>3, <3>1
    <3>3. next' \in Files /\ \A p \in Paths : next'[p] \in {next[p], Base} /\ (p # at => next'[p] = next[p])
      BY <1>k, <1>t, <2>1, <2>3 DEF PassBooks, PassTyped, Files
    <3>4. \A p \in Paths : Recorded(p, scan'[p]) /\ Recorded(p, next'[p])
      BY <1>k, <1>t, <2>1, <2>3, <3>3 DEF PassBooks, KnownInPass, Known, Recorded, HeldGrows
    <3>5. Attempts'
      BY <2>3, <3>1, <3>2 DEF Attempts
    <3>6. InPlace' /\ IdleIsTidy' /\ Downloading'
      BY <1>t, <2>1, <2>3, SetupStays, NoNewDownload DEF PassBooks, InPlace, IdleIsTidy, Downloading, InUse
    <3>7. pc' \in {"path", "delete"} /\ listed' = listed /\ scan' = scan /\ final' = final
      BY <2>3
    <3> QED
      BY <1>n, <1>t, <2>1, <3>2, <3>3, <3>4, <3>5, <3>6, <3>7, PassMoves DEF PassBooks, PassTyped
  <2> QED
    BY <1>6, <2>2, <2>3 DEF Confirm
<1>7. CASE PathsDone
  <2>1. pc = "path" /\ pc' = "pull" /\ UNCHANGED <<final, scan, listed, at, next, pulls, attempted, up>>
    BY <1>7 DEF PathsDone
  <2>2. Attempts' /\ InPlace' /\ IdleIsTidy' /\ Downloading'
    BY <1>t, <2>1, NoNewDownload DEF PassBooks, Attempts, InPlace, IdleIsTidy, Downloading
  <2>3. \A p \in Paths : Recorded(p, scan'[p]) /\ Recorded(p, next'[p])
    BY <1>t, <2>1 DEF PassBooks, KnownInPass, Known, Recorded, HeldGrows
  <2> QED
    BY <1>n, <1>t, <2>1, <2>2, <2>3, PassMoves DEF PassBooks, PassTyped
<1> QED
  BY <1>2, <1>3, <1>4, <1>5, <1>6, <1>7

\* How a pass begins, fills the folder anew, pulls and ends.
LEMMA OtherPassStep ==
  ASSUME SyncInv, [Next]_vars,
         \/ SyncIfDue \/ Finish \/ Scan \/ List \/ ListFails \/ PullsDone
         \/ RefuseFolder \/ Stamp \/ FullList \/ Fill \/ Filled
         \/ \E p \in Paths : PullWrites(p) \/ PullSkips(p)
  PROVE  PassBooks'
<1>t. /\ PassBooks /\ FolderTyped /\ KnownInFolder /\ RestTyped /\ HeldGrows /\ Paths = 1..NPaths
      /\ NPaths \in Nat /\ InUse \subseteq Paths
  BY PassFacts, Parts, FolderStep DEF SyncInv
<1>c. NoFiles \in Files /\ NoMemories \in [Paths -> Memory] /\ \A p \in Paths : NoFiles[p] = None
  BY Constants
<1>n. UNCHANGED up /\ pc # "upload"
  BY DEF SyncIfDue, Finish, Scan, List, ListFails, PullsDone, RefuseFolder, Stamp, FullList, Fill, Filled,
     PullWrites, PullSkips
<1>u. \A p \in Paths : up'["sync"][p].st = "none"
  BY <1>n, <1>t DEF PassBooks, OneUpload
<1>p. /\ scan \in Files /\ next \in Files /\ listed \in [Paths -> Memory] /\ remote \in [Paths -> Memory]
      /\ at \in 1..NPaths + 1 /\ pulls \subseteq Paths /\ attempted \in 0..NPaths /\ disk \in Files
      /\ final \in BOOLEAN
  BY <1>t DEF PassBooks, PassTyped, RestTyped, FolderTyped
<1>k. \A p \in Paths : /\ Recorded(p, scan[p]) /\ Recorded(p, next[p]) /\ Recorded(p, NoFiles[p])
                       /\ Recorded(p, disk[p])
  BY <1>c, <1>t DEF PassBooks, KnownInPass, KnownInFolder, Known, Recorded, HeldGrows
<1>1. ASSUME pc' \in {"idle", "scan", "list", "path", "pull", "open", "full", "fill"},
             scan' \in {scan, NoFiles, disk}, UNCHANGED next, listed' \in {listed, remote, NoMemories},
             final' \in BOOLEAN, at' \in 1..NPaths + 1, pulls' \subseteq pulls, UNCHANGED attempted,
             Attempts', IdleIsTidy', Downloading'
      PROVE  PassBooks'
  <2>1. scan' \in Files /\ next' \in Files /\ listed' \in [Paths -> Memory] /\ pulls' \subseteq Paths
        /\ attempted' \in 0..NPaths
    BY <1>1, <1>c, <1>p
  <2>2. \A p \in Paths : Recorded(p, scan'[p]) /\ Recorded(p, next'[p])
    BY <1>1, <1>k
  <2>3. InPlace'
    BY <1>1 DEF InPlace
  <2>4. pc' \in {"confirm", "delete"} => ~setup.readOnly
    BY <1>1
  <2> QED
    BY <1>1, <1>u, <2>1, <2>2, <2>3, <2>4, PassMoves
<1>2. CASE SyncIfDue \/ Finish
  <2>1. /\ pc = "idle" /\ pc' = "scan" /\ UNCHANGED <<scan, listed, at, next, pulls, attempted>>
        /\ final' \in {final, TRUE} /\ life = "running"
    BY <1>2 DEF SyncIfDue, Finish
  <2>2. Attempts' /\ IdleIsTidy' /\ Downloading'
    BY <1>t, <2>1, NoNewDownload DEF PassBooks, Attempts, IdleIsTidy, Downloading
  <2> QED
    BY <1>1, <1>p, <2>1, <2>2
<1>3. CASE Scan
  <2>1. pc = "scan"
    BY <1>3 DEF Scan
  <2>2. CASE EndPass
    BY <1>u, <2>1, <2>2, PassEnds
  <2>3. CASE pc' \in {"list", "open"} /\ scan' \in {scan, disk}
             /\ UNCHANGED <<final, listed, at, next, pulls, attempted, life>>
    <3>1. Attempts' /\ IdleIsTidy' /\ Downloading'
      BY <1>t, <2>1, <2>3 DEF PassBooks, Attempts, IdleIsTidy, Downloading
    <3> QED
      BY <1>1, <1>p, <2>3, <3>1
  <2> QED
    BY <1>3, <2>2, <2>3 DEF Scan
<1>4. CASE List
  <2>1. pc = "list" /\ pc' \in {"path", "open"} /\ listed' = remote
        /\ UNCHANGED <<final, scan, at, next, pulls, attempted, life>>
    BY <1>4 DEF List
  <2>2. Attempts' /\ IdleIsTidy' /\ Downloading'
    BY <1>p, <1>t, <2>1 DEF PassBooks, Attempts, IdleIsTidy, Downloading
  <2> QED
    BY <1>1, <1>p, <2>1, <2>2
<1>5. CASE ListFails \/ PullsDone
  <2>1. EndPass /\ pc \in {"list", "pull"}
    BY <1>5 DEF ListFails, PullsDone
  <2> QED
    BY <1>u, <2>1, PassEnds
<1>6. CASE \E p \in Paths : PullWrites(p) \/ PullSkips(p)
  <2>1. pc = "pull" /\ pulls' \subseteq pulls /\ UNCHANGED <<pc, final, scan, listed, at, next, attempted, life>>
    BY <1>6 DEF PullWrites, PullSkips
  <2>2. Attempts' /\ IdleIsTidy' /\ Downloading'
    BY <1>t, <2>1 DEF PassBooks, Attempts, IdleIsTidy, Downloading
  <2> QED
    BY <1>1, <1>p, <2>1, <2>2
<1>7. CASE RefuseFolder
  <2>1. /\ pc = "open" /\ life = "download" /\ pc' = "idle" /\ life' = "failed"
        /\ UNCHANGED <<final, scan, listed, at, next, pulls, attempted>>
    BY <1>7 DEF RefuseFolder
  <2>2. Attempts' /\ IdleIsTidy' /\ Downloading'
    BY <1>t, <2>1 DEF PassBooks, Attempts, IdleIsTidy, Downloading
  <2> QED
    BY <1>1, <1>p, <2>1, <2>2
<1>8. CASE Stamp \/ FullList
  <2>1. pc \in {"open", "full"}
    BY <1>8 DEF Stamp, FullList
  <2>2. CASE (DownloadFails /\ life = "download") \/ (PassFails /\ life # "download")
    BY <1>u, <2>2, PassEnds DEF PassFails
  <2>3. CASE /\ pc' \in {"full", "fill"} /\ at' \in {at, 1} /\ listed' \in {listed, remote}
             /\ UNCHANGED <<final, scan, next, pulls, attempted, life>>
    <3>1. Attempts' /\ IdleIsTidy' /\ Downloading'
      BY <1>t, <2>1, <2>3 DEF PassBooks, Attempts, IdleIsTidy, Downloading
    <3> QED
      BY <1>1, <1>p, <1>t, <2>3, <3>1
  <2> QED
    BY <1>8, <2>2, <2>3 DEF Stamp, FullList
<1>9. CASE Fill
  <2>1. /\ pc = "fill" /\ at \in Paths /\ at' = at + 1
        /\ UNCHANGED <<pc, final, scan, listed, next, pulls, attempted, life>>
    BY <1>9, <1>t DEF Fill
  <2>2. Attempts' /\ IdleIsTidy' /\ Downloading'
    BY <1>t, <2>1 DEF PassBooks, Attempts, IdleIsTidy, Downloading
  <2>3. at' \in 1..NPaths + 1
    BY <1>t, <2>1
  <2> QED
    BY <1>1, <1>p, <2>1, <2>2, <2>3
<1>10. CASE Filled
  <2>1. CASE life = "download"
    <3>1. /\ pc = "fill" /\ pc' = "idle" /\ life' = "running" /\ listed' = NoMemories /\ at' = 1
          /\ UNCHANGED <<final, scan, next, pulls, attempted>>
      BY <1>10, <2>1 DEF Filled
    <3>2. Attempts' /\ IdleIsTidy' /\ Downloading'
      BY <1>t, <2>1, <3>1 DEF PassBooks, Attempts, IdleIsTidy, Downloading
    <3> QED
      BY <1>1, <1>p, <1>t, <3>1, <3>2
  <2>2. CASE life # "download"
    BY <1>10, <1>u, <2>2, PassEnds DEF Filled
  <2> QED
    BY <2>1, <2>2
<1> QED
  BY <1>2, <1>3, <1>4, <1>5, <1>6, <1>7, <1>8, <1>9, <1>10

LEMMA PassStep ==
  ASSUME SyncInv, [Next]_vars
  PROVE  PassBooks'
<1>1. CASE SyncStep \/ SyncIfDue \/ Finish
  BY <1>1, PathStep, OtherPassStep DEF SyncStep
<1>2. CASE \E o \in Owners : UploadStep(o)
  BY <1>2, UploadPassStep
<1>3. CASE UNCHANGED <<pass, up>>
  BY <1>3, PassStays
<1>4. CASE Agent \/ \E p \in InUse : OtherClient(p) \/ Age(p)
  BY <1>4, <1>3 DEF Agent, WipeFiles, WipeFolder, SwapFolder, Edit, Remove, AgentActs, AgentLeaves,
     OtherClient, Age
<1>5. CASE RunFails \/ FinishCutOff \/ FlushScan \/ FlushCutOff \/ Dispose
  BY <1>5, <1>3 DEF RunFails, FinishCutOff, FlushScan, FlushCutOff, Dispose
<1>6. CASE FlushList \/ FlushDone \/ \E p \in Paths : FlushStart(p)
  <2>1. UNCHANGED pass /\ ((\E f : up' = [up EXCEPT !["flush"] = f]) \/ UNCHANGED up)
    <3>1. CASE FlushList
      BY <3>1 DEF FlushList
    <3>2. CASE FlushDone
      BY <3>2 DEF FlushDone
    <3>3. CASE \E p \in Paths : FlushStart(p)
      <4>1. PICK p \in Paths : FlushStart(p)
        BY <3>3
      <4>2. PICK u : up' = [up EXCEPT !["flush"][p] = u]
        BY <4>1 DEF FlushStart, StartUpload
      <4>3. up' = [up EXCEPT !["flush"] = [up["flush"] EXCEPT ![p] = u]]
        BY <4>2
      <4> QED
        BY <4>1, <4>3 DEF FlushStart
    <3> QED
      BY <1>6, <3>1, <3>2, <3>3
  <2>2. \A q \in Paths : up'["sync"][q] = up["sync"][q]
    BY <2>1, Parts DEF SyncInv, UpTyped, Owners
  <2> QED
    BY <2>1, <2>2, PassStays
<1> QED
  BY <1>1, <1>2, <1>3, <1>4, <1>5, <1>6 DEF Next, Teardown, vars

-----------------------------------------------------------------------------
(* The theorems.                                                            *)

LEMMA InitInv == Init => SyncInv
<1> SUFFICES ASSUME Init PROVE SyncInv
  OBVIOUS
<1>s. setup \in Setups
  BY DEF Init
<1>c. /\ None \in Contents0 /\ NoFiles \in Files /\ (\A p \in Paths : NoFiles[p] = None)
      /\ NoMemory \in Memory /\ NoMemory.sha = None /\ NoMemories \in [Paths -> Memory]
      /\ NoUpload \in Upload /\ NoUpload.st = "none" /\ NoUpload.data = None /\ NoUpload.item = NoMemory
  BY Constants
<1>n. /\ NPaths \in Nat /\ setup.edits \in Nat /\ setup.others \in Nat /\ setup.faults \in Nat
      /\ Original \in Contents0
  BY <1>s, NamesInUse
<1>1. FolderTyped /\ StoreTyped
  BY <1>c DEF Init, FolderTyped, StoreTyped, Files
<1>2. PassTyped
  <2>1. at \in 1..NPaths + 1 /\ attempted \in 0..NPaths
    BY <1>n DEF Init
  <2> QED
    BY <1>c, <2>1 DEF Init, PassTyped
<1>3. FlushTyped /\ UpTyped
  BY <1>c DEF Init, FlushTyped, UpTyped
<1>4. RestTyped
  <2>1. remote \in [Paths -> Memory]
    BY <1>c, <1>n DEF Init, Memory
  <2> QED
    BY <1>n, <1>s, <2>1 DEF Init, RestTyped
<1>5. IdleIsTidy /\ OneUpload
  BY <1>c DEF Init, IdleIsTidy, OneUpload, Owners
<1>6. TypeOK
  BY <1>1, <1>2, <1>3, <1>4, <1>5, Parts
<1>7. KnownInFolder /\ KnownInStore /\ KnownInPass /\ KnownInFlush /\ KnownInUp
  BY <1>c DEF Init, KnownInFolder, KnownInStore, KnownInPass, KnownInFlush, KnownInUp, Known
<1>8. Writing /\ Attempts /\ InPlace /\ Downloading
  BY <1>c DEF Init, Writing, Attempts, InPlace, Downloading
<1> QED
  BY <1>6, <1>7, <1>8 DEF SyncInv

LEMMA StepInv == SyncInv /\ [Next]_vars => SyncInv'
<1> SUFFICES ASSUME SyncInv, [Next]_vars PROVE SyncInv'
  OBVIOUS
<1>1. TypeOK'
  BY FolderStep, StoreStep, PassStep, FlushStep, UpStep, RestStep, Parts DEF PassBooks
<1>2. Writing'
  BY PassStep, FlushStep, UpStep DEF PassBooks, FlushBooks, UpBooks, Writing
<1> QED
  BY <1>1, <1>2, FolderStep, StoreStep, PassStep, FlushStep, UpStep
     DEF SyncInv, PassBooks, FlushBooks, UpBooks

(* The inductive invariant of the session's records: whatever is compared,  *)
(* about to be recorded or on its way to the server was once in the file,   *)
(* and only a store that may be written is written.                         *)
THEOREM RecordsAreKnown == Spec => []SyncInv
  BY InitInv, StepInv, PTL DEF Spec

(* The session's records, its passes and its uploads keep their types, a    *)
(* pass leaves nothing behind, and a sync has one upload out at a time.     *)
THEOREM TypeCorrectness == Spec => []TypeOK
<1>1. SyncInv => TypeOK
  BY DEF SyncInv
<1> QED
  BY <1>1, RecordsAreKnown, PTL

(* "Only successful writes enter the baseline, so this file was verifiably  *)
(* on disk" (memories.ts): what decides that a missing file was deleted was *)
(* in the file, through downloads, lost answers and cut-off passes.         *)
THEOREM BaselineIsTrue == Spec => []BaselineWasOnDisk
<1>1. SyncInv => BaselineWasOnDisk
  BY DEF SyncInv, KnownInStore, Known, BaselineWasOnDisk
<1> QED
  BY <1>1, RecordsAreKnown, PTL

\* A sync or a flush changes a memory only where it knows what the memory held.
LEMMA KnownOverwritten ==
  ASSUME SyncInv, [Next]_vars, others' = others, NEW p \in Paths, remote'[p].sha # remote[p].sha
  PROVE  ~setup.readOnly /\ Known(p, remote[p].sha)
<1>t. PassBooks /\ RestTyped /\ UpTyped /\ UpBooks /\ KnownInStore /\ None \in Contents0 /\ InUse \subseteq Paths
  BY PassFacts, Parts, Constants DEF SyncInv, UpBooks, Writing
<1>1. CASE SyncStep
  <2>1. CASE DeleteAnswered \/ DeleteUnanswered
    <3>1. DeleteApplies /\ DeletedRemotely /\ pc = "delete"
      BY <2>1 DEF DeleteAnswered, DeleteUnanswered
    <3>2. at \in Paths /\ p = at /\ remote[p].sha = Base
      BY <1>t, <3>1 DEF DeletedRemotely, DeleteApplies, PassBooks, InPlace, RestTyped
    <3> QED
      BY <1>t, <3>1, <3>2 DEF PassBooks, KnownInStore, Base
  <2>2. CASE Stamp
    <3>1. [remote[p] EXCEPT !.by = "other"].sha = remote[p].sha
      BY <1>t DEF RestTyped, Memory
    <3> QED
      BY <2>2, <3>1 DEF Stamp
  <2> QED
    BY <1>1, <2>1, <2>2 DEF SyncStep, Scan, List, ListFails, HoldDelete, AskDelete, Confirm,
       DeleteAnswered, DeleteUnanswered, GoneOnBothSides, RemoveLocal, PushNew, Pull, Adopt,
       PushChange, InStep, PathsDone, PullWrites, PullSkips, PullsDone, RefuseFolder,
       FullList, Fill, Filled
<1>2. CASE \E o \in Owners : UploadStep(o)
  <2>1. PICK o \in Owners, q \in Paths : UploadRead(o, q) \/ UploadAnswered(o, q) \/ UploadUnanswered(o, q)
    BY <1>2 DEF UploadStep
  <2> DEFINE u == up[o][q]
  <2>2. Applies(q, u.item, u.data) /\ Uploaded(q, u.data) /\ u.st # "none"
    BY <2>1 DEF UploadRead, UploadAnswered, UploadUnanswered
  <2>3. p = q /\ remote[p].sha # u.data
    BY <1>t, <2>2 DEF Uploaded, RestTyped
  <2>4. remote[p].sha \in {None, u.item.sha}
    BY <2>2, <2>3 DEF Applies
  <2>5. Known(p, u.item.sha) /\ Known(p, None) /\ ~setup.readOnly
    BY <1>t, <2>2, <2>3 DEF UpBooks, KnownInUp, Known
  <2> QED
    BY <2>4, <2>5
<1>3. CASE Teardown
  BY <1>3 DEF Teardown, Finish, RunFails, FinishCutOff, FlushScan, FlushList, FlushDone,
     FlushCutOff, Dispose, FlushStart
<1>4. CASE \E q \in InUse : OtherClient(q)
  BY <1>4, <1>t DEF OtherClient, RestTyped
<1>5. CASE Agent \/ SyncIfDue \/ \E q \in InUse : Age(q)
  BY <1>5 DEF SyncIfDue, Age, Agent, WipeFiles, WipeFolder, SwapFolder, Edit, Remove, AgentActs,
     AgentLeaves
<1> QED
  BY <1>1, <1>2, <1>3, <1>4, <1>5 DEF Next, vars

(* The content preconditions, the baseline and the settled uploads together *)
(* never let this session overwrite or delete something that it has not     *)
(* seen in its own folder, and never write to a read-only store.            *)
THEOREM NothingUnseenIsOverwritten == Spec => NoBlindWrites
<1>1. SyncInv /\ [Next]_vars =>
        [others' = others =>
           \A p \in Paths : remote'[p].sha # remote[p].sha =>
             ~setup.readOnly /\ remote[p].sha \in held[p] \cup {None}]_vars
  BY KnownOverwritten DEF Known
<1> QED
  BY <1>1, RecordsAreKnown, PTL DEF Spec, NoBlindWrites

-----------------------------------------------------------------------------
(* What the records say of the memories that this session wrote, and of the *)
(* files that are missing: the second inductive invariant.                  *)

\* Before a listing, after it, and with the content pass.
Before    == {"scan", "list"}
Comparing == {"path", "confirm", "delete", "upload"}

\* A memory that this session wrote, since its folder was last stamped.
Ours(p) == remote[p].by = "us" /\ remote[p].sha # None

\* Nothing newer than the memory is in its file, and the agent writes no more.
AsUploaded(p) == life # "running" /\ disk[p] \in {None, remote[p].sha}

\* Where the pass is, and what it leaves behind.
Progress ==
  /\ pc \notin Comparing \cup {"pull", "fill"} => at = 1
  /\ pc \notin Comparing \cup {"pull"} => pulls = {}
  /\ pulls \subseteq InUse
  /\ pc \in Comparing => \A p \in pulls : p < at
  /\ pc \in {"confirm", "delete"} => scan[at] = None /\ baseline[at] # None
  /\ pc = "upload" => scan[at] # None

\* The flush has its files only while it is under way, after the agent.
FlushIsLate ==
  /\ fpc # "list" => todo = {}
  /\ fpc # "upload" => \A p \in Paths : up["flush"][p].st = "none"
  /\ life \in {"download", "running", "finish"} => fpc = "off"
  /\ \A p \in todo : fscan[p] # None

\* A listing settles what was sent; the pass sends anew where it is.
SentSince ==
  \A p \in InUse : life = "running" =>
    /\ pc \in Comparing /\ p >= at /\ (pc = "upload" => p # at) => sent[p] = None
    /\ up["sync"][p].st = "sent" => sent[p] = up["sync"][p].data

\* A memory of ours is on record, or what is in its file is what was uploaded.
Accounted(p) ==
  /\ pc = "idle" /\ life = "running" => remote[p].sha \in {baseline[p], sent[p]}
  /\ pc \in Before => (remote[p].sha \in {baseline[p], sent[p]} /\ (fpc = "upload" => remote[p].sha = baseline[p]))
                      \/ AsUploaded(p)
  /\ pc \in Comparing /\ p >= at => (remote[p] = listed[p] /\ remote[p].sha = baseline[p]) \/ AsUploaded(p)
  /\ pc \in Comparing /\ p < at /\ life = "running" => remote[p].sha \in {next[p], sent[p]}
  /\ pc = "pull" /\ life = "running" => remote[p].sha \in {baseline[p], sent[p]}
  /\ pc \in Comparing \cup {"pull"} /\ p \in pulls => AsUploaded(p)
  /\ pc \in {"full", "fill"} => life \notin {"running", "download"}
OursAreOnRecord == \A p \in InUse : Ours(p) => Accounted(p)

\* The flush sends what is in the file, and the pass leaves the file alone until then.
FlushSees ==
  \A p \in Paths : LET u == up["flush"][p] IN
    /\ u.st = "sent" /\ pc \in Before \cup Comparing \cup {"pull"} /\ (pc = "pull" => p \in pulls)
         => disk[p] \in {None, u.data}
    /\ folder = "ours" /\ pc \in Before \cup Comparing /\ (pc \in Comparing => p >= at)
         /\ (p \in todo \/ u.st # "none") => disk[p] # None

\* A file that is missing, and did not go by itself.
Missing(p) == disk[p] = None /\ removed[p] = "kept"
Wiped == {p \in Paths : disk[p] = None /\ removed[p] # "gone"}

\* Between two passes such a file went with others in a wipe, unless it was never synced; in a pass it was not.
WipedWithOthers(p) ==
  (baseline[p] # None \/ sent[p] # None) /\ (pc \in Before \/ (pc = "idle" /\ life = "running")) =>
    /\ disk = NoFiles /\ (pc = "list" => scan = NoFiles)
    /\ Cardinality(Synced(Wiped, remote)) > 1
WipedOffRecord(p) ==
  /\ pc = "list" => scan[p] = None
  /\ pc \in Comparing /\ p >= at => baseline[p] = None /\ sent[p] = None /\ scan[p] = None
  /\ pc \in Comparing /\ p < at /\ life = "running" => next[p] = None /\ sent[p] = None
  /\ pc = "pull" /\ life = "running" => baseline[p] = None /\ sent[p] = None
  /\ pc \in {"full", "fill"} /\ life \in {"running", "download"} => baseline[p] = None /\ sent[p] = None
WipesAreNoticed == folder = "ours" => \A p \in InUse : Missing(p) => WipedWithOthers(p) /\ WipedOffRecord(p)

BooksInv == Progress /\ FlushIsLate /\ SentSince /\ OursAreOnRecord /\ FlushSees /\ WipesAreNoticed

LEMMA Shapes ==
  ASSUME SyncInv
  PROVE  /\ disk \in Files /\ baseline \in Files /\ sent \in Files /\ scan \in Files /\ next \in Files /\ fscan \in Files
         /\ remote \in [Paths -> Memory] /\ listed \in [Paths -> Memory]
         /\ removed \in [Paths -> {"kept", "gone", "midpass"}] /\ UpTyped
         /\ InUse \subseteq Paths /\ Paths \subseteq Nat /\ at \in Nat /\ pulls \subseteq Paths /\ todo \subseteq Paths
         /\ life \in {"download", "running", "finish", "flush", "dispose", "disposed", "failed"}
         /\ folder \in {"ours", "bare", "alien", "none"} /\ "sync" \in Owners /\ "flush" \in Owners
<1>1. /\ FolderTyped /\ StoreTyped /\ PassTyped /\ FlushTyped /\ UpTyped /\ RestTyped
  BY Parts DEF SyncInv
<1>2. InUse \subseteq Paths /\ Paths \subseteq Nat /\ at \in Nat
  BY <1>1, NamesInUse DEF PassTyped, RestTyped
<1> QED
  BY <1>1, <1>2 DEF FolderTyped, StoreTyped, PassTyped, FlushTyped, RestTyped, Owners

-----------------------------------------------------------------------------
(* The effects that actions have in common.                                 *)

\* A path is done: what it keeps, and what that says of a memory of ours and of a missing file there.
Kept(c) == next' = [next EXCEPT ![at] = c] /\ at' = at + 1 /\ pc' = "path" /\ UNCHANGED <<scan, listed>>
PathDone(c) ==
  /\ pc \in Comparing /\ at \in InUse /\ Kept(c)
  /\ UNCHANGED <<folder, baseline, life, fpc, fscan, todo>> /\ pulls' \subseteq pulls \cup {at}
  /\ \A p \in Paths : up'["flush"][p] = up["flush"][p]
  /\ \A p \in Paths \ {at} :
       remote'[p] = remote[p] /\ sent'[p] = sent[p] /\ disk'[p] = disk[p] /\ removed'[p] = removed[p]
  /\ disk'[at] \in {disk[at], None}
  /\ \A p \in {at} :
       /\ Ours(p)' /\ life = "running" => remote'[p].sha \in {c, sent'[p]}
       /\ Ours(p)' /\ p \in pulls' => AsUploaded(p)'
       /\ life = "running" /\ folder = "ours" /\ Missing(p)' => c = None /\ sent'[p] = None

\* A path waits for an answer.
PathWaits ==
  /\ pc \in Comparing /\ at \in InUse /\ pc' \in {"confirm", "delete", "upload"}
  /\ UNCHANGED <<folder, baseline, life, fpc, fscan, todo, disk, removed, remote, next, listed, scan, pulls, at>>
  /\ \A p \in Paths : up'["flush"][p] = up["flush"][p]
  /\ \A p \in Paths \ {at} : sent'[p] = sent[p]
  /\ pc' # "upload" => pc # "upload" /\ sent' = sent /\ scan[at] = None /\ baseline[at] # None
  /\ pc' = "upload" => scan[at] # None /\ (up'["sync"][at].st = "sent" => sent'[at] = up'["sync"][at].data)

\* A pass ends, or none has begun.
PassOver ==
  /\ pc' = "idle" /\ at' = 1 /\ pulls' = {} /\ UNCHANGED <<fscan, todo, up>>
  /\ \/ UNCHANGED fpc /\ life' \in {life, "running", "failed"} /\ (life' = "running" => life \in {"running", "download"})
     \/ fpc' = "scan" /\ life' = "flush" /\ fpc = "off"
  /\ life' = "running" => \A p \in InUse :
       /\ Ours(p)' => remote'[p].sha \in {baseline'[p], sent'[p]}
       /\ folder' = "ours" /\ Missing(p)' =>
            \/ baseline'[p] = None /\ sent'[p] = None
            \/ disk' = NoFiles /\ Cardinality(Synced(Wiped, remote)') > 1

LEMMA KeptAt ==
  ASSUME SyncInv, NEW c, at \in InUse, Kept(c)
  PROVE  /\ next'[at] = c /\ (\A p \in Paths \ {at} : next'[p] = next[p])
         /\ at' = at + 1 /\ pc' = "path" /\ UNCHANGED <<scan, listed>>
<1>1. next \in Files /\ at \in Paths
  BY Shapes
<1> QED
  BY <1>1 DEF Kept, Files

LEMMA PathDoneKeeps ==
  ASSUME SyncInv, BooksInv, [Next]_vars, NEW c, PathDone(c)
  PROVE  BooksInv'
<1>t. /\ InUse \subseteq Paths /\ Paths \subseteq Nat /\ at \in Nat /\ InUse' = InUse /\ pulls \subseteq Paths /\ UpTyped
  BY Shapes, SetupStays DEF InUse
<1>k. /\ next'[at] = c /\ (\A p \in Paths \ {at} : next'[p] = next[p])
      /\ at' = at + 1 /\ pc' = "path" /\ UNCHANGED <<scan, listed>>
  BY KeptAt DEF PathDone
<1>u. \A p \in Paths : up'["sync"][p].st = "none"
  BY <1>k, StepInv, Parts DEF SyncInv, OneUpload
<1>p. /\ pc \in Comparing /\ at \in InUse
      /\ UNCHANGED <<folder, baseline, life, fpc, fscan, todo>> /\ pulls' \subseteq pulls \cup {at}
      /\ \A p \in Paths : up'["flush"][p] = up["flush"][p]
      /\ \A p \in Paths \ {at} :
           remote'[p] = remote[p] /\ sent'[p] = sent[p] /\ disk'[p] = disk[p] /\ removed'[p] = removed[p]
      /\ disk'[at] \in {disk[at], None}
  BY DEF PathDone
<1>n. \A p \in Paths : p >= at' => p # at /\ p >= at
  BY <1>t, <1>k
<1>b. \A p \in InUse : p < at' => p < at \/ p = at
  BY <1>t, <1>k
<1>1. Progress'
  <2>1. ASSUME NEW p \in pulls' PROVE p < at'
    <3>1. p \in pulls => p < at
      BY <1>p DEF BooksInv, Progress
    <3>2. (p = at \/ p \in pulls) /\ p \in Nat
      BY <1>p, <1>t
    <3> QED
      BY <1>k, <1>t, <3>1, <3>2
  <2>2. pulls' \subseteq InUse
    BY <1>p DEF BooksInv, Progress
  <2> QED
    BY <1>k, <1>t, <2>1, <2>2 DEF Progress, Comparing
<1>2. FlushIsLate'
  BY <1>p DEF BooksInv, FlushIsLate
<1>3. SentSince'
  BY <1>k, <1>n, <1>p, <1>t, <1>u DEF BooksInv, SentSince, Comparing
<1>4. OursAreOnRecord'
  <2> SUFFICES ASSUME NEW p \in InUse, Ours(p)' PROVE Accounted(p)'
    BY <1>t DEF OursAreOnRecord
  <2>1. CASE p = at
    <3>1. /\ life = "running" => remote'[p].sha \in {c, sent'[p]}
          /\ p \in pulls' => AsUploaded(p)'
      BY <2>1 DEF PathDone
    <3> QED
      BY <1>k, <1>n, <1>p, <1>t, <2>1, <3>1 DEF Accounted, Before, Comparing
  <2>2. CASE p # at
    <3>1. Ours(p) /\ (AsUploaded(p)' <=> AsUploaded(p)) /\ (p \in pulls' => p \in pulls)
      BY <1>p, <1>t, <2>2 DEF Ours, AsUploaded
    <3>2. Accounted(p)
      BY <3>1 DEF BooksInv, OursAreOnRecord
    <3> QED
      BY <1>b, <1>k, <1>n, <1>p, <1>t, <2>2, <3>1, <3>2 DEF Accounted, Before, Comparing
  <2> QED
    BY <2>1, <2>2
<1>5. FlushSees'
  <2> SUFFICES ASSUME NEW p \in Paths
               PROVE  LET u == up'["flush"][p] IN
                      /\ u.st = "sent" => disk'[p] \in {None, u.data}
                      /\ folder' = "ours" /\ p >= at' /\ (p \in todo' \/ u.st # "none") => disk'[p] # None
    BY <1>k, <1>t DEF FlushSees, Comparing
  <2>1. /\ up["flush"][p].st = "sent" => disk[p] \in {None, up["flush"][p].data}
        /\ folder = "ours" /\ p >= at /\ (p \in todo \/ up["flush"][p].st # "none") => disk[p] # None
    BY <1>p DEF BooksInv, FlushSees, Comparing
  <2> QED
    BY <1>n, <1>p, <1>t, <2>1
<1>6. WipesAreNoticed'
  <2> SUFFICES ASSUME folder' = "ours", NEW p \in InUse, Missing(p)'
               PROVE  WipedWithOthers(p)' /\ WipedOffRecord(p)'
    BY <1>t DEF WipesAreNoticed
  <2>1. WipedWithOthers(p)'
    BY <1>k DEF WipedWithOthers, Before
  <2>2. CASE p = at
    <3>1. life = "running" => c = None /\ sent'[p] = None
      BY <1>p, <2>2 DEF PathDone
    <3> QED
      BY <1>k, <1>n, <1>p, <1>t, <2>1, <2>2, <3>1 DEF WipedOffRecord, Comparing
  <2>3. CASE p # at
    <3>1. Missing(p)
      BY <1>p, <1>t, <2>3 DEF Missing
    <3>2. WipedOffRecord(p)
      BY <1>p, <3>1 DEF BooksInv, WipesAreNoticed
    <3> QED
      BY <1>b, <1>k, <1>n, <1>p, <1>t, <2>1, <2>3, <3>2 DEF WipedOffRecord, Comparing
  <2> QED
    BY <2>2, <2>3
<1> QED
  BY <1>1, <1>2, <1>3, <1>4, <1>5, <1>6 DEF BooksInv

LEMMA PathWaitsKeeps ==
  ASSUME SyncInv, BooksInv, [Next]_vars, PathWaits
  PROVE  BooksInv'
<1>t. /\ InUse \subseteq Paths /\ Paths \subseteq Nat /\ at \in Nat /\ InUse' = InUse
  BY Shapes, SetupStays DEF InUse
<1>p. /\ pc \in Comparing /\ at \in InUse /\ pc' \in {"confirm", "delete", "upload"} /\ pc' \in Comparing
      /\ UNCHANGED <<folder, baseline, life, fpc, fscan, todo, disk, removed, remote, next, listed, scan, pulls, at>>
      /\ \A p \in Paths : up'["flush"][p] = up["flush"][p]
      /\ \A p \in Paths \ {at} : sent'[p] = sent[p]
      /\ pc' # "upload" => pc # "upload" /\ sent' = sent /\ scan[at] = None /\ baseline[at] # None
      /\ pc' = "upload" => scan[at] # None /\ (up'["sync"][at].st = "sent" => sent'[at] = up'["sync"][at].data)
  BY DEF PathWaits, Comparing
<1>u. \A p \in Paths : up'["sync"][p].st # "none" => pc' = "upload" /\ p = at
  BY <1>p, StepInv, Parts DEF SyncInv, OneUpload
<1>1. Progress'
  BY <1>p, <1>t DEF BooksInv, Progress, Comparing
<1>2. FlushIsLate'
  BY <1>p DEF BooksInv, FlushIsLate
<1>3. SentSince'
  <2> SUFFICES ASSUME NEW p \in InUse, life = "running"
               PROVE  /\ p >= at /\ (pc' = "upload" => p # at) => sent'[p] = None
                      /\ up'["sync"][p].st = "sent" => sent'[p] = up'["sync"][p].data
    BY <1>p, <1>t DEF SentSince
  <2>1. p >= at /\ (pc = "upload" => p # at) => sent[p] = None
    BY <1>p DEF BooksInv, SentSince
  <2> QED
    BY <1>p, <1>t, <1>u, <2>1
<1>4. OursAreOnRecord'
  <2> SUFFICES ASSUME NEW p \in InUse, Ours(p)' PROVE Accounted(p)'
    BY <1>t DEF OursAreOnRecord
  <2>1. Ours(p) /\ (AsUploaded(p)' <=> AsUploaded(p)) /\ (p < at => p # at)
    BY <1>p, <1>t DEF Ours, AsUploaded
  <2>2. Accounted(p)
    BY <2>1 DEF BooksInv, OursAreOnRecord
  <2> QED
    BY <1>p, <1>t, <2>1, <2>2 DEF Accounted, Before, Comparing
<1>5. FlushSees'
  BY <1>p, <1>t DEF BooksInv, FlushSees, Before, Comparing
<1>6. WipesAreNoticed'
  <2> SUFFICES ASSUME folder' = "ours", NEW p \in InUse, Missing(p)'
               PROVE  WipedWithOthers(p)' /\ WipedOffRecord(p)'
    BY <1>t DEF WipesAreNoticed
  <2>1. WipedWithOthers(p)'
    BY <1>p DEF WipedWithOthers, Before
  <2>2. Missing(p) /\ (p < at => p # at)
    BY <1>p, <1>t DEF Missing
  <2>3. WipedOffRecord(p)
    BY <1>p, <2>2 DEF BooksInv, WipesAreNoticed
  <2> QED
    BY <1>p, <1>t, <2>1, <2>2, <2>3 DEF WipedOffRecord, Comparing
<1> QED
  BY <1>1, <1>2, <1>3, <1>4, <1>5, <1>6 DEF BooksInv

LEMMA PassOverKeeps ==
  ASSUME SyncInv, BooksInv, [Next]_vars, PassOver
  PROVE  BooksInv'
<1>t. InUse' = InUse /\ InUse \subseteq Paths
  BY SetupStays, Shapes DEF InUse
<1>p. /\ pc' = "idle" /\ at' = 1 /\ pulls' = {} /\ UNCHANGED <<fscan, todo, up>>
      /\ \/ UNCHANGED fpc /\ life' \in {life, "running", "failed"} /\ (life' = "running" => life \in {"running", "download"})
         \/ fpc' = "scan" /\ life' = "flush" /\ fpc = "off"
  BY DEF PassOver
<1>u. \A p \in Paths : up'["sync"][p].st = "none"
  BY <1>p, StepInv, Parts DEF SyncInv, OneUpload
<1>1. Progress'
  BY <1>p DEF Progress, Comparing
<1>2. FlushIsLate'
  BY <1>p DEF BooksInv, FlushIsLate
<1>3. SentSince'
  BY <1>p, <1>t, <1>u DEF SentSince, Comparing
<1>4. OursAreOnRecord'
  BY <1>p, <1>t DEF PassOver, OursAreOnRecord, Accounted, Before, Comparing
<1>5. FlushSees'
  BY <1>p DEF FlushSees, Before, Comparing
<1>6. WipesAreNoticed'
  <2> SUFFICES ASSUME folder' = "ours", NEW p \in InUse, Missing(p)'
               PROVE  WipedWithOthers(p)' /\ WipedOffRecord(p)'
    BY <1>t DEF WipesAreNoticed
  <2>1. life' = "running" => \/ baseline'[p] = None /\ sent'[p] = None
                             \/ disk' = NoFiles /\ Cardinality(Synced(Wiped, remote)') > 1
    BY DEF PassOver
  <2> QED
    BY <1>p, <2>1 DEF WipedWithOthers, WipedOffRecord, Before, Comparing
<1> QED
  BY <1>1, <1>2, <1>3, <1>4, <1>5, <1>6 DEF BooksInv

-----------------------------------------------------------------------------
(* The paths of a pass, one by one.                                         *)

\* What is known at the path where the pass is.
LEMMA AtThePath ==
  ASSUME SyncInv, BooksInv, pc \in Comparing
  PROVE  /\ at \in Nat /\ at \notin pulls
         /\ at \in InUse /\ Ours(at) /\ life = "running" => remote[at] = Item /\ Item.sha = Base
         /\ at \in InUse /\ Ours(at) /\ ~AsUploaded(at) => remote[at] = Item /\ Item.sha = Base
         /\ at \in InUse /\ folder = "ours" /\ Missing(at) => Base = None /\ sent[at] = None /\ Local = None
         /\ at \in InUse /\ life = "running" /\ pc # "upload" => sent[at] = None
<1>1. at \in Nat /\ at \notin pulls
  BY Shapes DEF BooksInv, Progress
<1>2. at \in InUse /\ Ours(at) => (remote[at] = Item /\ Item.sha = Base) \/ AsUploaded(at)
  BY <1>1 DEF BooksInv, OursAreOnRecord, Accounted, Item, Base
<1>3. life = "running" => ~AsUploaded(at)
  BY DEF AsUploaded
<1>4. at \in InUse /\ folder = "ours" /\ Missing(at) => Base = None /\ sent[at] = None /\ Local = None
  BY <1>1 DEF BooksInv, WipesAreNoticed, WipedOffRecord, Base, Local
<1>5. at \in InUse /\ life = "running" /\ pc # "upload" => sent[at] = None
  BY <1>1 DEF BooksInv, SentSince
<1> QED
  BY <1>1, <1>2, <1>3, <1>4, <1>5

\* A path is done, and nothing happened to its file and its memory.
LEMMA PathPassed ==
  ASSUME SyncInv, BooksInv, pc \in Comparing, at \in InUse, NEW c, Keep(c),
         UNCHANGED <<disk, removed, remote, sent, folder, baseline, life, fpc, fscan, todo>>,
         \A p \in Paths : up'["flush"][p] = up["flush"][p],
         pulls' \subseteq pulls \cup {at}, at \in pulls' /\ Ours(at) => AsUploaded(at),
         life = "running" /\ Ours(at) => remote[at].sha \in {c, sent[at]},
         life = "running" /\ folder = "ours" /\ Missing(at) => c = None
  PROVE  PathDone(c)
<1>1. \A p \in {at} : /\ Ours(p)' <=> Ours(p)
                      /\ AsUploaded(p)' <=> AsUploaded(p)
                      /\ Missing(p)' <=> Missing(p)
  BY DEF Ours, AsUploaded, Missing
<1>2. folder = "ours" /\ Missing(at) => sent[at] = None
  BY AtThePath
<1> QED
  BY <1>1, <1>2 DEF PathDone, Keep, Kept

LEMMA StartingUpload ==
  ASSUME SyncInv, NEW c, NEW m, StartUpload("sync", at, c, m), at \in Paths
  PROVE  /\ \A p \in Paths : up'["flush"][p] = up["flush"][p]
         /\ up'["sync"][at].st = "read"
<1>1. UpTyped /\ "sync" \in Owners /\ "flush" \in Owners
  BY Shapes
<1> QED
  BY <1>1 DEF StartUpload, UpTyped

\* A file is pushed, kept back, or was refused.
LEMMA Pushes ==
  ASSUME SyncInv, BooksInv, pc = "path", at \in InUse, NEW local, Push(local), Local # None, Item.sha = None,
         UNCHANGED <<disk, removed, remote, sent, folder, baseline, life, fpc, fscan, todo, pulls>>
  PROVE  (\E c : PathDone(c)) \/ PathWaits
<1>t. pc \in Comparing /\ InUse \subseteq Paths
  BY Shapes DEF Comparing
<1>a. /\ at \notin pulls /\ at \in Paths
      /\ Ours(at) /\ life = "running" => remote[at] = Item
      /\ folder = "ours" /\ Missing(at) => Local = None
  BY <1>t, AtThePath
<1>1. CASE Keep(None) /\ UNCHANGED up
  <2>1. ~(life = "running" /\ Ours(at))
    BY <1>a DEF Ours
  <2> QED
    BY <1>1, <1>a, <1>t, <2>1, PathPassed
<1>2. CASE StartUpload("sync", at, local, NoMemory) /\ pc' = "upload"
           /\ UNCHANGED <<final, scan, listed, at, next, attempted>>
  <2>1. (\A p \in Paths : up'["flush"][p] = up["flush"][p]) /\ up'["sync"][at].st = "read"
    BY <1>2, <1>a, StartingUpload
  <2> QED
    BY <1>2, <1>t, <2>1 DEF PathWaits, Local
<1> QED
  BY <1>1, <1>2 DEF Push

LEMMA PathEffect ==
  ASSUME SyncInv, BooksInv, [Next]_vars,
         \/ HoldDelete \/ AskDelete \/ Confirm \/ DeleteAnswered \/ DeleteUnanswered
         \/ GoneOnBothSides \/ RemoveLocal \/ PushNew \/ Pull \/ Adopt \/ PushChange \/ InStep
  PROVE  (\E c : PathDone(c)) \/ PathWaits
<1>t. /\ InUse \subseteq Paths /\ remote \in [Paths -> Memory] /\ disk \in Files
      /\ removed \in [Paths -> {"kept", "gone", "midpass"}]
  BY Shapes
<1>a. /\ pc \in Comparing /\ at \in InUse /\ at \in Paths
      /\ UNCHANGED <<folder, baseline, sent, life, fpc, fscan, todo>>
  <2>1. pc \in {"path", "confirm", "delete"} /\ (pc = "path" => at \in InUse)
        /\ UNCHANGED <<folder, baseline, sent, life, fpc, fscan, todo>>
    BY DEF HoldDelete, AskDelete, Confirm, DeleteAnswered, DeleteUnanswered, GoneOnBothSides, RemoveLocal,
       PushNew, Pull, Adopt, PushChange, InStep, AtPath, flush
  <2> QED
    BY <1>t, <2>1 DEF SyncInv, InPlace, Comparing
<1>b. /\ at \notin pulls
      /\ Ours(at) /\ life = "running" => remote[at] = Item /\ Item.sha = Base
      /\ Ours(at) /\ ~AsUploaded(at) => remote[at] = Item /\ Item.sha = Base
      /\ folder = "ours" /\ Missing(at) => Base = None /\ sent[at] = None /\ Local = None
      /\ life = "running" /\ pc # "upload" => sent[at] = None
  BY <1>a, AtThePath
<1>c. Ours(at) => remote[at].sha # None
  BY DEF Ours
<1>d. pc \in {"confirm", "delete"} => Local = None /\ Base # None
  BY DEF BooksInv, Progress, Local, Base
\* A path that is done without a change.
<1>0. ASSUME NEW c, Keep(c), UNCHANGED <<disk, removed, remote, up, pulls>>,
             life = "running" /\ Ours(at) => remote[at].sha = c,
             folder = "ours" /\ Missing(at) => c = None
      PROVE  PathDone(c)
  BY <1>0, <1>a, <1>b, PathPassed
<1>1. CASE HoldDelete
  <2>1. Keep(Base) /\ UNCHANGED <<disk, removed, remote, up, pulls>>
    BY <1>1 DEF HoldDelete, ghosts
  <2> QED
    BY <1>0, <1>b, <2>1
<1>2. CASE AskDelete
  <2>1. Local = None /\ Base # None /\ pc = "path" /\ pc' = "confirm"
        /\ UNCHANGED <<disk, removed, remote, next, listed, scan, pulls, at, up>>
    BY <1>2 DEF AskDelete, Deleted, AtPath, ghosts
  <2> QED
    BY <1>a, <2>1 DEF PathWaits, Local, Base
<1>3. CASE Confirm
  <2>1. pc = "confirm" /\ UNCHANGED <<disk, removed, remote, up, pulls>>
    BY <1>3 DEF Confirm, ghosts
  <2>2. CASE Keep(Base)
    BY <1>0, <1>b, <2>1, <2>2
  <2>3. CASE next' = [next EXCEPT ![at] = Base] /\ at' = at + 1 /\ pc' = "path" /\ UNCHANGED <<final, scan, listed>>
             /\ attempted' = attempted + 1
    <3>1. \A p \in {at} : /\ Ours(p)' <=> Ours(p)
                          /\ Missing(p)' <=> Missing(p)
      BY <2>1 DEF Ours, Missing
    <3> QED
      BY <1>a, <1>b, <2>1, <2>3, <3>1 DEF PathDone, Kept
  <2>4. CASE pc' = "delete" /\ UNCHANGED <<next, at, scan, listed>>
    BY <1>a, <1>d, <2>1, <2>4 DEF PathWaits, Local, Base
  <2> QED
    BY <1>3, <2>2, <2>3, <2>4 DEF Confirm
<1>4. CASE DeleteAnswered \/ DeleteUnanswered
  <2>1. /\ pc = "delete" /\ UNCHANGED <<disk, removed, up, pulls>>
        /\ DeletedRemotely \/ (UNCHANGED remote /\ (DeleteAnswered => ~DeleteApplies))
        /\ (\E c : Keep(c) /\ (c # Base => DeleteAnswered /\ ~(remote[at].id = Item.id /\ remote[at].sha \notin {Base, None})))
    BY <1>4 DEF DeleteAnswered, DeleteUnanswered, ghosts
  <2>2. PICK c : Keep(c) /\ (c # Base => DeleteAnswered /\ ~(remote[at].id = Item.id /\ remote[at].sha \notin {Base, None}))
    BY <2>1
  <2>m. ~(folder = "ours" /\ Missing(at))
    BY <1>b, <1>d, <2>1
  <2>3. CASE DeletedRemotely
    <3>1. /\ \A p \in {at} : ~Ours(p)'
          /\ \A p \in Paths \ {at} : remote'[p] = remote[p]
      <4>1. [remote[at] EXCEPT !.sha = None, !.by = "us"].sha = None
        BY <1>a, <1>t DEF Memory
      <4> QED
        BY <1>a, <1>t, <2>3, <4>1 DEF DeletedRemotely, Ours
    <3>2. \A p \in {at} : Missing(p)' <=> Missing(p)
      BY <2>1 DEF Missing
    <3> QED
      BY <1>a, <2>1, <2>2, <2>m, <3>1, <3>2 DEF PathDone, Keep, Kept
  <2>4. CASE UNCHANGED remote /\ (DeleteAnswered => ~DeleteApplies)
    <3>1. life = "running" /\ Ours(at) => c = Base
      BY <1>b, <2>2, <2>4 DEF DeleteApplies
    <3> QED
      BY <1>0, <1>b, <2>1, <2>2, <2>4, <2>m, <3>1
  <2> QED
    BY <2>1, <2>3, <2>4
<1>5. CASE GoneOnBothSides
  <2>1. Keep(None) /\ Item.sha = None /\ UNCHANGED <<disk, removed, remote, up, pulls>>
    BY <1>5 DEF GoneOnBothSides, ghosts
  <2> QED
    BY <1>0, <1>b, <1>c, <2>1
<1>6. CASE RemoveLocal
  <2>1. pc = "path" /\ Item.sha = None /\ Local # None /\ UNCHANGED <<remote, pulls>>
    BY <1>6 DEF RemoveLocal, AtPath
  <2>2. CASE disk' = [disk EXCEPT ![at] = None] /\ Keep(None) /\ UNCHANGED up
             /\ removed' \in {removed, [removed EXCEPT ![at] = "kept"]}
    <3>1. /\ disk'[at] = None
          /\ \A p \in Paths \ {at} : disk'[p] = disk[p] /\ removed'[p] = removed[p]
      BY <1>a, <1>t, <2>2 DEF Files
    <3>2. \A p \in {at} : Ours(p)' => life # "running"
      BY <1>b, <2>1 DEF Ours
    <3> QED
      BY <1>a, <1>b, <2>1, <2>2, <3>1, <3>2 DEF PathDone, Keep, Kept
  <2>3. CASE Push(disk[at]) /\ UNCHANGED <<disk, removed>>
    BY <1>a, <2>1, <2>3, Pushes
  <2>4. CASE Keep(Base) /\ UNCHANGED <<disk, removed, up>>
    BY <1>0, <1>b, <2>1, <2>4
  <2> QED
    BY <1>6, <2>2, <2>3, <2>4 DEF RemoveLocal
<1>7. CASE PushNew
  <2>1. pc = "path" /\ Item.sha = None /\ Local # None /\ Push(Local) /\ UNCHANGED <<disk, removed, remote, pulls>>
    BY <1>7 DEF PushNew, AtPath, ghosts
  <2> QED
    BY <1>a, <2>1, Pushes
<1>8. CASE Pull
  <2>1. RemoteChanged /\ pulls' = pulls \cup {at} /\ Keep(Base) /\ UNCHANGED <<disk, removed, remote, up>>
    BY <1>8 DEF Pull, ghosts
  <2>2. Ours(at) => AsUploaded(at) /\ life # "running"
    BY <1>b, <2>1 DEF RemoteChanged
  <2> QED
    BY <1>a, <1>b, <2>1, <2>2, PathPassed
<1>9. CASE Adopt
  <2>1. RemoteChanged /\ Local = Item.sha /\ Keep(Item.sha) /\ UNCHANGED <<disk, removed, remote, up, pulls>>
    BY <1>9 DEF Adopt, ghosts
  <2> QED
    BY <1>0, <1>b, <2>1 DEF RemoteChanged
<1>10. CASE PushChange
  <2>1. pc = "path" /\ pc' = "upload" /\ Local # None /\ StartUpload("sync", at, Local, Item)
        /\ UNCHANGED <<disk, removed, remote, next, listed, scan, pulls, at>>
    BY <1>10 DEF PushChange, AtPath, LocalChanged, ghosts
  <2>2. (\A p \in Paths : up'["flush"][p] = up["flush"][p]) /\ up'["sync"][at].st = "read"
    BY <1>a, <2>1, StartingUpload
  <2> QED
    BY <1>a, <2>1, <2>2 DEF PathWaits, Local
<1>11. CASE InStep
  <2>1. Item.sha # None /\ Item.sha = Base /\ Keep(Item.sha) /\ UNCHANGED <<disk, removed, remote, up, pulls>>
    BY <1>11 DEF InStep, RemoteChanged, ghosts
  <2> QED
    BY <1>0, <1>b, <2>1
<1> QED
  BY <1>1, <1>2, <1>3, <1>4, <1>5, <1>6, <1>7, <1>8, <1>9, <1>10, <1>11

-----------------------------------------------------------------------------
(* The uploads.                                                             *)

\* An upload of the flush moves on: it reads its file, begins anew, or ends.
FlushUploads(p) ==
  LET u == up["flush"][p]
      v == up'["flush"][p]
  IN  /\ u.st \in {"read", "sent"}
      /\ UNCHANGED <<disk, folder, removed, pc, at, next, scan, listed, pulls, life, fpc, fscan, todo>>
      /\ \A q \in Paths : up'["sync"][q] = up["sync"][q]
      /\ \A q \in Paths \ {p} : /\ remote'[q] = remote[q] /\ baseline'[q] = baseline[q] /\ sent'[q] = sent[q]
                                /\ up'["flush"][q] = up["flush"][q]
      /\ v.st = "sent" => v.data = disk[p]
      /\ baseline[p] # None => baseline'[p] # None
      /\ \/ remote'[p] = remote[p] /\ baseline'[p] = baseline[p]
         \/ u.st = "sent" /\ remote'[p].sha = u.data

UploadIs(o, p, u) == up' = [up EXCEPT ![o][p] = u]

LEMMA UploadingUpdates ==
  ASSUME SyncInv, NEW o \in Owners, NEW p \in Paths, NEW u, UploadIs(o, p, u)
  PROVE  up'[o][p] = u /\ \A v \in Owners, q \in Paths : v # o \/ q # p => up'[v][q] = up[v][q]
<1>1. UpTyped
  BY Shapes
<1> QED
  BY <1>1 DEF UploadIs, UpTyped

LEMMA UploadedIs ==
  ASSUME SyncInv, NEW p \in Paths, NEW c, Uploaded(p, c)
  PROVE  remote'[p].sha = c /\ \A q \in Paths \ {p} : remote'[q] = remote[q]
<1>1. remote \in [Paths -> Memory]
  BY Shapes
<1> QED
  BY <1>1 DEF Uploaded

\* What becomes of an upload, of either.
LEMMA UploadOutcomes ==
  ASSUME SyncInv, NEW o \in Owners, NEW p \in Paths,
         UploadRead(o, p) \/ UploadAnswered(o, p) \/ UploadUnanswered(o, p)
  PROVE  LET u == up[o][p]
             v == up'[o][p]
             ends(sha) == IF o = "sync" THEN Keep(IF sha # None THEN sha ELSE Item.sha) /\ UNCHANGED baseline
                          ELSE /\ baseline' = IF sha # None THEN [baseline EXCEPT ![p] = sha] ELSE baseline
                               /\ UNCHANGED <<pc, scan, listed, at, next>>
             goes == UNCHANGED <<baseline, pc, scan, listed, at, next>>
         IN  /\ u.st \in {"read", "sent"}
             /\ UNCHANGED <<disk, folder, removed, pulls, life, fpc, fscan, todo>>
             /\ \A w \in Owners, q \in Paths : w # o \/ q # p => up'[w][q] = up[w][q]
             /\ \A q \in Paths \ {p} : remote'[q] = remote[q] /\ sent'[q] = sent[q]
             /\ \/ goes /\ v.st = "sent" /\ v.data = disk[p] /\ sent'[p] = disk[p] /\ UNCHANGED remote
                \/ goes /\ v.st = "read" /\ UNCHANGED <<remote, sent>>
                \/ ends(None) /\ v.st \in {"none", "lost"} /\ UNCHANGED <<remote, sent>>
                \/ ends(u.data) /\ v.st = "none" /\ u.st = "sent" /\ remote'[p].sha = u.data
                \/ ends(None) /\ v.st \in {"none", "lost"} /\ u.st = "sent" /\ remote'[p].sha = u.data /\ UNCHANGED sent
<1> DEFINE u == up[o][p]
           v == up'[o][p]
           ends(sha) == IF o = "sync" THEN Keep(IF sha # None THEN sha ELSE Item.sha) /\ UNCHANGED baseline
                        ELSE /\ baseline' = IF sha # None THEN [baseline EXCEPT ![p] = sha] ELSE baseline
                             /\ UNCHANGED <<pc, scan, listed, at, next>>
           goes == UNCHANGED <<baseline, pc, scan, listed, at, next>>
<1>t. UpTyped /\ sent \in Files /\ NoUpload.st = "none"
  BY Shapes, Constants
<1>0. /\ u.st \in {"read", "sent"}
      /\ UNCHANGED <<disk, folder, removed, pulls, life, fpc, fscan, todo>>
  BY DEF UploadRead, UploadAnswered, UploadUnanswered, ghosts, flush
<1>n. ASSUME NEW sha, UploadEnds(o, p, sha)
      PROVE  /\ ends(sha) /\ v.st = "none"
             /\ \A w \in Owners, q \in Paths : w # o \/ q # p => up'[w][q] = up[w][q]
  <2>1. UploadIs(o, p, NoUpload)
    BY <1>n DEF UploadEnds, UploadIs
  <2> QED
    BY <1>n, <1>t, <2>1, UploadingUpdates DEF UploadEnds
<1>l. ASSUME UploadLost(o, p)
      PROVE  /\ ends(None) /\ v.st \in {"none", "lost"}
             /\ \A w \in Owners, q \in Paths : w # o \/ q # p => up'[w][q] = up[w][q]
  <2> DEFINE x == [NoUpload EXCEPT !.st = IF o = "flush" THEN "lost" ELSE "none"]
  <2>1. UploadIs(o, p, x)
    BY <1>l DEF UploadLost, UploadIs
  <2>2. x.st \in {"none", "lost"}
    BY DEF NoUpload
  <2> HIDE DEF x
  <2> QED
    BY <1>l, <2>1, <2>2, UploadingUpdates DEF UploadLost
<1>1. CASE UploadRead(o, p)
  <2>1. CASE disk[p] = None
    BY <1>0, <1>1, <1>n, <2>1 DEF UploadRead
  <2>2. CASE disk[p] # None
    <3> DEFINE x == [up[o][p] EXCEPT !.st = "sent", !.data = disk[p]]
    <3>1. sent' = [sent EXCEPT ![p] = disk[p]] /\ UNCHANGED <<remote, baseline, pc, scan, listed, at, next>>
      BY <1>1, <2>2 DEF UploadRead
    <3>2. UploadIs(o, p, x)
      BY <1>1, <1>t, <2>2 DEF UploadRead, UpTyped, UploadIs
    <3>3. x.st = "sent" /\ x.data = disk[p]
      BY <1>t DEF UpTyped, Upload
    <3>4. sent'[p] = disk[p] /\ \A q \in Paths \ {p} : sent'[q] = sent[q]
      BY <1>t, <3>1 DEF Files
    <3> HIDE DEF x
    <3>5. v = x /\ \A w \in Owners, q \in Paths : w # o \/ q # p => up'[w][q] = up[w][q]
      BY <3>2, UploadingUpdates
    <3> QED
      BY <1>0, <3>1, <3>3, <3>4, <3>5
  <2> QED
    BY <2>1, <2>2
<1>2. CASE UploadAnswered(o, p)
  <2>1. CASE /\ Uploaded(p, u.data) /\ sent' = [sent EXCEPT ![p] = None] /\ UploadEnds(o, p, u.data)
    <3>1. remote'[p].sha = u.data /\ \A q \in Paths \ {p} : remote'[q] = remote[q] /\ sent'[q] = sent[q]
      BY <1>t, <2>1, UploadedIs DEF Files
    <3> QED
      BY <1>0, <1>2, <1>n, <2>1, <3>1 DEF UploadAnswered
  <2>2. CASE UploadEnds(o, p, None) /\ UNCHANGED <<remote, sent>>
    BY <1>0, <1>n, <2>2
  <2>3. CASE /\ StartUpload(o, p, u.local, NoMemory)
             /\ UNCHANGED <<remote, refused, sent, baseline, pc, final, scan, listed, at, next, attempted>>
    <3> DEFINE x == [st |-> "read", item |-> NoMemory, local |-> u.local, data |-> None]
    <3>1. UploadIs(o, p, x) /\ x.st = "read"
      BY <2>3 DEF StartUpload, UploadIs
    <3> HIDE DEF x
    <3>2. v = x /\ \A w \in Owners, q \in Paths : w # o \/ q # p => up'[w][q] = up[w][q]
      BY <3>1, UploadingUpdates
    <3> QED
      BY <1>0, <2>3, <3>1, <3>2
  <2> QED
    BY <1>2, <2>1, <2>2, <2>3 DEF UploadAnswered
<1>3. CASE UploadUnanswered(o, p)
  <2>1. u.st = "sent" /\ UploadLost(o, p) /\ UNCHANGED sent /\ (Uploaded(p, u.data) \/ UNCHANGED remote)
    BY <1>3 DEF UploadUnanswered
  <2>2. CASE Uploaded(p, u.data)
    <3>1. remote'[p].sha = u.data /\ \A q \in Paths \ {p} : remote'[q] = remote[q]
      BY <2>2, UploadedIs
    <3> QED
      BY <1>0, <1>l, <2>1, <3>1
  <2>3. CASE UNCHANGED remote
    BY <1>0, <1>l, <2>1, <2>3
  <2> QED
    BY <2>1, <2>2, <2>3
<1> QED
  BY <1>1, <1>2, <1>3

LEMMA SyncUploadEffect ==
  ASSUME SyncInv, BooksInv, [Next]_vars, NEW p \in Paths,
         UploadRead("sync", p) \/ UploadAnswered("sync", p) \/ UploadUnanswered("sync", p)
  PROVE  (\E c : PathDone(c)) \/ PathWaits
<1> DEFINE u == up["sync"][p]
           v == up'["sync"][p]
<1>1. /\ u.st \in {"read", "sent"}
      /\ UNCHANGED <<disk, folder, removed, pulls, life, fpc, fscan, todo, baseline>>
      /\ \A q \in Paths : up'["flush"][q] = up["flush"][q]
      /\ \A q \in Paths \ {p} : remote'[q] = remote[q] /\ sent'[q] = sent[q]
      /\ \/ /\ UNCHANGED <<pc, scan, listed, at, next, remote>>
            /\ (v.st = "sent" /\ v.data = disk[p] /\ sent'[p] = disk[p]) \/ v.st = "read"
         \/ Keep(Item.sha) /\ UNCHANGED <<remote, sent>>
         \/ Keep(IF u.data # None THEN u.data ELSE Item.sha) /\ u.st = "sent" /\ remote'[p].sha = u.data
         \/ Keep(Item.sha) /\ u.st = "sent" /\ remote'[p].sha = u.data /\ UNCHANGED sent
  BY Shapes, UploadOutcomes
<1>2. pc = "upload" /\ p = at /\ at \in InUse /\ pc \in Comparing
  BY <1>1, Parts DEF SyncInv, OneUpload, InPlace, Comparing
<1>3. /\ at \notin pulls /\ Local # None
      /\ Ours(at) /\ life = "running" => remote[at] = Item
      /\ ~(folder = "ours" /\ Missing(at))
  BY <1>2, AtThePath DEF BooksInv, Progress, Local
<1>4. CASE /\ UNCHANGED <<pc, scan, listed, at, next, remote>>
           /\ (v.st = "sent" /\ v.data = disk[p] /\ sent'[p] = disk[p]) \/ v.st = "read"
  BY <1>1, <1>2, <1>3, <1>4 DEF PathWaits, Local
<1>5. CASE Keep(Item.sha) /\ UNCHANGED <<remote, sent>>
  BY <1>1, <1>2, <1>3, <1>5, PathPassed
<1>6. ASSUME NEW c, Keep(c), u.st = "sent", remote'[p].sha = u.data,
             u.data # None => c = u.data \/ UNCHANGED sent
      PROVE  PathDone(c)
  <2>1. life = "running" => sent[p] = u.data
    BY <1>2, <1>6 DEF BooksInv, SentSince
  <2>2. Ours(p)' => u.data # None
    BY <1>6 DEF Ours
  <2>3. (Ours(p)' /\ life = "running" => remote'[p].sha \in {c, sent'[p]}) /\ (Missing(p)' <=> Missing(p))
    BY <1>1, <1>6, <2>1, <2>2 DEF Missing
  <2> QED
    BY <1>1, <1>2, <1>3, <1>6, <2>3 DEF PathDone, Keep, Kept
<1>7. CASE Keep(IF u.data # None THEN u.data ELSE Item.sha) /\ u.st = "sent" /\ remote'[p].sha = u.data
  BY <1>6, <1>7
<1>8. CASE Keep(Item.sha) /\ u.st = "sent" /\ remote'[p].sha = u.data /\ UNCHANGED sent
  BY <1>6, <1>8
<1> QED
  BY <1>1, <1>4, <1>5, <1>7, <1>8

LEMMA FlushUploadEffect ==
  ASSUME SyncInv, BooksInv, NEW p \in Paths,
         UploadRead("flush", p) \/ UploadAnswered("flush", p) \/ UploadUnanswered("flush", p)
  PROVE  FlushUploads(p)
<1> DEFINE u == up["flush"][p]
           v == up'["flush"][p]
<1>t. baseline \in Files
  BY Shapes
<1>1. /\ u.st \in {"read", "sent"}
      /\ UNCHANGED <<disk, folder, removed, pulls, life, fpc, fscan, todo, pc, scan, listed, at, next>>
      /\ \A q \in Paths : up'["sync"][q] = up["sync"][q]
      /\ \A q \in Paths \ {p} : up'["flush"][q] = up["flush"][q]
      /\ \A q \in Paths \ {p} : remote'[q] = remote[q] /\ sent'[q] = sent[q]
      /\ v.st = "sent" => v.data = disk[p]
      /\ \/ UNCHANGED <<remote, baseline>>
         \/ /\ u.st = "sent" /\ remote'[p].sha = u.data
            /\ baseline' = (IF u.data # None THEN [baseline EXCEPT ![p] = u.data] ELSE baseline) \/ UNCHANGED baseline
  BY Shapes, UploadOutcomes
<1>2. CASE UNCHANGED <<remote, baseline>>
  BY <1>1, <1>2 DEF FlushUploads
<1>3. CASE u.st = "sent" /\ remote'[p].sha = u.data
  <2>1. /\ \A q \in Paths \ {p} : baseline'[q] = baseline[q]
        /\ baseline[p] # None => baseline'[p] # None
    BY <1>1, <1>t DEF Files
  <2> QED
    BY <1>1, <1>3, <2>1 DEF FlushUploads
<1> QED
  BY <1>1, <1>2, <1>3

LEMMA FlushUploadsKeeps ==
  ASSUME SyncInv, BooksInv, [Next]_vars, NEW p \in Paths, FlushUploads(p)
  PROVE  BooksInv'
<1> DEFINE u == up["flush"][p]
           v == up'["flush"][p]
<1>t. InUse' = InUse /\ InUse \subseteq Paths /\ at \in Nat /\ Paths \subseteq Nat
  BY Shapes, SetupStays DEF InUse
<1>1. /\ u.st \in {"read", "sent"}
      /\ UNCHANGED <<disk, folder, removed, pc, at, next, scan, listed, pulls, life, fpc, fscan, todo>>
      /\ \A q \in Paths : up'["sync"][q] = up["sync"][q]
      /\ \A q \in Paths \ {p} : /\ remote'[q] = remote[q] /\ baseline'[q] = baseline[q] /\ sent'[q] = sent[q]
                                /\ up'["flush"][q] = up["flush"][q]
      /\ v.st = "sent" => v.data = disk[p]
      /\ baseline[p] # None => baseline'[p] # None
      /\ \/ remote'[p] = remote[p] /\ baseline'[p] = baseline[p]
         \/ u.st = "sent" /\ remote'[p].sha = u.data
  BY DEF FlushUploads
<1>2. fpc = "upload" /\ life \notin {"download", "running", "finish"}
  BY <1>1 DEF BooksInv, FlushIsLate
<1>3. /\ u.st = "sent" /\ pc \in Before \cup Comparing \cup {"pull"} /\ (pc = "pull" => p \in pulls)
           => disk[p] \in {None, u.data}
      /\ folder = "ours" /\ pc \in Before \cup Comparing /\ (pc \in Comparing => p >= at) => disk[p] # None
  BY <1>1 DEF BooksInv, FlushSees
<1>4. Progress'
  <2>1. pc \in {"confirm", "delete"} => baseline'[at] # None
    <3>1. pc \in {"confirm", "delete"} => baseline[at] # None /\ at \in Paths
      BY <1>t DEF BooksInv, Progress, SyncInv, InPlace
    <3> QED
      BY <1>1, <3>1
  <2> QED
    BY <1>1, <1>t, <2>1 DEF BooksInv, Progress
<1>5. FlushIsLate'
  BY <1>1, <1>2 DEF BooksInv, FlushIsLate
<1>6. SentSince'
  BY <1>1, <1>2 DEF SentSince
<1>7. OursAreOnRecord'
  <2> SUFFICES ASSUME NEW q \in InUse, Ours(q)' PROVE Accounted(q)'
    BY <1>t DEF OursAreOnRecord
  <2>1. CASE q # p
    <3>1. remote'[q] = remote[q] /\ baseline'[q] = baseline[q] /\ sent'[q] = sent[q]
      BY <1>1, <1>t, <2>1
    <3>2. Ours(q) /\ (AsUploaded(q)' <=> AsUploaded(q))
      BY <1>1, <3>1 DEF Ours, AsUploaded
    <3>3. Accounted(q)
      BY <3>2 DEF BooksInv, OursAreOnRecord
    <3> QED
      BY <1>1, <3>1, <3>2, <3>3 DEF Accounted
  <2>2. CASE q = p /\ remote'[p] = remote[p] /\ baseline'[p] = baseline[p]
    <3>2. Ours(q) /\ (AsUploaded(q)' <=> AsUploaded(q))
      BY <1>1, <2>2 DEF Ours, AsUploaded
    <3>3. Accounted(q)
      BY <3>2 DEF BooksInv, OursAreOnRecord
    <3> QED
      BY <1>1, <1>2, <2>2, <3>2, <3>3 DEF Accounted, Comparing, Before
  <2>3. CASE q = p /\ u.st = "sent" /\ remote'[p].sha = u.data
    <3>1. pc \in Before \cup Comparing \cup {"pull"} /\ (pc = "pull" => p \in pulls) => AsUploaded(q)'
      BY <1>1, <1>2, <1>3, <2>3 DEF AsUploaded
    <3> QED
      BY <1>1, <1>2, <2>3, <3>1 DEF Accounted, Before, Comparing
  <2> QED
    BY <1>1, <2>1, <2>2, <2>3
<1>8. FlushSees'
  <2> SUFFICES ASSUME NEW q \in Paths
               PROVE  LET x == up'["flush"][q] IN
                /\ x.st = "sent" /\ pc \in Before \cup Comparing \cup {"pull"} /\ (pc = "pull" => q \in pulls)
                     => disk[q] \in {None, x.data}
                /\ folder = "ours" /\ pc \in Before \cup Comparing /\ (pc \in Comparing => q >= at)
                     /\ (q \in todo \/ x.st # "none") => disk[q] # None
    BY <1>1 DEF FlushSees
  <2>1. CASE q = p
    BY <1>1, <1>3, <2>1
  <2>2. CASE q # p
    BY <1>1, <2>2 DEF BooksInv, FlushSees
  <2> QED
    BY <2>1, <2>2
<1>9. WipesAreNoticed'
  <2> SUFFICES ASSUME folder' = "ours", NEW q \in InUse, Missing(q)'
               PROVE  WipedWithOthers(q)' /\ WipedOffRecord(q)'
    BY <1>t DEF WipesAreNoticed
  <2>1. Missing(q) /\ WipedWithOthers(q) /\ WipedOffRecord(q) /\ folder = "ours"
    BY <1>1 DEF BooksInv, WipesAreNoticed, Missing
  <2>2. WipedWithOthers(q)'
    <3> SUFFICES ASSUME pc \in Before, baseline'[q] # None \/ sent'[q] # None
                 PROVE  /\ disk = NoFiles /\ (pc = "list" => scan = NoFiles)
                        /\ Cardinality(Synced(Wiped, remote)') > 1
      BY <1>1, <1>2 DEF WipedWithOthers
    <3>1. disk[p] # None
      BY <1>3, <2>1 DEF Before, Comparing
    <3>2. q # p /\ Wiped' = Wiped /\ p \notin Wiped
      BY <1>1, <2>1, <3>1 DEF Missing, Wiped
    <3>3. Synced(Wiped, remote)' = Synced(Wiped, remote)
      BY <1>1, <3>2 DEF Synced, Wiped
    <3>4. baseline[q] # None \/ sent[q] # None
      BY <1>1, <1>t, <3>2
    <3> QED
      BY <2>1, <3>3, <3>4 DEF WipedWithOthers
  <2>3. WipedOffRecord(q)'
    <3>1. pc \in Comparing /\ q >= at => q # p
      BY <1>3, <2>1 DEF Missing
    <3> QED
      BY <1>1, <1>2, <1>t, <2>1, <3>1 DEF WipedOffRecord, Comparing
  <2> QED
    BY <2>2, <2>3
<1> QED
  BY <1>4, <1>5, <1>6, <1>7, <1>8, <1>9 DEF BooksInv

LEMMA UploadKeeps ==
  ASSUME SyncInv, BooksInv, [Next]_vars, \E o \in Owners : UploadStep(o)
  PROVE  BooksInv'
<1>1. PICK o \in Owners, p \in Paths : UploadRead(o, p) \/ UploadAnswered(o, p) \/ UploadUnanswered(o, p)
  BY DEF UploadStep
<1>2. CASE o = "sync"
  BY <1>1, <1>2, SyncUploadEffect, PathDoneKeeps, PathWaitsKeeps
<1>3. CASE o = "flush"
  BY <1>1, <1>3, FlushUploadEffect, FlushUploadsKeeps
<1> QED
  BY <1>2, <1>3 DEF Owners

-----------------------------------------------------------------------------
(* The agent and the other clients.                                         *)

\* Sets of names are finite, and counted alike.
LEMMA Counting ==
  /\ \A S \in SUBSET Paths : Cardinality(S) \in Nat
  /\ \A S, T \in SUBSET Paths : S \subseteq T /\ Cardinality(S) > 1 => Cardinality(T) > 1
<1>1. IsFiniteSet(Paths)
  BY MemoryAssumption, FS_Interval DEF Paths
<1>2. \A S \in SUBSET Paths : IsFiniteSet(S) /\ Cardinality(S) \in Nat
  BY <1>1, FS_Subset, FS_CardinalityType
<1>3. ASSUME NEW S \in SUBSET Paths, NEW T \in SUBSET Paths, S \subseteq T, Cardinality(S) > 1
      PROVE  Cardinality(T) > 1
  <2>1. Cardinality(S) <= Cardinality(T)
    BY <1>2, <1>3, FS_Subset
  <2> QED
    BY <1>2, <1>3, <2>1
<1> QED
  BY <1>2, <1>3

\* A step after which what is missing was missing, or has just been wiped with others.
LEMMA FolderChanges ==
  ASSUME SyncInv, BooksInv, [Next]_vars, life = "running",
         UNCHANGED <<remote, baseline, sent, pc, scan, listed, at, next, pulls, fpc, fscan, todo, life, up>>,
         folder' = "ours" => \A p \in InUse : Missing(p)' =>
           \/ /\ folder = "ours" /\ Missing(p) /\ Wiped \subseteq Wiped'
              /\ disk = NoFiles => disk' = NoFiles
           \/ pc \in {"idle", "scan"} /\ disk' = NoFiles /\ Cardinality(Synced(Wiped, remote)') > 1
  PROVE  BooksInv'
<1>t. InUse' = InUse /\ InUse \subseteq Paths
  BY Shapes, SetupStays DEF InUse
<1>f. fpc = "off" /\ todo = {} /\ \A p \in Paths : up["flush"][p].st = "none"
  BY DEF BooksInv, FlushIsLate
<1>1. Progress'
  BY <1>t DEF BooksInv, Progress
<1>2. FlushIsLate'
  BY DEF BooksInv, FlushIsLate
<1>3. SentSince'
  BY <1>t DEF BooksInv, SentSince
<1>4. OursAreOnRecord'
  <2> SUFFICES ASSUME NEW p \in InUse, Ours(p)' PROVE Accounted(p)'
    BY <1>t DEF OursAreOnRecord
  <2>1. Ours(p) /\ ~AsUploaded(p)
    BY DEF Ours, AsUploaded
  <2>2. Accounted(p)
    BY <2>1 DEF BooksInv, OursAreOnRecord
  <2> QED
    BY <1>f, <2>1, <2>2 DEF Accounted
<1>5. FlushSees'
  BY <1>f DEF FlushSees
<1>6. WipesAreNoticed'
  <2> SUFFICES ASSUME folder' = "ours", NEW p \in InUse, Missing(p)'
               PROVE  WipedWithOthers(p)' /\ WipedOffRecord(p)'
    BY <1>t DEF WipesAreNoticed
  <2>1. CASE /\ folder = "ours" /\ Missing(p) /\ Wiped \subseteq Wiped'
             /\ disk = NoFiles => disk' = NoFiles
    <3>1. WipedWithOthers(p) /\ WipedOffRecord(p)
      BY <2>1 DEF BooksInv, WipesAreNoticed
    <3>2. Synced(Wiped, remote) \subseteq Synced(Wiped, remote)'
      BY <2>1 DEF Synced
    <3>3. Cardinality(Synced(Wiped, remote)) > 1 => Cardinality(Synced(Wiped, remote)') > 1
      <4>1. Synced(Wiped, remote) \in SUBSET Paths /\ Synced(Wiped, remote)' \in SUBSET Paths
        BY DEF Synced, Wiped
      <4> QED
        BY <3>2, <4>1, Counting
    <3>4. WipedWithOthers(p)'
      BY <2>1, <3>1, <3>3 DEF WipedWithOthers
    <3> QED
      BY <3>1, <3>4 DEF WipedOffRecord
  <2>2. CASE pc \in {"idle", "scan"} /\ disk' = NoFiles /\ Cardinality(Synced(Wiped, remote)') > 1
    BY <2>2 DEF WipedWithOthers, WipedOffRecord, Before, Comparing
  <2> QED
    BY <2>1, <2>2
<1> QED
  BY <1>1, <1>2, <1>3, <1>4, <1>5, <1>6 DEF BooksInv

LEMMA AgentKeeps ==
  ASSUME SyncInv, BooksInv, [Next]_vars, Agent
  PROVE  BooksInv'
<1>t. /\ InUse \subseteq Paths /\ disk \in Files /\ removed \in [Paths -> {"kept", "gone", "midpass"}]
      /\ None \notin Contents /\ NoFiles \in Files /\ \A p \in Paths : NoFiles[p] = None
  BY Shapes, Constants
<1>1. /\ life = "running"
      /\ UNCHANGED <<remote, baseline, sent, pc, scan, listed, at, next, pulls, fpc, fscan, todo, life, up>>
  BY DEF Agent, WipeFiles, WipeFolder, SwapFolder, Edit, Remove, AgentActs, AgentLeaves, store, pass, flush
<1>2. CASE WipeFolder \/ SwapFolder
  <2>1. folder' # "ours"
    BY <1>2 DEF WipeFolder, SwapFolder
  <2> QED
    BY <1>1, <2>1, FolderChanges
<1>3. CASE \E p \in InUse : Edit(p)
  <2>1. PICK p \in InUse, c \in Contents : disk' = [disk EXCEPT ![p] = c] /\
          removed' = [q \in Paths |-> IF q # p /\ disk[q] = None THEN "gone" ELSE "kept"]
    BY <1>3 DEF Edit
  <2>2. \A q \in InUse : ~Missing(q)'
    BY <1>t, <2>1 DEF Missing, Files
  <2> QED
    BY <1>1, <2>2, FolderChanges
<1>4. CASE \E p \in InUse : Remove(p)
  <2>1. PICK p \in InUse : /\ disk[p] # None /\ disk' = [disk EXCEPT ![p] = None]
                           /\ removed' = [removed EXCEPT ![p] = "gone"] /\ UNCHANGED folder
    BY <1>4 DEF Remove
  <2>2. Wiped \subseteq Wiped' /\ (\A q \in InUse : Missing(q)' => Missing(q)) /\ disk # NoFiles
    BY <1>t, <2>1 DEF Missing, Wiped, Files
  <2> QED
    BY <1>1, <2>1, <2>2, FolderChanges
<1>5. CASE WipeFiles
  <2> DEFINE how(p) == CASE disk[p] = None -> removed[p]
                         [] disk[p] # None /\ Cardinality(Synced(Present(disk), remote)) <= 1 -> "gone"
                         [] OTHER -> IF pc \in {"idle", "scan"} THEN "kept" ELSE "midpass"
  <2>1. disk' = NoFiles /\ UNCHANGED folder /\ removed' = [p \in Paths |-> how(p)]
    BY <1>5 DEF WipeFiles
  <2>2. /\ \A p \in Paths : disk[p] = None => removed'[p] = removed[p]
        /\ \A p \in Paths : disk[p] # None /\ removed'[p] = "kept" =>
             pc \in {"idle", "scan"} /\ ~(Cardinality(Synced(Present(disk), remote)) <= 1)
        /\ \A p, q \in Paths : disk[p] # None /\ disk[q] # None => removed'[p] = removed'[q]
    BY <2>1
  <2>3. Wiped \subseteq Wiped'
    BY <1>t, <2>1, <2>2 DEF Wiped
  <2>4. ASSUME NEW p \in InUse, Missing(p)', disk[p] # None
        PROVE  pc \in {"idle", "scan"} /\ Cardinality(Synced(Wiped, remote)') > 1
    <3>1. removed'[p] = "kept" /\ p \in Paths
      BY <1>t, <2>4 DEF Missing
    <3>2. Present(disk) \subseteq Wiped'
      BY <1>t, <2>1, <2>2, <2>4, <3>1 DEF Present, Wiped
    <3>3. Synced(Present(disk), remote) \subseteq Synced(Wiped, remote)'
      BY <1>1, <3>2 DEF Synced
    <3>4. Synced(Present(disk), remote) \in SUBSET Paths /\ Synced(Wiped, remote)' \in SUBSET Paths
      BY DEF Synced, Present, Wiped
    <3>5. pc \in {"idle", "scan"} /\ Cardinality(Synced(Present(disk), remote)) > 1
      BY <2>2, <2>4, <3>1, <3>4, Counting
    <3> QED
      BY <3>3, <3>4, <3>5, Counting
  <2>5. \A p \in InUse : Missing(p)' /\ disk[p] = None => Missing(p)
    BY <1>t, <2>2 DEF Missing
  <2> QED
    BY <1>1, <2>1, <2>3, <2>4, <2>5, FolderChanges
<1> QED
  BY <1>2, <1>3, <1>4, <1>5 DEF Agent

LEMMA OtherClientKeeps ==
  ASSUME SyncInv, BooksInv, [Next]_vars, NEW p \in InUse, OtherClient(p)
  PROVE  BooksInv'
<1> DEFINE lone(q) == q \in Wiped /\ Cardinality(Synced(Wiped, remote')) <= 1
<1>t. InUse' = InUse /\ InUse \subseteq Paths /\ remote \in [Paths -> Memory]
  BY Shapes, SetupStays DEF InUse
<1>1. UNCHANGED <<disk, folder, baseline, sent, pc, scan, listed, at, next, pulls, fpc, fscan, todo, life, up>>
  BY DEF OtherClient, store, pass, flush
<1>2. removed' = [q \in Paths |-> IF lone(q) THEN "gone" ELSE removed[q]]
  BY DEF OtherClient, Wiped
<1>3. ~Ours(p)' /\ \A q \in Paths \ {p} : remote'[q] = remote[q]
  <2>1. PICK c : remote' = [remote EXCEPT ![p] =
                   [id |-> IF @.sha = None THEN @.id + 1 ELSE @.id, sha |-> c, by |-> "other"]]
    BY DEF OtherClient
  <2>2. remote'[p].by = "other"
    BY <1>t, <2>1
  <2> QED
    BY <1>t, <2>1, <2>2 DEF Ours
<1>4. Progress'
  BY <1>1, <1>t DEF BooksInv, Progress
<1>5. FlushIsLate'
  BY <1>1 DEF BooksInv, FlushIsLate
<1>6. SentSince'
  BY <1>1, <1>t DEF BooksInv, SentSince
<1>7. OursAreOnRecord'
  <2> SUFFICES ASSUME NEW q \in InUse, Ours(q)' PROVE Accounted(q)'
    BY <1>t DEF OursAreOnRecord
  <2>1. remote'[q] = remote[q]
    BY <1>3, <1>t
  <2>2. Ours(q) /\ (AsUploaded(q)' <=> AsUploaded(q))
    BY <1>1, <2>1 DEF Ours, AsUploaded
  <2>3. Accounted(q)
    BY <2>2 DEF BooksInv, OursAreOnRecord
  <2> QED
    BY <1>1, <2>1, <2>2, <2>3 DEF Accounted
<1>8. FlushSees'
  BY <1>1 DEF BooksInv, FlushSees
<1>9. WipesAreNoticed'
  <2> SUFFICES ASSUME folder' = "ours", NEW q \in InUse, Missing(q)'
               PROVE  WipedWithOthers(q)' /\ WipedOffRecord(q)'
    BY <1>t DEF WipesAreNoticed
  <2>1. removed[q] = "kept" /\ ~lone(q) /\ disk[q] = None
    BY <1>1, <1>2, <1>t DEF Missing
  <2>2. Missing(q) /\ q \in Wiped
    BY <1>t, <2>1 DEF Missing, Wiped
  <2>3. WipedWithOthers(q) /\ WipedOffRecord(q)
    BY <1>1, <2>2 DEF BooksInv, WipesAreNoticed
  <2>4. ~(Cardinality(Synced(Wiped, remote')) <= 1)
    BY <2>1, <2>2
  <2>5. Wiped' = Wiped
    <3>1. removed' = [r \in Paths |-> removed[r]]
      BY <1>2, <2>4
    <3> QED
      BY <1>1, <3>1 DEF Wiped
  <2>6. Synced(Wiped, remote)' = Synced(Wiped, remote')
    BY <1>1, <2>5 DEF Synced
  <2>7. Cardinality(Synced(Wiped, remote)') > 1
    <3>1. Synced(Wiped, remote') \in SUBSET Paths
      BY DEF Synced, Wiped
    <3> QED
      BY <2>4, <2>6, <3>1, Counting
  <2>8. WipedWithOthers(q)'
    BY <1>1, <2>3, <2>7 DEF WipedWithOthers
  <2> QED
    BY <1>1, <2>3, <2>8 DEF WipedOffRecord
<1> QED
  BY <1>4, <1>5, <1>6, <1>7, <1>8, <1>9 DEF BooksInv

-----------------------------------------------------------------------------
(* How a pass begins, and the teardown.                                     *)

LEMMA QuietKeeps ==
  ASSUME SyncInv, BooksInv, [Next]_vars,
         UNCHANGED <<disk, folder, remote, baseline, sent, pc, scan, listed, at, next, pulls, fpc, fscan, todo,
                     life, up, removed>>
  PROVE  BooksInv'
<1>t. InUse' = InUse
  BY SetupStays DEF InUse
<1>1. Progress' /\ FlushIsLate' /\ SentSince' /\ FlushSees'
  BY <1>t DEF BooksInv, Progress, FlushIsLate, SentSince, FlushSees
<1>2. OursAreOnRecord'
  <2>1. \A p \in InUse : (Ours(p)' <=> Ours(p)) /\ (Accounted(p)' <=> Accounted(p))
    BY DEF Ours, Accounted, AsUploaded
  <2> QED
    BY <1>t, <2>1 DEF BooksInv, OursAreOnRecord
<1>3. WipesAreNoticed'
  <2>1. Synced(Wiped, remote)' = Synced(Wiped, remote)
    BY DEF Synced, Wiped
  <2>2. \A p \in InUse : /\ Missing(p)' <=> Missing(p)
                         /\ WipedWithOthers(p)' <=> WipedWithOthers(p)
                         /\ WipedOffRecord(p)' <=> WipedOffRecord(p)
    BY <2>1 DEF Missing, WipedWithOthers, WipedOffRecord
  <2> QED
    BY <1>t, <2>2 DEF BooksInv, WipesAreNoticed
<1> QED
  BY <1>1, <1>2, <1>3 DEF BooksInv

\* What a step of the worker or the flush leaves as it is, when nothing else says so.
Untouched == UNCHANGED <<disk, folder, remote, baseline, sent, scan, listed, at, next, pulls, removed>>

LEMMA WipesStay ==
  ASSUME SyncInv, BooksInv, [Next]_vars, Untouched, pc' \in {pc, "scan"},
         pc' # pc => pc = "idle" /\ life = "running",
         life' \in {"running", "download"} => life' = life
  PROVE  WipesAreNoticed'
<1>t. InUse' = InUse
  BY SetupStays DEF InUse
<1> SUFFICES ASSUME folder' = "ours", NEW p \in InUse, Missing(p)'
             PROVE  WipedWithOthers(p)' /\ WipedOffRecord(p)'
  BY <1>t DEF WipesAreNoticed
<1>1. Synced(Wiped, remote)' = Synced(Wiped, remote)
  BY DEF Untouched, Synced, Wiped
<1>2. WipedWithOthers(p) /\ WipedOffRecord(p)
  BY DEF Untouched, BooksInv, WipesAreNoticed, Missing
<1>3. WipedWithOthers(p)'
  BY <1>1, <1>2 DEF Untouched, WipedWithOthers, Before
<1>4. WipedOffRecord(p)'
  BY <1>2 DEF Untouched, WipedOffRecord, Comparing
<1> QED
  BY <1>3, <1>4

LEMMA BeginsKeeps ==
  ASSUME SyncInv, BooksInv, [Next]_vars, SyncIfDue \/ Finish
  PROVE  BooksInv'
<1>t. InUse' = InUse /\ InUse \subseteq Paths
  BY Shapes, SetupStays DEF InUse
<1>1. /\ pc = "idle" /\ pc' = "scan" /\ life = "running" /\ life' \in {"running", "finish"} /\ Untouched
      /\ UNCHANGED <<fpc, fscan, todo, up>>
  BY DEF SyncIfDue, Finish, Untouched, store, flush, ghosts
<1>f. fpc = "off" /\ todo = {} /\ \A p \in Paths : up["flush"][p].st = "none"
  BY <1>1 DEF BooksInv, FlushIsLate
<1>2. Progress'
  BY <1>1, <1>t DEF BooksInv, Progress, Comparing, Untouched
<1>3. FlushIsLate'
  BY <1>1, <1>f DEF FlushIsLate
<1>4. SentSince'
  BY <1>1, <1>t DEF BooksInv, SentSince, Comparing, Untouched
<1>5. OursAreOnRecord'
  <2> SUFFICES ASSUME NEW p \in InUse, Ours(p)' PROVE Accounted(p)'
    BY <1>t DEF OursAreOnRecord
  <2>1. Accounted(p)
    BY <1>1 DEF BooksInv, OursAreOnRecord, Ours, Untouched
  <2> QED
    BY <1>1, <1>f, <2>1 DEF Accounted, Before, Comparing, Untouched
<1>6. FlushSees'
  BY <1>1, <1>f DEF FlushSees
<1>7. WipesAreNoticed'
  BY <1>1, WipesStay
<1> QED
  BY <1>2, <1>3, <1>4, <1>5, <1>6, <1>7 DEF BooksInv

LEMMA FlushBeginsKeeps ==
  ASSUME SyncInv, BooksInv, [Next]_vars, RunFails \/ FinishCutOff
  PROVE  BooksInv'
<1>t. InUse' = InUse /\ InUse \subseteq Paths
  BY Shapes, SetupStays DEF InUse
<1>1. /\ life \in {"running", "finish"} /\ (life = "running" => pc = "idle") /\ life' = "flush" /\ fpc' = "scan"
      /\ Untouched /\ UNCHANGED <<pc, fscan, todo, up>>
  BY DEF RunFails, FinishCutOff, Untouched, store, pass, ghosts
<1>f. fpc = "off" /\ todo = {} /\ \A p \in Paths : up["flush"][p].st = "none"
  BY <1>1 DEF BooksInv, FlushIsLate
<1>2. Progress'
  BY <1>1, <1>t DEF BooksInv, Progress, Untouched
<1>3. FlushIsLate'
  BY <1>1, <1>f DEF FlushIsLate
<1>4. SentSince'
  BY <1>1, <1>t DEF BooksInv, SentSince, Untouched
<1>5. OursAreOnRecord'
  <2> SUFFICES ASSUME NEW p \in InUse, Ours(p)' PROVE Accounted(p)'
    BY <1>t DEF OursAreOnRecord
  <2>1. Accounted(p) /\ (AsUploaded(p) => AsUploaded(p)')
    BY <1>1 DEF BooksInv, OursAreOnRecord, Ours, Untouched, AsUploaded
  <2> QED
    BY <1>1, <1>f, <2>1 DEF Accounted, Before, Comparing, Untouched
<1>6. FlushSees'
  BY <1>1, <1>f DEF FlushSees
<1>7. WipesAreNoticed'
  BY <1>1, WipesStay
<1> QED
  BY <1>2, <1>3, <1>4, <1>5, <1>6, <1>7 DEF BooksInv

\* The flush moves on, and touches neither the folder nor the records.
LEMMA FlushMovesKeeps ==
  ASSUME SyncInv, BooksInv, [Next]_vars, Untouched, UNCHANGED pc, fpc # "off" \/ life = "flush",
         life' \in {life, "dispose"}, FlushIsLate',
         \A p \in Paths : up'["sync"][p] = up["sync"][p],
         fpc' = "upload" => fpc = "upload",
         \A p \in Paths : up'["flush"][p].st = "sent" => up'["flush"][p] = up["flush"][p],
         \A p \in Paths : p \in todo' \/ up'["flush"][p].st # "none" =>
           p \in todo \/ up["flush"][p].st # "none" \/ disk[p] # None
  PROVE  BooksInv'
<1>t. InUse' = InUse /\ InUse \subseteq Paths
  BY Shapes, SetupStays DEF InUse
<1>1. life \notin {"running", "download"} /\ life' \notin {"running", "download"}
  BY DEF BooksInv, FlushIsLate
<1>2. Progress'
  BY <1>t DEF BooksInv, Progress, Untouched
<1>4. SentSince'
  BY <1>1, <1>t DEF SentSince
<1>5. OursAreOnRecord'
  <2> SUFFICES ASSUME NEW p \in InUse, Ours(p)' PROVE Accounted(p)'
    BY <1>t DEF OursAreOnRecord
  <2>1. Accounted(p) /\ (AsUploaded(p) => AsUploaded(p)')
    BY <1>1 DEF BooksInv, OursAreOnRecord, Ours, Untouched, AsUploaded
  <2> QED
    BY <1>1, <2>1 DEF Accounted, Untouched
<1>6. FlushSees'
  <2> SUFFICES ASSUME NEW p \in Paths
               PROVE  LET x == up'["flush"][p] IN
                /\ x.st = "sent" /\ pc \in Before \cup Comparing \cup {"pull"} /\ (pc = "pull" => p \in pulls)
                     => disk[p] \in {None, x.data}
                /\ folder = "ours" /\ pc \in Before \cup Comparing /\ (pc \in Comparing => p >= at)
                     /\ (p \in todo' \/ x.st # "none") => disk[p] # None
    BY DEF FlushSees, Untouched
  <2> QED
    BY DEF BooksInv, FlushSees
<1>7. WipesAreNoticed'
  BY <1>1, WipesStay
<1> QED
  BY <1>2, <1>4, <1>5, <1>6, <1>7 DEF BooksInv

LEMMA FlushKeeps ==
  ASSUME SyncInv, BooksInv, [Next]_vars,
         FlushScan \/ (FlushList /\ fpc' = "done") \/ FlushDone \/ FlushCutOff \/ \E p \in Paths : FlushStart(p)
  PROVE  BooksInv'
<1>t. /\ UpTyped /\ "sync" \in Owners /\ "flush" \in Owners /\ NoUpload.st = "none"
      /\ NoFiles \in Files /\ disk \in Files
  BY Shapes, Constants
<1>b. FlushIsLate /\ SyncInv'
  BY StepInv DEF BooksInv
\* The flush is over.
<1>1. ASSUME FlushEnds, fpc \in {"scan", "list", "upload"}, todo' = {}, Untouched, UNCHANGED pc,
             \A p \in Paths : up'["sync"][p] = up["sync"][p] /\ up'["flush"][p].st = "none"
      PROVE  BooksInv'
  <2>1. fpc' = "done" /\ life' \in {life, "dispose"} /\ (life' = life \/ life = "flush")
    BY <1>1 DEF FlushEnds
  <2>2. FlushIsLate'
    BY <1>1, <1>b, <2>1 DEF FlushIsLate
  <2> QED
    BY <1>1, <2>1, <2>2, FlushMovesKeeps
<1>2. CASE FlushScan
  <2>1. fpc = "scan" /\ Untouched /\ UNCHANGED <<pc, up>>
    BY <1>2 DEF FlushScan, Untouched, store, pass, ghosts
  <2>2. todo = {} /\ \A p \in Paths : up["flush"][p].st = "none"
    BY <1>b, <2>1 DEF FlushIsLate
  <2>3. CASE FlushEnds /\ UNCHANGED todo
    BY <1>1, <2>1, <2>2, <2>3
  <2>4. CASE fscan' = disk /\ todo' = Dirty(disk) /\ fpc' = "list" /\ UNCHANGED life
    <3>1. \A p \in todo' : disk[p] # None
      BY <2>4 DEF Dirty, Present
    <3>2. FlushIsLate'
      BY <1>b, <2>1, <2>2, <2>4, <3>1 DEF FlushIsLate
    <3> QED
      BY <2>1, <2>2, <2>4, <3>1, <3>2, FlushMovesKeeps
  <2> QED
    BY <1>2, <2>3, <2>4 DEF FlushScan
<1>3. CASE FlushList /\ fpc' = "done"
  <2>1. fpc = "list" /\ FlushEnds /\ todo' = {} /\ Untouched /\ UNCHANGED <<pc, up>>
    BY <1>3 DEF FlushList, Untouched, store, pass, ghosts
  <2>2. \A p \in Paths : up["flush"][p].st = "none"
    BY <1>b, <2>1 DEF FlushIsLate
  <2> QED
    BY <1>1, <2>1, <2>2
<1>4. CASE FlushDone
  <2>1. /\ fpc = "upload" /\ FlushEnds /\ up' = [up EXCEPT !["flush"] = [p \in Paths |-> NoUpload]]
        /\ Untouched /\ UNCHANGED <<pc, todo>>
    BY <1>4 DEF FlushDone, Untouched, store, pass, ghosts
  <2>2. \A p \in Paths : up'["sync"][p] = up["sync"][p] /\ up'["flush"][p] = NoUpload
    BY <1>t, <2>1 DEF UpTyped
  <2>3. todo = {}
    BY <1>b, <2>1 DEF FlushIsLate
  <2> QED
    BY <1>1, <1>t, <2>1, <2>2, <2>3
<1>5. CASE FlushCutOff
  <2>1. life = "flush" /\ life' = "dispose" /\ Untouched /\ UNCHANGED <<pc, fpc, fscan, todo, up>>
    BY <1>5 DEF FlushCutOff, Untouched, store, pass, ghosts
  <2>2. FlushIsLate'
    BY <1>b, <2>1 DEF FlushIsLate
  <2> QED
    BY <2>1, <2>2, FlushMovesKeeps
<1>6. CASE \E p \in Paths : FlushStart(p)
  <2>1. PICK p \in Paths : FlushStart(p)
    BY <1>6
  <2> DEFINE x == [st |-> "read", item |-> up["flush"][p].item, local |-> fscan[p], data |-> None]
  <2>2. up["flush"][p].st = "todo" /\ Untouched /\ UNCHANGED <<pc, life, fpc, fscan, todo>>
    BY <2>1 DEF FlushStart, Untouched, store, pass, flush, ghosts
  <2>3. UploadIs("flush", p, x) /\ x.st = "read"
    BY <2>1 DEF FlushStart, StartUpload, UploadIs
  <2> HIDE DEF x
  <2>4. up'["flush"][p] = x /\ \A o \in Owners, q \in Paths : o # "flush" \/ q # p => up'[o][q] = up[o][q]
    BY <1>t, <2>3, UploadingUpdates
  <2>5. fpc = "upload"
    BY <1>b, <2>2 DEF FlushIsLate
  <2>6. FlushIsLate'
    BY <1>b, <2>2, <2>5 DEF FlushIsLate
  <2>7. \A q \in Paths : up'["sync"][q] = up["sync"][q]
    BY <1>t, <2>4
  <2>8. \A q \in Paths : /\ up'["flush"][q].st = "sent" => up'["flush"][q] = up["flush"][q]
                         /\ up'["flush"][q].st # "none" => up["flush"][q].st # "none"
    BY <1>t, <2>2, <2>3, <2>4
  <2> QED
    BY <2>2, <2>5, <2>6, <2>7, <2>8, FlushMovesKeeps
<1> QED
  BY <1>2, <1>3, <1>4, <1>5, <1>6

LEMMA DisposeKeeps ==
  ASSUME SyncInv, BooksInv, [Next]_vars, Dispose
  PROVE  BooksInv'
<1>t. InUse' = InUse /\ InUse \subseteq Paths /\ \A p \in Paths : NoFiles[p] = None
  BY Shapes, SetupStays, Constants DEF InUse
<1>1. /\ life = "dispose" /\ life' = "disposed" /\ folder' # "ours"
      /\ disk' = disk \/ disk' = NoFiles
      /\ UNCHANGED <<remote, baseline, sent, pc, scan, listed, at, next, pulls, fpc, fscan, todo, up, removed>>
  BY DEF Dispose, store, pass, flush, ghosts
<1>d. \A p \in Paths : disk'[p] \in {None, disk[p]}
  BY <1>1, <1>t
<1>2. Progress'
  BY <1>1, <1>t DEF BooksInv, Progress
<1>3. FlushIsLate'
  BY <1>1 DEF BooksInv, FlushIsLate
<1>4. SentSince'
  BY <1>1, <1>t DEF SentSince
<1>5. OursAreOnRecord'
  <2> SUFFICES ASSUME NEW p \in InUse, Ours(p)' PROVE Accounted(p)'
    BY <1>t DEF OursAreOnRecord
  <2>1. Accounted(p) /\ (AsUploaded(p) => AsUploaded(p)')
    BY <1>1, <1>d, <1>t DEF BooksInv, OursAreOnRecord, Ours, AsUploaded
  <2> QED
    BY <1>1, <2>1 DEF Accounted
<1>6. FlushSees'
  BY <1>1, <1>d DEF BooksInv, FlushSees
<1>7. WipesAreNoticed'
  BY <1>1 DEF WipesAreNoticed
<1> QED
  BY <1>2, <1>3, <1>4, <1>5, <1>6, <1>7 DEF BooksInv

\* What a listing settles: a record that was the server's content is the server's content.
LEMMA Settling ==
  ASSUME SyncInv, NEW p \in Paths
  PROVE  /\ remote[p].sha # None /\ remote[p].sha \in {baseline[p], sent[p]} => SettleSent[p] = remote[p].sha
         /\ remote[p].sha # None /\ remote[p].sha = baseline[p] => SettleSent[p] = remote[p].sha
         /\ baseline[p] = None /\ sent[p] = None => SettleSent[p] = None
         /\ baseline[p] # None => SettleSent[p] # None
         /\ remote[p].sha # None /\ sent[p] = remote[p].sha => SettleSent[p] # None
BY DEF SettleSent

\* The listing of the flush.
LEMMA FlushListKeeps ==
  ASSUME SyncInv, BooksInv, [Next]_vars, FlushList, fpc' # "done"
  PROVE  BooksInv'
<1>t. /\ InUse' = InUse /\ InUse \subseteq Paths /\ UpTyped /\ "sync" \in Owners /\ "flush" \in Owners
      /\ \A p \in Paths : NoFiles[p] = None
  BY Shapes, SetupStays, Constants DEF InUse
<1> DEFINE item(p) == IF remote[p].sha = None THEN NoMemory ELSE remote[p]
           v(p) == IF p \in todo /\ fscan[p] # baseline'[p] /\ remote[p].sha \in {None, baseline'[p]}
                     THEN [NoUpload EXCEPT !.st = "todo", !.item = item(p)] ELSE NoUpload
<1>1. /\ fpc = "list" /\ fpc' = "upload" /\ sent' = NoFiles /\ todo' = {}
      /\ UNCHANGED <<disk, folder, remote, pc, scan, listed, at, next, pulls, fscan, life, removed>>
  BY DEF FlushList, FlushEnds, pass, ghosts
<1>2. baseline' = [p \in Paths |-> IF p \in todo /\ remote[p].sha = fscan[p] THEN fscan[p] ELSE SettleSent[p]]
  BY <1>1 DEF FlushList, FlushEnds
<1>3. up' = [up EXCEPT !["flush"] = [p \in Paths |-> v(p)]]
  BY <1>1 DEF FlushList, FlushEnds
<1>l. life \notin {"download", "running", "finish"}
  BY <1>1 DEF BooksInv, FlushIsLate
<1>u. /\ \A p \in Paths : up'["sync"][p] = up["sync"][p]
      /\ \A p \in Paths : up'["flush"][p].st \in {"none", "todo"} /\ (up'["flush"][p].st = "todo" => p \in todo)
  <2>1. \A p \in Paths : v(p).st \in {"none", "todo"} /\ (v(p).st = "todo" => p \in todo)
    BY DEF NoUpload
  <2> HIDE DEF v
  <2> QED
    BY <1>3, <1>t, <2>1 DEF UpTyped
<1>b. ASSUME NEW p \in Paths
      PROVE  /\ Ours(p) /\ remote[p].sha \in {baseline[p], sent[p]} => baseline'[p] = remote[p].sha
             /\ baseline[p] # None => baseline'[p] # None
             /\ remote[p].sha # None /\ sent[p] = remote[p].sha => baseline'[p] # None
             /\ p \notin todo /\ baseline[p] = None /\ sent[p] = None => baseline'[p] = None
             /\ sent'[p] = None
  <2>1. p \in todo => fscan[p] # None
    BY DEF BooksInv, FlushIsLate
  <2>2. baseline'[p] = IF p \in todo /\ remote[p].sha = fscan[p] THEN fscan[p] ELSE SettleSent[p]
    BY <1>2
  <2> QED
    BY <1>1, <1>t, <2>1, <2>2, Settling DEF Ours
<1>4. Progress'
  <2>1. pc \in {"confirm", "delete"} => baseline'[at] # None
    <3>1. pc \in {"confirm", "delete"} => baseline[at] # None /\ at \in Paths
      BY <1>t DEF BooksInv, Progress, SyncInv, InPlace
    <3> QED
      BY <1>b, <3>1
  <2> QED
    BY <1>1, <1>t, <2>1 DEF BooksInv, Progress
<1>5. FlushIsLate'
  BY <1>1, <1>l DEF FlushIsLate
<1>6. SentSince'
  BY <1>1, <1>l DEF SentSince
<1>7. OursAreOnRecord'
  <2> SUFFICES ASSUME NEW p \in InUse, Ours(p)' PROVE Accounted(p)'
    BY <1>t DEF OursAreOnRecord
  <2>1. Ours(p) /\ p \in Paths /\ (AsUploaded(p) => AsUploaded(p)')
    BY <1>1, <1>t DEF Ours, AsUploaded
  <2>2. Accounted(p)
    BY <2>1 DEF BooksInv, OursAreOnRecord
  <2>3. remote[p].sha \in {baseline[p], sent[p]} => baseline'[p] = remote[p].sha
    BY <1>b, <2>1
  <2> QED
    BY <1>1, <1>l, <2>1, <2>2, <2>3 DEF Accounted
<1>8. FlushSees'
  <2> SUFFICES ASSUME NEW p \in Paths, folder = "ours", pc \in Before \cup Comparing, pc \in Comparing => p >= at,
                      up'["flush"][p].st # "none"
               PROVE  disk[p] # None
    BY <1>1, <1>u DEF FlushSees
  <2> QED
    BY <1>u DEF BooksInv, FlushSees
<1>9. WipesAreNoticed'
  <2> SUFFICES ASSUME folder' = "ours", NEW p \in InUse, Missing(p)'
               PROVE  WipedWithOthers(p)' /\ WipedOffRecord(p)'
    BY <1>t DEF WipesAreNoticed
  <2>1. Missing(p) /\ p \in Paths /\ folder = "ours"
    BY <1>1, <1>t DEF Missing
  <2>2. WipedWithOthers(p) /\ WipedOffRecord(p)
    BY <2>1 DEF BooksInv, WipesAreNoticed
  <2>3. pc \in Before \cup Comparing /\ (pc \in Comparing => p >= at) => p \notin todo
    BY <2>1 DEF BooksInv, FlushSees, Missing
  <2>4. WipedWithOthers(p)'
    <3> SUFFICES ASSUME pc \in Before, baseline'[p] # None
                 PROVE  /\ disk = NoFiles /\ (pc = "list" => scan = NoFiles)
                        /\ Cardinality(Synced(Wiped, remote)') > 1
      BY <1>1, <1>b, <1>l, <2>1 DEF WipedWithOthers
    <3>1. baseline[p] # None \/ sent[p] # None
      BY <1>b, <2>1, <2>3 DEF Before, Comparing
    <3>2. Synced(Wiped, remote) \subseteq Synced(Wiped, remote)'
      <4>1. ASSUME NEW q \in Wiped, remote[q].sha # None, baseline[q] # None \/ sent[q] = remote[q].sha
            PROVE  baseline'[q] # None
        <5>1. q \in Paths
          BY DEF Wiped
        <5> QED
          BY <1>b, <4>1, <5>1
      <4>2. Wiped' = Wiped
        BY <1>1 DEF Wiped
      <4> QED
        BY <1>1, <4>1, <4>2 DEF Synced
    <3>3. Synced(Wiped, remote) \in SUBSET Paths /\ Synced(Wiped, remote)' \in SUBSET Paths
      BY DEF Synced, Wiped
    <3> QED
      BY <2>2, <3>1, <3>2, <3>3, Counting DEF WipedWithOthers
  <2>5. WipedOffRecord(p)'
    BY <1>1, <1>b, <1>l, <2>1, <2>2, <2>3 DEF WipedOffRecord
  <2> QED
    BY <2>4, <2>5
<1> QED
  BY <1>4, <1>5, <1>6, <1>7, <1>8, <1>9 DEF BooksInv

LEMMA TeardownKeeps ==
  ASSUME SyncInv, BooksInv, [Next]_vars, Teardown
  PROVE  BooksInv'
<1>1. CASE FlushList /\ fpc' # "done"
  BY <1>1, FlushListKeeps
<1>2. CASE ~(FlushList /\ fpc' # "done")
  BY <1>2, BeginsKeeps, FlushBeginsKeeps, FlushKeeps, DisposeKeeps DEF Teardown
<1> QED
  BY <1>1, <1>2

-----------------------------------------------------------------------------
(* The pass: the scan, the listing, the pulls, and the folder filled anew.  *)

\* A step after which nothing is compared, and no pass waits for a path.
LEMMA PassEnded ==
  ASSUME SyncInv, BooksInv, [Next]_vars, EndPass, UNCHANGED <<fscan, todo, up>>,
         life = "running" => \A p \in InUse :
           /\ Ours(p)' => remote'[p].sha \in {baseline'[p], sent'[p]}
           /\ folder' = "ours" /\ Missing(p)' =>
                \/ baseline'[p] = None /\ sent'[p] = None
                \/ disk' = NoFiles /\ Cardinality(Synced(Wiped, remote)') > 1
  PROVE  BooksInv'
<1>1. life = "finish" => fpc = "off"
  BY DEF BooksInv, FlushIsLate
<1>2. PassOver
  BY <1>1 DEF EndPass, PassOver
<1> QED
  BY <1>2, PassOverKeeps

LEMMA ScanKeeps ==
  ASSUME SyncInv, BooksInv, [Next]_vars, Scan
  PROVE  BooksInv'
<1>t. InUse' = InUse /\ InUse \subseteq Paths /\ \A p \in Paths : NoFiles[p] = None
  BY Shapes, SetupStays, Constants DEF InUse
<1>1. /\ pc = "scan" /\ UNCHANGED <<disk, folder, remote, baseline, sent, fscan, todo, up, removed>>
  BY DEF Scan, store, ghosts
<1>p. at = 1 /\ pulls = {}
  BY <1>1 DEF BooksInv, Progress, Comparing
<1>2. CASE /\ folder = "ours" /\ pc' = "list" /\ scan' = disk
           /\ UNCHANGED <<final, listed, at, next, pulls, attempted, life, fpc>>
  <2>1. Progress'
    BY <1>2, <1>p DEF Progress, Comparing
  <2>2. FlushIsLate'
    BY <1>1, <1>2 DEF BooksInv, FlushIsLate
  <2>3. SentSince'
    BY <1>1, <1>2, <1>t DEF BooksInv, SentSince, Comparing
  <2>4. OursAreOnRecord'
    <3> SUFFICES ASSUME NEW p \in InUse, Ours(p)' PROVE Accounted(p)'
      BY <1>t DEF OursAreOnRecord
    <3>1. Accounted(p) /\ (AsUploaded(p) => AsUploaded(p)')
      BY <1>1, <1>2 DEF BooksInv, OursAreOnRecord, Ours, AsUploaded
    <3> QED
      BY <1>1, <1>2, <3>1 DEF Accounted, Before, Comparing
  <2>5. FlushSees'
    BY <1>1, <1>2 DEF BooksInv, FlushSees, Before, Comparing
  <2>6. WipesAreNoticed'
    <3> SUFFICES ASSUME NEW p \in InUse, Missing(p)'
                 PROVE  WipedWithOthers(p)' /\ WipedOffRecord(p)'
      BY <1>t DEF WipesAreNoticed
    <3>1. Missing(p) /\ WipedWithOthers(p)
      BY <1>1, <1>2 DEF BooksInv, WipesAreNoticed, Missing
    <3>2. Synced(Wiped, remote)' = Synced(Wiped, remote)
      BY <1>1 DEF Synced, Wiped
    <3>3. WipedWithOthers(p)'
      BY <1>1, <1>2, <3>1, <3>2 DEF WipedWithOthers, Before
    <3> QED
      BY <1>2, <3>1, <3>3 DEF WipedOffRecord, Comparing, Missing
  <2> QED
    BY <2>1, <2>2, <2>3, <2>4, <2>5, <2>6 DEF BooksInv
<1>3. CASE folder # "ours" /\ pc' = "open" /\ UNCHANGED <<final, scan, listed, at, next, pulls, attempted, life, fpc>>
  <2>1. Progress'
    BY <1>3, <1>p DEF Progress, Comparing
  <2>2. FlushIsLate'
    BY <1>1, <1>3 DEF BooksInv, FlushIsLate
  <2>3. SentSince'
    BY <1>1, <1>3, <1>t DEF BooksInv, SentSince, Comparing
  <2>4. OursAreOnRecord' /\ FlushSees' /\ WipesAreNoticed'
    BY <1>1, <1>3, <1>p DEF OursAreOnRecord, Accounted, FlushSees, WipesAreNoticed, Before, Comparing
  <2> QED
    BY <2>1, <2>2, <2>3, <2>4 DEF BooksInv
<1>4. CASE folder # "ours" /\ EndPass
  <2>1. ASSUME life = "running", NEW p \in InUse, Ours(p)' PROVE remote'[p].sha \in {baseline'[p], sent'[p]}
    BY <1>1, <2>1 DEF BooksInv, OursAreOnRecord, Ours, Accounted, AsUploaded, Before
  <2> QED
    BY <1>1, <1>4, <2>1, PassEnded
<1> QED
  BY <1>2, <1>3, <1>4 DEF Scan

LEMMA ListKeeps ==
  ASSUME SyncInv, BooksInv, [Next]_vars, List
  PROVE  BooksInv'
<1>t. /\ InUse' = InUse /\ InUse \subseteq Paths /\ \A p \in Paths : NoFiles[p] = None
      /\ UNCHANGED <<disk, folder, remote, scan, at, next, pulls, fpc, fscan, todo, life, up, removed>>
  BY Shapes, SetupStays, Constants DEF InUse, List, flush, ghosts
<1>1. /\ pc = "list" /\ listed' = remote /\ baseline' = SettleSent /\ sent' = NoFiles
      /\ pc' = IF Present(scan) = {} /\ Cardinality(Present(SettleSent)) > 1 THEN "open" ELSE "path"
  BY DEF List
<1>p. at = 1 /\ pulls = {}
  BY <1>1 DEF BooksInv, Progress, Comparing
<1>u. \A p \in Paths : up'["sync"][p].st = "none"
  BY <1>1, <1>t, Parts DEF SyncInv, OneUpload
<1>2. Progress'
  BY <1>1, <1>p, <1>t DEF Progress, Comparing
<1>3. FlushIsLate'
  BY <1>t DEF BooksInv, FlushIsLate
<1>4. SentSince'
  BY <1>1, <1>t, <1>u DEF SentSince
<1>5. OursAreOnRecord'
  <2> SUFFICES ASSUME NEW p \in InUse, Ours(p)' PROVE Accounted(p)'
    BY <1>t DEF OursAreOnRecord
  <2>1. Ours(p) /\ p \in Paths /\ (AsUploaded(p) => AsUploaded(p)')
    BY <1>t DEF Ours, AsUploaded
  <2>2. remote[p].sha \in {baseline[p], sent[p]} \/ AsUploaded(p)
    BY <1>1, <2>1 DEF BooksInv, OursAreOnRecord, Accounted, Before
  <2>3. (remote'[p] = listed'[p] /\ remote'[p].sha = baseline'[p]) \/ AsUploaded(p)'
    BY <1>1, <1>t, <2>1, <2>2, Settling DEF Ours
  <2>4. ~(p < at)
    BY <1>p DEF InUse
  <2> QED
    BY <1>1, <1>p, <1>t, <2>3, <2>4 DEF Accounted, Before, Comparing
<1>6. FlushSees'
  BY <1>1, <1>t DEF BooksInv, FlushSees, Before, Comparing
<1>7. WipesAreNoticed'
  <2> SUFFICES ASSUME folder' = "ours", NEW p \in InUse, Missing(p)'
               PROVE  WipedWithOthers(p)' /\ WipedOffRecord(p)'
    BY <1>t DEF WipesAreNoticed
  <2>1. Missing(p) /\ p \in Paths
    BY <1>t DEF Missing
  <2>2. WipedWithOthers(p) /\ scan[p] = None
    BY <1>1, <1>t, <2>1 DEF BooksInv, WipesAreNoticed, WipedOffRecord
  <2>3. ASSUME pc' = "path" PROVE baseline[p] = None /\ sent[p] = None
    <3> SUFFICES ASSUME baseline[p] # None \/ sent[p] # None PROVE FALSE
      OBVIOUS
    <3>1. scan = NoFiles /\ Cardinality(Synced(Wiped, remote)) > 1
      BY <1>1, <2>2 DEF WipedWithOthers, Before
    <3>2. Synced(Wiped, remote) \subseteq Present(SettleSent)
      BY Settling DEF Synced, Wiped, Present
    <3>3. Synced(Wiped, remote) \in SUBSET Paths /\ Present(SettleSent) \in SUBSET Paths
      BY DEF Synced, Wiped, Present
    <3>4. Cardinality(Present(SettleSent)) > 1
      BY <3>1, <3>2, <3>3, Counting
    <3>5. Present(scan) = {}
      BY <1>t, <3>1 DEF Present
    <3> QED
      BY <1>1, <2>3, <3>4, <3>5
  <2>4. pc' = "path" => baseline'[p] = None /\ sent'[p] = None
    BY <1>1, <1>t, <2>1, <2>3, Settling
  <2>5. ~(p < at) /\ pc' \in {"open", "path"}
    BY <1>1, <1>p DEF InUse
  <2> QED
    BY <1>1, <1>t, <2>2, <2>4, <2>5 DEF WipedWithOthers, WipedOffRecord, Before, Comparing
<1> QED
  BY <1>2, <1>3, <1>4, <1>5, <1>6, <1>7 DEF BooksInv

LEMMA ListFailsKeeps ==
  ASSUME SyncInv, BooksInv, [Next]_vars, ListFails
  PROVE  BooksInv'
<1>1. /\ pc = "list" /\ EndPass
      /\ UNCHANGED <<disk, folder, remote, baseline, sent, fscan, todo, up, removed>>
  BY DEF ListFails, store, ghosts
<1>2. Synced(Wiped, remote)' = Synced(Wiped, remote)
  BY <1>1 DEF Synced, Wiped
<1>3. ASSUME life = "running", NEW p \in InUse
      PROVE  /\ Ours(p)' => remote'[p].sha \in {baseline'[p], sent'[p]}
             /\ folder' = "ours" /\ Missing(p)' =>
                  \/ baseline'[p] = None /\ sent'[p] = None
                  \/ disk' = NoFiles /\ Cardinality(Synced(Wiped, remote)') > 1
  <2>1. Ours(p)' => remote'[p].sha \in {baseline'[p], sent'[p]}
    BY <1>1, <1>3 DEF BooksInv, OursAreOnRecord, Ours, Accounted, AsUploaded, Before
  <2>2. folder' = "ours" /\ Missing(p)' => WipedWithOthers(p)
    BY <1>1 DEF BooksInv, WipesAreNoticed, Missing
  <2> QED
    BY <1>1, <1>2, <2>1, <2>2 DEF WipedWithOthers, Before
<1> QED
  BY <1>1, <1>3, PassEnded

LEMMA PathsDoneKeeps ==
  ASSUME SyncInv, BooksInv, [Next]_vars, PathsDone
  PROVE  BooksInv'
<1>t. InUse' = InUse /\ InUse \subseteq Paths /\ setup.files \in Nat /\ at \in Nat /\ at >= 1
  <2>1. setup \in Setups /\ at \in 1..NPaths + 1 /\ NPaths \in Nat
    BY Parts, MemoryAssumption DEF SyncInv, RestTyped, PassTyped
  <2>2. setup.files \in Paths
    BY <2>1, MemoryAssumption DEF Setups0
  <2> QED
    BY <2>1, <2>2, Shapes, SetupStays DEF InUse, Paths
<1>1. /\ pc = "path" /\ at \notin InUse /\ baseline' = next /\ pc' = "pull"
      /\ UNCHANGED <<disk, folder, remote, sent, scan, listed, at, next, pulls, fpc, fscan, todo, life, up, removed>>
  BY DEF PathsDone, flush, ghosts
<1>b. \A p \in InUse : p < at
  BY <1>1, <1>t DEF InUse
<1>u. \A p \in Paths : up'["sync"][p].st = "none"
  BY <1>1, StepInv, Parts DEF SyncInv, OneUpload
<1>2. Progress'
  BY <1>1, <1>t DEF BooksInv, Progress, Comparing
<1>3. FlushIsLate'
  BY <1>1 DEF BooksInv, FlushIsLate
<1>4. SentSince'
  BY <1>1, <1>t, <1>u DEF SentSince, Comparing
<1>5. OursAreOnRecord'
  <2> SUFFICES ASSUME NEW p \in InUse, Ours(p)' PROVE Accounted(p)'
    BY <1>t DEF OursAreOnRecord
  <2>1. Accounted(p) /\ (AsUploaded(p) => AsUploaded(p)')
    BY <1>1 DEF BooksInv, OursAreOnRecord, Ours, AsUploaded
  <2> QED
    BY <1>1, <1>b, <2>1 DEF Accounted, Before, Comparing
<1>6. FlushSees'
  BY <1>1 DEF BooksInv, FlushSees, Before, Comparing
<1>7. WipesAreNoticed'
  <2> SUFFICES ASSUME folder' = "ours", NEW p \in InUse, Missing(p)'
               PROVE  WipedWithOthers(p)' /\ WipedOffRecord(p)'
    BY <1>t DEF WipesAreNoticed
  <2>1. WipedOffRecord(p)
    BY <1>1 DEF BooksInv, WipesAreNoticed, Missing
  <2> QED
    BY <1>1, <1>b, <2>1 DEF WipedWithOthers, WipedOffRecord, Before, Comparing
<1> QED
  BY <1>2, <1>3, <1>4, <1>5, <1>6, <1>7 DEF BooksInv

\* One file is fetched and written, or not.
LEMMA PullKeeps ==
  ASSUME SyncInv, BooksInv, [Next]_vars, NEW p \in Paths, PullWrites(p) \/ PullSkips(p)
  PROVE  BooksInv'
<1>t. /\ InUse' = InUse /\ InUse \subseteq Paths /\ disk \in Files /\ baseline \in Files
      /\ removed \in [Paths -> {"kept", "gone", "midpass"}]
  BY Shapes, SetupStays DEF InUse
<1>1. /\ pc = "pull" /\ p \in pulls /\ pulls' = pulls \ {p}
      /\ UNCHANGED <<folder, remote, sent, pc, scan, listed, at, next, fpc, fscan, todo, life, up>>
  BY DEF PullWrites, PullSkips, store, flush
<1>2. /\ \A q \in Paths \ {p} : disk'[q] = disk[q] /\ baseline'[q] = baseline[q] /\ removed'[q] = removed[q]
      /\ \/ disk'[p] = disk[p] /\ baseline'[p] = baseline[p] /\ removed'[p] = removed[p]
         \/ disk'[p] # None /\ baseline'[p] = remote[p].sha
  <2>1. CASE PullWrites(p)
    <3>1. /\ disk' = [disk EXCEPT ![p] = remote[p].sha] /\ baseline' = [baseline EXCEPT ![p] = remote[p].sha]
          /\ removed' = [removed EXCEPT ![p] = "kept"] /\ remote[p].sha # None
      BY <2>1 DEF PullWrites, PullFinds, Wrote
    <3> QED
      BY <1>t, <3>1 DEF Files
  <2>2. CASE PullSkips(p)
    BY <2>2 DEF PullSkips, store, ghosts
  <2> QED
    BY <2>1, <2>2
<1>3. Progress'
  BY <1>1, <1>t DEF BooksInv, Progress, Comparing
<1>4. FlushIsLate'
  BY <1>1 DEF BooksInv, FlushIsLate
<1>5. SentSince'
  BY <1>1, <1>t DEF BooksInv, SentSince, Comparing
<1>6. OursAreOnRecord'
  <2> SUFFICES ASSUME NEW q \in InUse, Ours(q)' PROVE Accounted(q)'
    BY <1>t DEF OursAreOnRecord
  <2>1. Accounted(q) /\ q \in Paths
    BY <1>1, <1>t DEF BooksInv, OursAreOnRecord, Ours
  <2>2. q \in pulls' => q # p /\ q \in pulls
    BY <1>1
  <2>3. q # p => (AsUploaded(q)' <=> AsUploaded(q))
    BY <1>1, <1>2, <2>1 DEF AsUploaded
  <2>4. life = "running" => remote[q].sha \in {baseline'[q], sent[q]}
    BY <1>1, <1>2, <2>1 DEF Accounted
  <2> QED
    BY <1>1, <2>1, <2>2, <2>3, <2>4 DEF Accounted, Before, Comparing
<1>7. FlushSees'
  <2> SUFFICES ASSUME NEW q \in Paths, q \in pulls', up["flush"][q].st = "sent"
               PROVE  disk'[q] \in {None, up["flush"][q].data}
    BY <1>1 DEF FlushSees, Before, Comparing
  <2> QED
    BY <1>1, <1>2 DEF BooksInv, FlushSees
<1>8. WipesAreNoticed'
  <2> SUFFICES ASSUME folder' = "ours", NEW q \in InUse, Missing(q)'
               PROVE  WipedWithOthers(q)' /\ WipedOffRecord(q)'
    BY <1>t DEF WipesAreNoticed
  <2>1. disk'[q] = disk[q] /\ baseline'[q] = baseline[q] /\ removed'[q] = removed[q]
    BY <1>2, <1>t DEF Missing
  <2>2. WipedOffRecord(q)
    BY <1>1, <2>1 DEF BooksInv, WipesAreNoticed, Missing
  <2> QED
    BY <1>1, <2>1, <2>2 DEF WipedWithOthers, WipedOffRecord, Before, Comparing
<1> QED
  BY <1>3, <1>4, <1>5, <1>6, <1>7, <1>8 DEF BooksInv

LEMMA PullsDoneKeeps ==
  ASSUME SyncInv, BooksInv, [Next]_vars, PullsDone
  PROVE  BooksInv'
<1>1. /\ pc = "pull" /\ EndPass
      /\ UNCHANGED <<disk, folder, remote, baseline, sent, fscan, todo, up, removed>>
  BY DEF PullsDone, store, ghosts
<1>2. ASSUME life = "running", NEW p \in InUse
      PROVE  /\ Ours(p)' => remote'[p].sha \in {baseline'[p], sent'[p]}
             /\ folder' = "ours" /\ Missing(p)' => baseline'[p] = None /\ sent'[p] = None
  <2>1. Ours(p)' => remote'[p].sha \in {baseline'[p], sent'[p]}
    BY <1>1, <1>2 DEF BooksInv, OursAreOnRecord, Ours, Accounted
  <2>2. folder' = "ours" /\ Missing(p)' => WipedOffRecord(p)
    BY <1>1 DEF BooksInv, WipesAreNoticed, Missing
  <2> QED
    BY <1>1, <1>2, <2>1, <2>2 DEF WipedOffRecord
<1> QED
  BY <1>1, <1>2, PassEnded

\* The download fails, and the session with it.
LEMMA SessionFails ==
  ASSUME SyncInv, BooksInv, [Next]_vars, pc \in {"open", "full"}, pc' = "idle", life' = "failed",
         at' \in {at, 1}, UNCHANGED <<pulls, fpc, fscan, todo, up>>
  PROVE  BooksInv'
<1>1. pulls = {} /\ at = 1
  BY DEF BooksInv, Progress, Comparing
<1>2. PassOver
  BY <1>1 DEF PassOver
<1> QED
  BY <1>2, PassOverKeeps

\* The folder is stamped, listed and filled: nothing is on record yet but what was filled.
LEMMA FillingKeeps ==
  ASSUME SyncInv, BooksInv, [Next]_vars, pc \in {"open", "full", "fill"}, pc' \in {"full", "fill"},
         UNCHANGED <<pulls, life, fpc, fscan, todo, up>>, pc' = "full" => at' = 1,
         \A p \in InUse : Ours(p)' => life \notin {"running", "download"},
         folder' = "ours" /\ life \in {"running", "download"} =>
           \A p \in InUse : Missing(p)' => baseline'[p] = None /\ sent'[p] = None
  PROVE  BooksInv'
<1>t. InUse' = InUse
  BY SetupStays DEF InUse
<1>u. \A p \in Paths : up'["sync"][p].st = "none"
  BY StepInv, Parts DEF SyncInv, OneUpload
<1>1. Progress'
  BY <1>t DEF BooksInv, Progress, Comparing
<1>2. FlushIsLate'
  BY DEF BooksInv, FlushIsLate
<1>3. SentSince'
  BY <1>t, <1>u, Shapes DEF SentSince, Comparing
<1>4. OursAreOnRecord'
  BY <1>t DEF OursAreOnRecord, Accounted, Before, Comparing
<1>5. FlushSees'
  BY DEF FlushSees, Before, Comparing
<1>6. WipesAreNoticed'
  BY <1>t DEF WipesAreNoticed, WipedWithOthers, WipedOffRecord, Before, Comparing
<1> QED
  BY <1>1, <1>2, <1>3, <1>4, <1>5, <1>6 DEF BooksInv

LEMMA StampKeeps ==
  ASSUME SyncInv, BooksInv, [Next]_vars, Stamp
  PROVE  BooksInv'
<1>t. InUse \subseteq Paths /\ remote \in [Paths -> Memory] /\ \A p \in Paths : NoFiles[p] = None
  BY Shapes, Constants
<1>1. pc = "open" /\ baseline' = NoFiles /\ sent' = NoFiles /\ UNCHANGED <<fscan, todo, up>>
  BY DEF Stamp
<1>2. \A p \in InUse : baseline'[p] = None /\ sent'[p] = None /\ ~Ours(p)'
  <2>1. remote' = [p \in Paths |-> [remote[p] EXCEPT !.by = "other"]]
    BY DEF Stamp
  <2>2. \A p \in Paths : [remote[p] EXCEPT !.by = "other"].by = "other"
    BY <1>t DEF Memory
  <2>3. \A p \in Paths : remote'[p].by = "other"
    BY <2>1, <2>2
  <2> QED
    BY <1>1, <1>t, <2>3 DEF Ours
<1>3. CASE pc' = "full" /\ UNCHANGED <<final, scan, listed, at, next, pulls, attempted, life, fpc>>
  <2>1. at' = 1
    BY <1>1, <1>3 DEF BooksInv, Progress, Comparing
  <2> QED
    BY <1>1, <1>2, <1>3, <2>1, FillingKeeps
<1>4. CASE DownloadFails
  BY <1>1, <1>4, SessionFails DEF DownloadFails
<1>5. CASE PassFails
  BY <1>1, <1>2, <1>5, PassEnded DEF PassFails
<1> QED
  BY <1>3, <1>4, <1>5 DEF Stamp

LEMMA FullListKeeps ==
  ASSUME SyncInv, BooksInv, [Next]_vars, FullList
  PROVE  BooksInv'
<1>1. pc = "full" /\ UNCHANGED <<remote, baseline, sent, fscan, todo, up, removed>>
  BY DEF FullList, store, ghosts
<1>2. /\ \A p \in InUse : Ours(p) => life \notin {"running", "download"}
      /\ folder = "ours" /\ life \in {"running", "download"} =>
           \A p \in InUse : Missing(p) => baseline[p] = None /\ sent[p] = None
  BY <1>1 DEF BooksInv, OursAreOnRecord, Accounted, WipesAreNoticed, WipedOffRecord
<1>3. CASE pc' = "fill" /\ UNCHANGED <<disk, folder, final, scan, next, pulls, attempted, life, fpc>>
  BY <1>1, <1>2, <1>3, FillingKeeps DEF Ours, Missing
<1>4. CASE DownloadFails
  BY <1>1, <1>4, SessionFails DEF DownloadFails
<1>5. CASE PassFails /\ UNCHANGED folder
  BY <1>1, <1>2, <1>5, PassEnded DEF PassFails, Ours, Missing
<1> QED
  BY <1>3, <1>4, <1>5 DEF FullList

LEMMA FillKeeps ==
  ASSUME SyncInv, BooksInv, [Next]_vars, Fill
  PROVE  BooksInv'
<1>t. /\ InUse \subseteq Paths /\ disk \in Files /\ baseline \in Files
      /\ removed \in [Paths -> {"kept", "gone", "midpass"}]
  BY Shapes
<1>1. /\ pc = "fill" /\ pc' = "fill" /\ at \in InUse
      /\ UNCHANGED <<folder, remote, sent, pulls, life, fpc, fscan, todo, up>>
  BY DEF Fill, flush
<1>2. /\ \A p \in InUse : Ours(p) => life \notin {"running", "download"}
      /\ folder = "ours" /\ life \in {"running", "download"} =>
           \A p \in InUse : Missing(p) => baseline[p] = None /\ sent[p] = None
  BY <1>1 DEF BooksInv, OursAreOnRecord, Accounted, WipesAreNoticed, WipedOffRecord
<1>3. \A p \in InUse : Missing(p)' => Missing(p) /\ baseline'[p] = baseline[p]
  <2>1. CASE /\ Item.sha # None
             /\ disk' = [disk EXCEPT ![at] = Item.sha] /\ baseline' = [baseline EXCEPT ![at] = Item.sha] /\ Wrote(at)
    <3>1. removed' = [removed EXCEPT ![at] = "kept"]
      BY <2>1 DEF Wrote
    <3> QED
      BY <1>1, <1>t, <2>1, <3>1 DEF Missing, Files
  <2>2. CASE UNCHANGED <<disk, baseline, ghosts>>
    BY <2>2 DEF Missing, ghosts
  <2> QED
    BY <2>1, <2>2 DEF Fill
<1> QED
  BY <1>1, <1>2, <1>3, FillingKeeps DEF Ours

LEMMA FilledKeeps ==
  ASSUME SyncInv, BooksInv, [Next]_vars, Filled
  PROVE  BooksInv'
<1>1. pc = "fill" /\ UNCHANGED <<disk, folder, remote, baseline, sent, fscan, todo, up, removed>>
  BY DEF Filled, store, ghosts
<1>2. /\ \A p \in InUse : Ours(p) => life \notin {"running", "download"}
      /\ folder = "ours" /\ life \in {"running", "download"} =>
           \A p \in InUse : Missing(p) => baseline[p] = None /\ sent[p] = None
  BY <1>1 DEF BooksInv, OursAreOnRecord, Accounted, WipesAreNoticed, WipedOffRecord
<1>3. CASE life = "download"
  <2>1. life' = "running" /\ pc' = "idle" /\ at' = 1 /\ UNCHANGED <<pulls, fpc>>
    BY <1>3 DEF Filled
  <2>2. pulls = {}
    BY <1>1 DEF BooksInv, Progress, Comparing
  <2>3. PassOver
    BY <1>1, <1>2, <1>3, <2>1, <2>2 DEF PassOver, Ours, Missing
  <2> QED
    BY <2>3, PassOverKeeps
<1>4. CASE life # "download"
  BY <1>1, <1>2, <1>4, PassEnded DEF Filled, Ours, Missing
<1> QED
  BY <1>3, <1>4

LEMMA SyncKeeps ==
  ASSUME SyncInv, BooksInv, [Next]_vars, SyncStep
  PROVE  BooksInv'
<1>1. CASE \/ HoldDelete \/ AskDelete \/ Confirm \/ DeleteAnswered \/ DeleteUnanswered
           \/ GoneOnBothSides \/ RemoveLocal \/ PushNew \/ Pull \/ Adopt \/ PushChange \/ InStep
  BY <1>1, PathEffect, PathDoneKeeps, PathWaitsKeeps
<1>2. CASE RefuseFolder
  BY <1>2, SessionFails DEF RefuseFolder, flush
<1>3. CASE \/ Scan \/ List \/ ListFails \/ PathsDone \/ PullsDone \/ Stamp \/ FullList \/ Fill \/ Filled
           \/ \E p \in Paths : PullWrites(p) \/ PullSkips(p)
  BY <1>3, ScanKeeps, ListKeeps, ListFailsKeeps, PathsDoneKeeps, PullsDoneKeeps, StampKeeps, FullListKeeps,
     FillKeeps, FilledKeeps, PullKeeps
<1> QED
  BY <1>1, <1>2, <1>3 DEF SyncStep

LEMMA InitBooks == Init => BooksInv
<1> SUFFICES ASSUME Init PROVE BooksInv
  OBVIOUS
<1>n. NoUpload.st = "none" /\ \A p \in Paths : NoFiles[p] = None
  BY Constants
<1>t. InUse \subseteq Paths
  BY NamesInUse DEF Init
<1>1. Progress
  BY DEF Init, Progress, Comparing
<1>2. FlushIsLate
  BY <1>n DEF Init, FlushIsLate, Owners
<1>3. SentSince
  BY DEF Init, SentSince
<1>4. OursAreOnRecord
  BY <1>t DEF Init, OursAreOnRecord, Ours
<1>5. FlushSees
  BY DEF Init, FlushSees, Before, Comparing
<1>6. WipesAreNoticed
  BY DEF Init, WipesAreNoticed
<1> QED
  BY <1>1, <1>2, <1>3, <1>4, <1>5, <1>6 DEF BooksInv

LEMMA StepBooks == SyncInv /\ BooksInv /\ [Next]_vars => BooksInv'
<1> SUFFICES ASSUME SyncInv, BooksInv, [Next]_vars PROVE BooksInv'
  OBVIOUS
<1>1. CASE UNCHANGED vars
  BY <1>1, QuietKeeps DEF vars, store, pass, flush, ghosts
<1>2. CASE \E p \in InUse : Age(p)
  BY <1>2, QuietKeeps DEF Age, pass, flush, ghosts
<1>3. CASE SyncIfDue
  BY <1>3, BeginsKeeps
<1>4. CASE SyncStep \/ Agent \/ Teardown
  BY <1>4, SyncKeeps, AgentKeeps, TeardownKeeps
<1>5. CASE \E o \in Owners : UploadStep(o)
  BY <1>5, UploadKeeps
<1>6. CASE \E p \in InUse : OtherClient(p)
  BY <1>6, OtherClientKeeps
<1> QED
  BY <1>1, <1>2, <1>3, <1>4, <1>5, <1>6 DEF Next

(* The inductive invariant of what this session wrote and what was wiped,   *)
(* beside that of its records.                                              *)
THEOREM WritesAreOnRecord == Spec => []BooksInv
BY RecordsAreKnown, InitBooks, StepBooks, PTL DEF Spec

\* In a content pass only the pass itself replaces a file, and none with an edit in it.
LEMMA PullReplaces ==
  ASSUME SyncInv, BooksInv, [Next]_vars, pc = "pull", edits' = edits, life' = life,
         NEW p \in Paths, disk'[p] # disk[p], disk[p] # None
  PROVE  remote[p].by = "other"
<1>t. disk \in Files /\ edits \in Nat /\ InUse \subseteq Paths /\ pulls \subseteq InUse
  BY Shapes, Parts DEF SyncInv, RestTyped, BooksInv, Progress
<1>1. CASE \E q \in Paths : PullWrites(q)
  <2>1. PICK q \in Paths : PullWrites(q)
    BY <1>1
  <2>2. /\ q \in pulls /\ disk' = [disk EXCEPT ![q] = remote[q].sha] /\ remote[q].sha # None
    BY <2>1 DEF PullWrites, PullFinds
  <2>3. p = q /\ disk[p] # remote[p].sha /\ p \in InUse
    BY <1>t, <2>2 DEF Files
  <2>4. Ours(p) => disk[p] \in {None, remote[p].sha}
    BY <1>t, <2>2, <2>3 DEF BooksInv, OursAreOnRecord, Accounted, AsUploaded
  <2>5. remote[p].by \in {"us", "other"}
    BY Shapes DEF Memory
  <2> QED
    BY <2>2, <2>3, <2>4, <2>5 DEF Ours
<1>2. CASE Agent
  <2>1. edits' = edits - 1 /\ edits > 0
    BY <1>2 DEF Agent, WipeFiles, WipeFolder, SwapFolder, Edit, Remove, AgentActs
  <2> QED
    BY <1>t, <2>1
<1>3. CASE ~Agent /\ ~\E q \in Paths : PullWrites(q)
  <2>1. RemoveLocal \/ Stamp \/ FullList \/ Fill \/ Dispose
    BY <1>3, FolderTouched DEF FolderSteps
  <2> QED
    BY <2>1 DEF RemoveLocal, AtPath, Stamp, FullList, Fill, Dispose
<1> QED
  BY <1>1, <1>2, <1>3

(* "A memory holding exactly that sha is this sync's own upload, not a      *)
(* remote edit, and a newer local edit goes out over it" (memories.ts): as  *)
(* far as the records reach, no edit is lost to an earlier upload, whatever *)
(* answers were lost and whatever was cut off in between.                   *)
THEOREM OwnUploadsReplaceNothing == Spec => NoEditLostToOwnUpload
<1>1. SyncInv /\ BooksInv /\ [Next]_vars =>
        [pc = "pull" /\ edits' = edits /\ life' = life =>
           \A p \in Paths : disk'[p] # disk[p] /\ disk[p] # None => remote[p].by = "other"]_vars
  BY PullReplaces
<1> QED
  BY <1>1, RecordsAreKnown, WritesAreOnRecord, PTL DEF Spec, NoEditLostToOwnUpload

(* A delete goes out only for a file that went by itself, or in a wipe that *)
(* landed inside the pass: a folder that was emptied between two passes is  *)
(* filled again instead.                                                    *)
THEOREM WipedFilesStay == Spec => WipesDeleteNothing
<1>1. ASSUME SyncInv, BooksInv, [Next]_vars, pc # "delete", pc' = "delete"
      PROVE  removed[at] # "kept"
  <2>1. Confirm
    <3>1. CASE SyncStep
      BY <1>1, <3>1 DEF SyncStep, Scan, List, ListFails, HoldDelete, AskDelete, Confirm, DeleteAnswered,
         DeleteUnanswered, GoneOnBothSides, RemoveLocal, PushNew, Push, Pull, Adopt, PushChange, InStep, PathsDone,
         PullWrites, PullSkips, PullsDone, RefuseFolder, Stamp, FullList, Fill, Filled, Keep, EndPass,
         DownloadFails, PassFails
    <3>2. CASE \E o \in Owners : UploadStep(o)
      BY <1>1, <3>2, UploadOutcomes DEF UploadStep, Keep
    <3>3. CASE Teardown
      BY <1>1, <3>3 DEF Teardown, Finish, RunFails, FinishCutOff, FlushScan, FlushList, FlushDone,
         FlushCutOff, Dispose, FlushStart, pass
    <3>4. CASE Agent \/ SyncIfDue \/ \E p \in InUse : OtherClient(p) \/ Age(p)
      BY <1>1, <3>4 DEF Agent, WipeFiles, WipeFolder, SwapFolder, Edit, Remove, AgentLeaves, SyncIfDue,
         OtherClient, Age, pass
    <3> QED
      BY <1>1, <3>1, <3>2, <3>3, <3>4 DEF Next, vars, pass
  <2>2. pc = "confirm" /\ folder = "ours" /\ disk[at] = None
    BY <1>1, <2>1 DEF Confirm, Keep
  <2>3. baseline[at] # None /\ at \in InUse
    BY <1>1, <2>2 DEF BooksInv, Progress, SyncInv, InPlace
  <2>4. at \in Nat
    BY <1>1, Shapes
  <2> QED
    BY <1>1, <2>2, <2>3, <2>4 DEF BooksInv, WipesAreNoticed, WipedOffRecord, Missing, Comparing
<1>2. SyncInv /\ BooksInv /\ [Next]_vars => [pc # "delete" /\ pc' = "delete" => removed[at] # "kept"]_vars
  BY <1>1
<1> QED
  BY <1>2, RecordsAreKnown, WritesAreOnRecord, PTL DEF Spec, WipesDeleteNothing

-----------------------------------------------------------------------------
(* What a flush saves: the third inductive invariant, of the last part of a *)
(* session, in which the agent writes no more.  A memory that this session  *)
(* wrote is on record or equal to its file when the flush looks, so that a  *)
(* file the flush finds clean is on the server; one that it finds dirty it  *)
(* sends under a condition that the memory, if still this session's, meets. *)

Open    == {"download", "running", "finish", "flush"}
Late    == {"finish", "flush"}
Filling == {"open", "full", "fill"}

\* What becomes of a file, unless others wrote its memory last.
SavedIfOurs(p) ==
  \/ faults < setup.faults /\ remote[p].sha = None /\ disk[p] = baseline[p]
  \/ disk[p] \in {None, remote[p].sha} \/ Refused(p)
  \/ fscan[p] # None /\ fscan[p] = remote[p].sha
  \/ remote[p].by = "other"

\* A memory that this session deleted.
OursDeleted(p) == remote[p].by = "us" /\ remote[p].sha = None

\* What is spent, what is refused, and when the worker flushes.
WithinLimits == faults <= setup.faults
EntryLimits(p) ==
  /\ remote[p].id # 0
  /\ refused[p] # None => Rejected # {}
  /\ p \notin InUse => disk[p] = None
  /\ \A o \in Owners : up[o][p].st = "sent" => up[o][p].data # None
FlushTime ==
  /\ life = "flush" <=> fpc \in {"scan", "list", "upload"} /\ ~cut
  /\ cut => life \notin Open
Limits == WithinLimits /\ FlushTime /\ \A p \in Paths : EntryLimits(p)

\* There is no record of a memory that this session deleted, but where an answer was lost.
DeletedIsOffRecord(p) ==
  life \in Open /\ OursDeleted(p) =>
    \/ faults < setup.faults
    \/ IF pc \in Comparing /\ p < at
         THEN next[p] = None /\ (baseline[p] = None \/ (life \in Late => disk[p] = None))
         ELSE baseline[p] = None /\ (pc \in Comparing => listed[p].sha = None)

\* A folder is filled with what others wrote, as far as the records reach.
FilledByOthers(p) == life \in Open /\ pc \in {"full", "fill"} => remote[p].by = "other" /\ sent[p] = None

\* The last pass sees what is in the folder, and sends it; or fills an empty one.
SyncSees(p) ==
  life \in Late =>
    /\ pc = "list" \/ (pc \in Comparing /\ p >= at) => scan[p] = disk[p]
    /\ up["sync"][p].st = "sent" => disk[p] = up["sync"][p].data
    /\ pc \in Filling => disk[p] = None \/ (pc = "fill" /\ disk[p] = baseline[p])

\* A memory of ours is on record when the flush looks, or in its file.
OnRecord(p, c) == remote[p].sha \in {c, sent[p]} \/ disk[p] \in {None, remote[p].sha}
LateRecords(p) ==
  life \in Late /\ fpc # "upload" /\ Ours(p) =>
    /\ OnRecord(p, baseline[p])
    /\ pc \in Comparing /\ p < at => OnRecord(p, next[p])

\* A file that is there beside a memory we deleted: the last pass listed no memory, and keeps the record.
DeletedBefore(p) ==
  life \in Late /\ pc \in Comparing /\ OursDeleted(p) /\ disk[p] # None =>
    /\ listed[p].sha = None
    /\ p < at /\ disk[p] = baseline[p] => next[p] = disk[p] \/ Refused(p)
    /\ pc = "upload" /\ p = at => disk[p] # baseline[p]

\* The flush sends what it scanned, unless a pass fetched something else meanwhile.
OnServer(p) ==
  \/ disk[p] \in {None, remote[p].sha} \/ remote[p].by = "other"
  \/ fscan[p] # None /\ fscan[p] = remote[p].sha
NotPulled(p) == pc \in Before \cup Comparing \/ (pc = "pull" /\ p \in pulls)
FlushReads(p) ==
  life = "flush" /\ fpc \in {"list", "upload"} =>
    /\ disk[p] = fscan[p] \/ OnServer(p)
    /\ up["flush"][p].st = "sent" => up["flush"][p].data \in {fscan[p], disk[p]}
    /\ NotPulled(p) => disk[p] \in {fscan[p], None}
                       /\ (up["flush"][p].st = "sent" => up["flush"][p].data = fscan[p])

\* An upload of the flush is under way, from the memory that is still there.
ItemStands(p, item) ==
  remote[p].by = "us" => /\ remote[p].sha = item.sha
                         /\ IF item.sha = None THEN item.id = 0 ELSE item.id = remote[p].id
Underway(p) ==
  /\ up["flush"][p].st \in {"todo", "read", "sent"} /\ disk[p] = fscan[p]
  /\ ItemStands(p, up["flush"][p].item)
FlushWorks(p) ==
  life = "flush" =>
    /\ fpc = "list" => SavedIfOurs(p) \/ (p \in todo /\ disk[p] = fscan[p])
    /\ fpc = "upload" => SavedIfOurs(p) \/ up["flush"][p].st = "lost" \/ Underway(p)

FileInv(p) ==
  /\ DeletedIsOffRecord(p) /\ FilledByOthers(p) /\ SyncSees(p) /\ LateRecords(p) /\ DeletedBefore(p)
  /\ FlushReads(p) /\ FlushWorks(p)

\* A flush finds nothing to do in a folder that is being filled, and none is filled once it has work.
FillingAlone ==
  life \in Late /\ fpc \in {"list", "upload"} =>
    pc \notin Filling /\ folder = "ours" /\ (pc \in Before => \E p \in InUse : disk[p] # None)

SavingInv == Limits /\ FillingAlone /\ \A p \in InUse : FileInv(p)


-----------------------------------------------------------------------------
(* The limits.                                                              *)

LEMMA FaultsFall ==
  ASSUME SyncInv, [Next]_vars
  PROVE  faults' <= faults
<1>t. faults \in Nat
  BY Parts DEF SyncInv, RestTyped
<1>f. Fault => faults' <= faults
  BY <1>t DEF Fault
<1>1. CASE SyncStep
  BY <1>1, <1>t, <1>f DEF SyncStep, Scan, List, ListFails, HoldDelete, AskDelete, Confirm,
     DeleteAnswered, DeleteUnanswered, GoneOnBothSides, RemoveLocal, PushNew, Pull, Adopt,
     PushChange, InStep, PathsDone, PullWrites, PullSkips, PullsDone, RefuseFolder, Stamp, FullList,
     Fill, Filled, NoFault, budgets
<1>2. CASE \E o \in Owners : UploadStep(o)
  BY <1>2, <1>t, <1>f DEF UploadStep, UploadRead, UploadAnswered, UploadUnanswered, NoFault, budgets
<1>3. CASE Teardown
  <2>1. CASE FlushList
    <3>1. Fault \/ UNCHANGED faults
      BY <2>1 DEF FlushList, NoFault
    <3> QED
      BY <3>1, <1>t, <1>f
  <2>2. CASE Finish \/ RunFails \/ FinishCutOff \/ FlushScan \/ FlushDone \/ FlushCutOff \/ Dispose
             \/ \E p \in Paths : FlushStart(p)
    BY <2>2, <1>t DEF Finish, RunFails, FinishCutOff, FlushScan, FlushDone, FlushCutOff, Dispose, FlushStart, budgets
  <2> QED
    BY <1>3, <2>1, <2>2 DEF Teardown
<1>4. CASE SyncIfDue \/ \E p \in InUse : OtherClient(p) \/ Age(p)
  BY <1>4, <1>t DEF SyncIfDue, OtherClient, Age, budgets
<1>5. CASE Agent
  BY <1>5, <1>t DEF Agent, WipeFiles, WipeFolder, SwapFolder, Edit, Remove, AgentActs, AgentLeaves
<1> QED
  BY <1>t, <1>1, <1>2, <1>3, <1>4, <1>5 DEF Next, vars, budgets

\* A memory is replaced, and keeps an id.
LEMMA IdsCount ==
  ASSUME SyncInv, NEW p \in Paths, NEW m, m.id \in {remote[p].id, remote[p].id + 1},
         remote' = [remote EXCEPT ![p] = m], \A q \in Paths : remote[q].id # 0
  PROVE  \A q \in Paths : remote'[q].id # 0
<1>1. remote \in [Paths -> Memory]
  BY Shapes
<1>2. remote[p].id \in Nat
  BY <1>1 DEF Memory
<1> QED
  BY <1>1, <1>2

LEMMA IdsStay ==
  ASSUME SyncInv, [Next]_vars, \A p \in Paths : remote[p].id # 0
  PROVE  \A p \in Paths : remote'[p].id # 0
<1>t. remote \in [Paths -> Memory] /\ InUse \subseteq Paths
  BY Shapes
<1>1. CASE DeletedRemotely /\ at \in InUse
  <2> DEFINE m == [remote[at] EXCEPT !.sha = None, !.by = "us"]
  <2>1. m.id = remote[at].id
    BY <1>t, <1>1 DEF Memory
  <2>2. remote' = [remote EXCEPT ![at] = m]
    BY <1>1, <1>t DEF DeletedRemotely
  <2> HIDE DEF m
  <2> QED
    BY <1>1, <1>t, <2>1, <2>2, IdsCount
<1>2. CASE Stamp
  <2>1. remote' = [p \in Paths |-> [remote[p] EXCEPT !.by = "other"]]
    BY <1>2 DEF Stamp
  <2>2. \A m \in Memory : [m EXCEPT !.by = "other"].id = m.id
    BY DEF Memory
  <2> QED
    BY <1>t, <2>1, <2>2
<1>3. ASSUME NEW p \in Paths, NEW c, NEW b,
             remote' = [remote EXCEPT ![p] = [id |-> IF @.sha = None THEN @.id + 1 ELSE @.id, sha |-> c, by |-> b]]
      PROVE  \A q \in Paths : remote'[q].id # 0
  <2> DEFINE m == [id |-> IF remote[p].sha = None THEN remote[p].id + 1 ELSE remote[p].id, sha |-> c, by |-> b]
  <2>1. m.id \in {remote[p].id, remote[p].id + 1}
    OBVIOUS
  <2>2. remote' = [remote EXCEPT ![p] = m]
    BY <1>3, <1>t
  <2> HIDE DEF m
  <2> QED
    <3>1. remote[p].id \in Nat /\ remote[p].id # 0
      BY <1>t DEF Memory
    <3>2. m.id # 0
      BY <2>1, <3>1
    <3> QED
      BY <1>t, <2>2, <3>2
<1>4. CASE SyncStep
  <2>1. CASE DeleteAnswered \/ DeleteUnanswered
    <3>1. at \in InUse
      BY <2>1 DEF DeleteAnswered, DeleteUnanswered, SyncInv, InPlace
    <3> QED
      BY <1>1, <2>1, <3>1 DEF DeleteAnswered, DeleteUnanswered
  <2> QED
    BY <1>2, <1>4, <2>1 DEF SyncStep, Scan, List, ListFails, HoldDelete, AskDelete,
       Confirm, GoneOnBothSides, RemoveLocal, PushNew, Pull, Adopt, PushChange, InStep, PathsDone, PullWrites,
       PullSkips, PullsDone, RefuseFolder, FullList, Fill, Filled
<1>5. CASE \E o \in Owners : UploadStep(o)
  <2>1. PICK o \in Owners, p \in Paths : UploadRead(o, p) \/ UploadAnswered(o, p) \/ UploadUnanswered(o, p)
    BY <1>5 DEF UploadStep
  <2>2. (\E c : Uploaded(p, c)) \/ UNCHANGED remote
    BY <2>1 DEF UploadRead, UploadAnswered, UploadUnanswered
  <2> QED
    BY <1>3, <2>2 DEF Uploaded
<1>6. CASE Teardown \/ Agent \/ SyncIfDue \/ \E p \in InUse : Age(p)
  BY <1>6 DEF Teardown, Finish, RunFails, FinishCutOff, FlushScan, FlushList, FlushDone, FlushCutOff, Dispose,
     FlushStart, SyncIfDue, Age, Agent, WipeFiles, WipeFolder, SwapFolder, Edit, Remove, AgentActs, AgentLeaves
<1>7. CASE \E p \in InUse : OtherClient(p)
  <2>1. PICK p \in InUse : OtherClient(p)
    BY <1>7
  <2>2. PICK c : remote' = [remote EXCEPT ![p] =
                   [id |-> IF @.sha = None THEN @.id + 1 ELSE @.id, sha |-> c, by |-> "other"]]
    BY <2>1 DEF OtherClient
  <2> QED
    BY <1>3, <1>t, <2>2
<1> QED
  BY <1>4, <1>5, <1>6, <1>7 DEF Next, vars

LEMMA RefusalsAreReal ==
  ASSUME SyncInv, [Next]_vars, \A p \in Paths : refused[p] # None => Rejected # {}
  PROVE  \A p \in Paths : refused'[p] # None => Rejected' # {}
<1>t. refused \in Files /\ Rejected' = Rejected
  BY Parts, SetupStays DEF SyncInv, StoreTyped, Rejected
<1>1. CASE \E o \in Owners : UploadStep(o)
  <2>1. PICK o \in Owners, p \in Paths : UploadRead(o, p) \/ UploadAnswered(o, p) \/ UploadUnanswered(o, p)
    BY <1>1 DEF UploadStep
  <2>2. \/ UNCHANGED refused \/ refused' = [refused EXCEPT ![p] = None]
        \/ Rejected # {}
    BY <2>1 DEF UploadRead, UploadAnswered, UploadUnanswered
  <2> QED
    BY <1>t, <2>2 DEF Files
<1>2. CASE List \/ PathsDone \/ Stamp \/ Fill \/ FlushList \/ \E p \in Paths : PullWrites(p)
  BY <1>2, <1>t DEF List, PathsDone, Stamp, Fill, FlushList, PullWrites
<1> QED
  BY <1>1, <1>2, <1>t, StoreTouched DEF StoreSteps

LEMMA OutOfUse ==
  ASSUME SyncInv, BooksInv, [Next]_vars, \A p \in Paths : p \notin InUse => disk[p] = None
  PROVE  \A p \in Paths : p \notin InUse' => disk'[p] = None
<1>t. InUse' = InUse /\ disk \in Files /\ \A p \in Paths : NoFiles[p] = None
  BY SetupStays, Shapes, Constants DEF InUse
<1>1. ASSUME NEW p \in InUse, NEW c, disk' = [disk EXCEPT ![p] = c]
      PROVE  \A q \in Paths : q \notin InUse' => disk'[q] = None
  BY <1>1, <1>t DEF Files
<1>2. CASE disk' = NoFiles
  BY <1>2, <1>t
<1>3. CASE Agent
  BY <1>1, <1>2, <1>3, <1>t DEF Agent, WipeFiles, WipeFolder, SwapFolder, Edit, Remove
<1>4. CASE RemoveLocal
  BY <1>1, <1>4, <1>t DEF RemoveLocal, AtPath
<1>5. CASE Stamp \/ FullList \/ Dispose
  BY <1>2, <1>5, <1>t DEF Stamp, FullList, DownloadFails, PassFails, Dispose
<1>6. CASE Fill
  BY <1>1, <1>6, <1>t DEF Fill
<1>7. ASSUME NEW p \in Paths, PullWrites(p)
      PROVE  \A q \in Paths : q \notin InUse' => disk'[q] = None
  <2>1. p \in InUse
    BY <1>7 DEF PullWrites, BooksInv, Progress
  <2> QED
    BY <1>1, <1>7, <2>1 DEF PullWrites
<1> QED
  BY <1>3, <1>4, <1>5, <1>6, <1>7, <1>t, FolderTouched DEF FolderSteps

LEMMA SentHasContent ==
  ASSUME SyncInv, [Next]_vars, \A o \in Owners, p \in Paths : up[o][p].st = "sent" => up[o][p].data # None
  PROVE  \A o \in Owners, p \in Paths : up'[o][p].st = "sent" => up'[o][p].data # None
<1>t. UpTyped /\ "sync" \in Owners /\ "flush" \in Owners /\ NoUpload.st = "none"
  BY Shapes, Constants
<1>1. ASSUME NEW o \in Owners, NEW p \in Paths, NEW u, UploadIs(o, p, u), u.st = "sent" => u.data # None
      PROVE  \A v \in Owners, q \in Paths : up'[v][q].st = "sent" => up'[v][q].data # None
  BY <1>1, UploadingUpdates
<1>s. ASSUME NEW o \in Owners, NEW p \in Paths, NEW c, NEW m, StartUpload(o, p, c, m)
      PROVE  \A v \in Owners, q \in Paths : up'[v][q].st = "sent" => up'[v][q].data # None
  <2> DEFINE u == [st |-> "read", item |-> m, local |-> c, data |-> None]
  <2>1. UploadIs(o, p, u) /\ u.st = "read"
    BY <1>s DEF StartUpload, UploadIs
  <2> HIDE DEF u
  <2> QED
    BY <1>1, <2>1
<1>2. CASE RemoveLocal \/ PushNew \/ PushChange
  <2>1. at \in Paths
    BY <1>2, Shapes DEF RemoveLocal, PushNew, PushChange, AtPath
  <2> QED
    BY <1>2, <1>s, <1>t, <2>1 DEF RemoveLocal, PushNew, PushChange, Push
<1>3. CASE \E p \in Paths : FlushStart(p)
  BY <1>3, <1>s, <1>t DEF FlushStart
<1>4. ASSUME NEW f, up' = [up EXCEPT !["flush"] = f], \A p \in Paths : f[p].st # "sent"
      PROVE  \A v \in Owners, q \in Paths : up'[v][q].st = "sent" => up'[v][q].data # None
  BY <1>4, <1>t DEF UpTyped, Owners
<1>5. CASE FlushDone
  <2> DEFINE f == [p \in Paths |-> NoUpload]
  <2>1. up' = [up EXCEPT !["flush"] = f] /\ \A p \in Paths : f[p].st # "sent"
    BY <1>5, <1>t DEF FlushDone
  <2> QED
    BY <1>4, <2>1
<1>6. CASE FlushList
  <2> DEFINE item(p) == IF remote[p].sha = None THEN NoMemory ELSE remote[p]
             f == [p \in Paths |-> IF p \in todo /\ fscan[p] # baseline'[p] /\ remote[p].sha \in {None, baseline'[p]}
                                     THEN [NoUpload EXCEPT !.st = "todo", !.item = item(p)] ELSE NoUpload]
  <2>1. up' = [up EXCEPT !["flush"] = f] \/ UNCHANGED up
    BY <1>6 DEF FlushList
  <2>2. \A p \in Paths : f[p].st # "sent"
    BY DEF NoUpload
  <2> HIDE DEF f
  <2> QED
    BY <1>4, <2>1, <2>2
<1>7. CASE \E o \in Owners : UploadStep(o)
  <2>1. PICK o \in Owners, p \in Paths : UploadRead(o, p) \/ UploadAnswered(o, p) \/ UploadUnanswered(o, p)
    BY <1>7 DEF UploadStep
  <2>2. \A w \in Owners, q \in Paths : w # o \/ q # p => up'[w][q] = up[w][q]
    BY <2>1, UploadOutcomes
  <2>3. up'[o][p].st = "sent" => up'[o][p].data # None
    <3>1. CASE UploadRead(o, p)
      <4>1. CASE disk[p] = None
        <5>1. UploadIs(o, p, NoUpload)
          BY <3>1, <4>1 DEF UploadRead, UploadEnds, UploadIs
        <5> QED
          BY <5>1, <1>t, UploadingUpdates
      <4>2. CASE disk[p] # None
        BY <1>t, <3>1, <4>2 DEF UploadRead, UpTyped, Upload
      <4> QED
        BY <4>1, <4>2
    <3>2. CASE UploadAnswered(o, p) \/ UploadUnanswered(o, p)
      <4>1. CASE UploadLost(o, p)
        <5> DEFINE x == [NoUpload EXCEPT !.st = IF o = "flush" THEN "lost" ELSE "none"]
        <5>1. UploadIs(o, p, x) /\ x.st # "sent"
          BY <4>1 DEF UploadLost, UploadIs, NoUpload
        <5> HIDE DEF x
        <5> QED
          BY <5>1, UploadingUpdates
      <4>2. ASSUME NEW sha, UploadEnds(o, p, sha)
            PROVE  up'[o][p].st # "sent"
        <5>1. UploadIs(o, p, NoUpload)
          BY <4>2 DEF UploadEnds, UploadIs
        <5> QED
          BY <5>1, <1>t, UploadingUpdates
      <4> QED
        BY <1>s, <3>2, <4>1, <4>2 DEF UploadAnswered, UploadUnanswered
    <3> QED
      BY <2>1, <3>1, <3>2
  <2> QED
    BY <2>2, <2>3
<1> QED
  BY <1>2, <1>3, <1>5, <1>6, <1>7, UpTouched DEF UpSteps

LEMMA FlushHasItsTime ==
  ASSUME SyncInv, BooksInv, [Next]_vars, FlushTime
  PROVE  FlushTime'
<1>0. /\ life \in {"download", "running", "finish"} => fpc = "off"
      /\ life = "flush" <=> fpc \in {"scan", "list", "upload"} /\ ~cut
      /\ cut => life \notin Open
      /\ life = "download" => pc \in Filling
  BY DEF BooksInv, FlushIsLate, FlushTime, SyncInv, Downloading, Filling
<1>1. CASE UNCHANGED <<life, fpc, cut>>
  BY <1>0, <1>1 DEF FlushTime
<1>2. CASE EndPass /\ UNCHANGED cut
  BY <1>0, <1>2 DEF EndPass, FlushTime, Open
<1>3. CASE life' \in {"failed", "running"} /\ life = "download" /\ UNCHANGED <<fpc, cut>>
  BY <1>0, <1>3 DEF FlushTime, Open
<1>4. CASE SyncStep
  BY <1>1, <1>2, <1>3, <1>4 DEF SyncStep, Scan, List, ListFails, HoldDelete, AskDelete, Confirm, DeleteAnswered,
     DeleteUnanswered, GoneOnBothSides, RemoveLocal, PushNew, Pull, Adopt, PushChange, InStep, PathsDone, PullWrites,
     PullSkips, PullsDone, RefuseFolder, Stamp, FullList, Fill, Filled, DownloadFails, PassFails, flush
<1>5. CASE \E o \in Owners : UploadStep(o)
  BY <1>1, <1>5 DEF UploadStep, UploadRead, UploadAnswered, UploadUnanswered, flush
<1>6. CASE SyncIfDue \/ Agent \/ \E p \in InUse : OtherClient(p) \/ Age(p)
  BY <1>1, <1>6 DEF SyncIfDue, OtherClient, Age, Agent, WipeFiles, WipeFolder, SwapFolder, Edit, Remove, AgentLeaves, flush
<1>7. CASE Teardown
  <2>1. CASE Finish \/ RunFails \/ FinishCutOff
    BY <1>0, <2>1 DEF Finish, RunFails, FinishCutOff, FlushTime, Open, flush
  <2>2. CASE FlushScan \/ FlushList \/ FlushDone
    <3>1. fpc \in {"scan", "list", "upload"} /\ UNCHANGED cut
      BY <2>2 DEF FlushScan, FlushList, FlushDone
    <3>2. FlushEnds \/ (fpc' \in {"list", "upload"} /\ UNCHANGED life)
      BY <2>2 DEF FlushScan, FlushList, FlushDone
    <3>3. CASE FlushEnds
      BY <1>0, <3>1, <3>3 DEF FlushEnds, FlushTime, Open
    <3>4. CASE fpc' \in {"list", "upload"} /\ UNCHANGED life
      BY <1>0, <3>1, <3>4 DEF FlushTime, Open
    <3> QED
      BY <3>2, <3>3, <3>4
  <2>3. CASE FlushCutOff \/ Dispose \/ \E p \in Paths : FlushStart(p)
    BY <1>0, <2>3 DEF FlushCutOff, Dispose, FlushStart, FlushTime, Open, flush
  <2> QED
    BY <1>7, <2>1, <2>2, <2>3 DEF Teardown
<1> QED
  BY <1>1, <1>4, <1>5, <1>6, <1>7 DEF Next, vars, flush

LEMMA LimitsStay ==
  ASSUME SyncInv, BooksInv, [Next]_vars, Limits
  PROVE  Limits'
<1>1. WithinLimits'
  <2>1. faults \in Nat /\ faults' \in Nat /\ setup.faults \in Nat /\ setup' = setup
    BY Parts, RestStep, SetupStays, NamesInUse DEF SyncInv, RestTyped
  <2> QED
    BY <2>1, FaultsFall DEF Limits, WithinLimits
<1>2. \A p \in Paths : EntryLimits(p)'
  BY IdsStay, RefusalsAreReal, OutOfUse, SentHasContent DEF Limits, EntryLimits
<1>3. FlushTime'
  BY FlushHasItsTime DEF Limits
<1> QED
  BY <1>1, <1>2, <1>3 DEF Limits

-----------------------------------------------------------------------------
(* What a step leaves as it was.                                            *)

SavedInv == SyncInv /\ BooksInv /\ SavingInv

LEMMA Closed ==
  ASSUME life' \notin Open
  PROVE  FillingAlone' /\ \A p \in InUse : FileInv(p)'
BY DEF Open, Late, FillingAlone, FileInv, DeletedIsOffRecord, FilledByOthers, SyncSees, LateRecords, DeletedBefore,
   FlushReads, FlushWorks

LEMMA OpenBefore ==
  ASSUME SyncInv, BooksInv, [Next]_vars, life' \in Open
  PROVE  life \in Open
<1>t. life \in Open \cup {"dispose", "disposed", "failed"}
  BY Shapes DEF Open
<1>1. CASE UNCHANGED life
  BY <1>1
<1>2. CASE EndPass
  BY <1>1, <1>2 DEF EndPass, Open
<1>3. CASE SyncStep
  BY <1>1, <1>2, <1>3 DEF SyncStep, Scan, List, ListFails, HoldDelete, AskDelete, Confirm, DeleteAnswered,
     DeleteUnanswered, GoneOnBothSides, RemoveLocal, PushNew, Pull, Adopt, PushChange, InStep, PathsDone, PullWrites,
     PullSkips, PullsDone, RefuseFolder, Stamp, FullList, Fill, Filled, DownloadFails, PassFails, Open
<1>4. CASE \E o \in Owners : UploadStep(o)
  BY <1>1, <1>4 DEF UploadStep, UploadRead, UploadAnswered, UploadUnanswered
<1>5. CASE SyncIfDue \/ Agent \/ \E p \in InUse : OtherClient(p) \/ Age(p)
  BY <1>1, <1>5 DEF SyncIfDue, OtherClient, Age, Agent, WipeFiles, WipeFolder, SwapFolder, Edit, Remove, AgentLeaves
<1>6. CASE Teardown
  <2>1. CASE FlushScan \/ FlushList \/ FlushDone
    BY <1>1, <2>1 DEF FlushScan, FlushList, FlushDone, FlushEnds, Open
  <2> QED
    BY <1>1, <1>6, <2>1 DEF Teardown, Finish, RunFails, FinishCutOff, FlushCutOff, Dispose, FlushStart, Open
<1> QED
  BY <1>1, <1>3, <1>4, <1>5, <1>6 DEF Next, vars

\* What a session that is not over knows.
LEMMA OpenFacts ==
  ASSUME SavedInv
  PROVE  /\ life \in Open => (life = "flush" <=> fpc \in {"list", "upload", "scan"})
         /\ life = "flush" => ~cut
         /\ life \in {"download", "running", "finish"} => fpc = "off"
         /\ \A p \in Paths : up["flush"][p].st # "none" => fpc = "upload"
         /\ fpc = "upload" => todo = {}
         /\ fpc \in {"list", "upload"} => ~setup.readOnly
         /\ faults \in Nat /\ setup.faults \in Nat /\ faults <= setup.faults
         /\ life = "download" => pc \in Filling
         /\ \A p \in Paths : remote[p].sha # None => Ours(p) \/ remote[p].by = "other"
         /\ \A p \in Paths : remote[p].sha = None => OursDeleted(p) \/ remote[p].by = "other"
<1>1. remote \in [Paths -> Memory] /\ SyncInv /\ BooksInv /\ Limits
  BY Shapes DEF SavedInv, SavingInv
<1>2. faults \in Nat /\ setup.faults \in Nat
  BY <1>1, Parts, NamesInUse DEF SyncInv, RestTyped
<1>3. \A p \in Paths : remote[p].by \in {"us", "other"}
  BY <1>1 DEF Memory
<1> QED
  BY <1>1, <1>2, <1>3 DEF BooksInv, FlushIsLate, Limits, WithinLimits, FlushTime, Open, SyncInv, Writing, Downloading,
     Filling, Ours, OursDeleted

\* Nothing of a file and its memory is touched.
SameFile(p) ==
  /\ disk'[p] = disk[p] /\ remote'[p] = remote[p] /\ baseline'[p] = baseline[p] /\ sent'[p] = sent[p]
  /\ refused'[p] = refused[p] /\ fscan'[p] = fscan[p] /\ scan'[p] = scan[p] /\ next'[p] = next[p]
  /\ listed'[p] = listed[p] /\ up'["flush"][p] = up["flush"][p] /\ (p \in todo' <=> p \in todo)
  /\ up'["sync"][p].st = "sent" => up'["sync"][p] = up["sync"][p]

\* The pass is where it was, for the file.
SameStage(p) ==
  /\ life' = life /\ fpc' = fpc /\ (p \in pulls' => p \in pulls)
  /\ \/ pc' = pc /\ (p < at' <=> p < at) /\ (pc = "upload" => at' = at)
     \/ {pc, pc'} \subseteq Comparing /\ (p < at' <=> p < at) /\ (pc' = "upload" => at' # p)

LEMMA FileStays ==
  ASSUME SavedInv, [Next]_vars, NEW p \in InUse, SameFile(p), SameStage(p), at \in Nat, at' \in Nat
  PROVE  FileInv(p)'
<1>0. FileInv(p) /\ setup' = setup /\ Rejected' = Rejected /\ p \in Nat
  BY SetupStays, Shapes DEF SavedInv, SavingInv, Rejected
<1>1. faults' <= faults /\ faults \in Nat /\ faults' \in Nat /\ setup.faults \in Nat
  BY FaultsFall, OpenFacts, RestStep DEF SavedInv, RestTyped
<1>2. faults < setup.faults => faults' < setup'.faults
  BY <1>0, <1>1
<1>3. p >= at <=> ~(p < at)
  BY <1>0
<1>4. p >= at' <=> ~(p < at')
  BY <1>0
<1>5. OursDeleted(p)' = OursDeleted(p) /\ Ours(p)' = Ours(p) /\ Refused(p)' = Refused(p)
  BY <1>0 DEF SameFile, OursDeleted, Ours, Refused
<1>6. SavedIfOurs(p) => SavedIfOurs(p)'
  BY <1>2, <1>5 DEF SameFile, SavedIfOurs
<1>7. DeletedIsOffRecord(p)' /\ FilledByOthers(p)'
  BY <1>0, <1>2, <1>5 DEF FileInv, SameFile, SameStage, DeletedIsOffRecord, FilledByOthers, Comparing
<1>8. SyncSees(p)' /\ LateRecords(p)'
  BY <1>0, <1>3, <1>4, <1>5 DEF FileInv, SameFile, SameStage, SyncSees, LateRecords, OnRecord, Comparing, Filling
<1>9. DeletedBefore(p)'
  BY <1>0, <1>5 DEF FileInv, SameFile, SameStage, DeletedBefore, Comparing
<1>10. FlushReads(p)' /\ FlushWorks(p)'
  <2>1. NotPulled(p)' => NotPulled(p)
    BY DEF SameStage, NotPulled, Comparing, Before
  <2>2. OnServer(p)' = OnServer(p) /\ Underway(p)' = Underway(p)
    BY DEF SameFile, OnServer, Underway, ItemStands
  <2> QED
    BY <1>0, <1>6, <2>1, <2>2 DEF FileInv, SameFile, SameStage, FlushReads, FlushWorks
<1> QED
  BY <1>7, <1>8, <1>9, <1>10 DEF FileInv

-----------------------------------------------------------------------------
(* A pass at a path.                                                        *)

\* What a step does to the file where the pass is.
PathSaves ==
  /\ \A p \in Paths \ {at} : refused'[p] = refused[p]
  /\ \A p \in {at} :
       /\ OursDeleted(p)' =>
            \/ faults' < setup.faults
            \/ IF pc' = "path" THEN next'[p] = None /\ (baseline[p] = None \/ (life \in Late => disk'[p] = None))
                               ELSE baseline[p] = None /\ listed[p].sha = None
       /\ life \in Late =>
            /\ up'["sync"][p].st = "sent" => disk'[p] = up'["sync"][p].data
            /\ Ours(p)' /\ pc' = "path" => OnRecord(p, baseline[p])' /\ OnRecord(p, next[p])'
            /\ OursDeleted(p)' /\ disk'[p] # None =>
                 /\ listed[p].sha = None
                 /\ pc' = "path" /\ disk'[p] = baseline[p] => next'[p] = disk'[p] \/ Refused(p)'
                 /\ pc' = "upload" => disk'[p] # baseline[p]
            /\ OnServer(p)' \/ (disk'[p] = disk[p] /\ remote'[p] = remote[p] /\ (refused'[p] = refused[p] \/ Refused(p)'))

LEMMA PathSavesKeeps ==
  ASSUME SavedInv, [Next]_vars, (\E c : PathDone(c)) \/ PathWaits, PathSaves
  PROVE  FillingAlone' /\ \A p \in InUse : FileInv(p)'
<1>t. /\ at \in Nat /\ at \in InUse /\ at \in Paths /\ InUse \subseteq Paths /\ Paths \subseteq Nat /\ setup' = setup
      /\ SyncInv /\ BooksInv /\ SyncInv' /\ BooksInv'
  BY Shapes, SetupStays, StepInv, StepBooks DEF SavedInv, PathDone, PathWaits
<1>s. /\ pc \in Comparing /\ UNCHANGED <<folder, baseline, life, fpc, fscan, todo, scan, listed>>
      /\ \A p \in Paths : up'["flush"][p] = up["flush"][p]
      /\ disk'[at] \in {disk[at], None} /\ pulls' \subseteq pulls \cup {at}
      /\ \A p \in Paths \ {at} :
           disk'[p] = disk[p] /\ remote'[p] = remote[p] /\ sent'[p] = sent[p] /\ next'[p] = next[p]
      /\ (pc' = "path" /\ at' = at + 1) \/ (pc' \in {"confirm", "delete", "upload"} /\ at' = at)
  BY <1>t, KeptAt DEF PathDone, PathWaits
<1>n. at' \in Nat /\ pc' \in Comparing /\ InUse' = InUse /\ Rejected' = Rejected
  BY <1>t, <1>s DEF Comparing, InUse, Rejected
<1>1. FillingAlone'
  <2>1. pc' \notin Filling /\ pc' \notin Before
    BY <1>n DEF Comparing, Filling, Before
  <2> QED
    BY <1>s, <2>1 DEF SavedInv, SavingInv, FillingAlone, Comparing, Filling
<1>2. ASSUME NEW p \in InUse, p # at
      PROVE  FileInv(p)'
  <2>1. up'["sync"][p].st # "sent"
    BY <1>t, <1>s, <1>2, Parts DEF SyncInv, OneUpload
  <2>2. SameFile(p)
    BY <1>t, <1>s, <1>2, <2>1 DEF SameFile, PathSaves
  <2>3. p < at' <=> p < at
    <3>1. p \in Nat /\ p # at
      BY <1>t, <1>2
    <3>2. at' \in {at, at + 1}
      BY <1>s
    <3> QED
      BY <1>t, <3>1, <3>2
  <2>4. SameStage(p)
    BY <1>n, <1>s, <1>2, <2>3 DEF SameStage
  <2> QED
    BY <1>t, <1>n, <2>2, <2>4, FileStays
<1>3. ASSUME NEW p \in Paths, p \in {at}
      PROVE  FileInv(p)'
  <2>0. FileInv(p) /\ p \in InUse /\ p \in {at} /\ ~(p < at) /\ p >= at
    BY <1>3, <1>t DEF SavedInv, SavingInv
  <2>1. (pc' = "path" => p < at' /\ ~(p >= at')) /\ (pc' # "path" => ~(p < at') /\ p >= at')
    BY <1>t, <1>s, <2>0
  <2>2. DeletedIsOffRecord(p)'
    BY <1>t, <1>n, <1>s, <2>0, <2>1 DEF PathSaves, DeletedIsOffRecord
  <2>3. FilledByOthers(p)'
    BY <1>n DEF Comparing, FilledByOthers
  <2>4. SyncSees(p)'
    <3>1. pc' # "path" => disk' = disk
      BY <1>s DEF PathDone, PathWaits, Kept
    <3>2. pc' \notin Filling /\ pc' # "list"
      BY <1>n DEF Comparing, Filling
    <3> QED
      BY <1>n, <1>s, <2>0, <2>1, <3>1, <3>2 DEF PathSaves, SyncSees, FileInv
  <2>5. LateRecords(p)'
    <3>1. CASE pc' = "path"
      BY <1>s, <2>0, <2>1, <3>1 DEF PathSaves, LateRecords
    <3>2. CASE pc' # "path"
      <4>1. Ours(p)' => Accounted(p)'
        BY <1>t, <1>n, <2>0 DEF BooksInv, OursAreOnRecord
      <4>2. Ours(p)' => OnRecord(p, baseline[p])'
        BY <1>n, <2>1, <3>2, <4>1 DEF Accounted, AsUploaded, OnRecord
      <4> QED
        BY <2>1, <3>2, <4>2 DEF LateRecords
    <3> QED
      BY <3>1, <3>2
  <2>6. DeletedBefore(p)'
    <3>1. listed'[p] = listed[p] /\ baseline'[p] = baseline[p]
      BY <1>s, <2>0
    <3> QED
      BY <1>s, <2>0, <2>1, <3>1 DEF PathSaves, DeletedBefore
  <2>7. CASE life = "flush"
    <3>1. /\ fscan'[p] = fscan[p] /\ up'["flush"][p] = up["flush"][p] /\ NotPulled(p)
          /\ OnServer(p)' \/ (disk'[p] = disk[p] /\ remote'[p] = remote[p] /\ (refused'[p] = refused[p] \/ Refused(p)'))
      BY <1>s, <2>0, <2>7 DEF NotPulled, PathSaves, Late
    <3>2. FlushReads(p)'
      <4>1. OnServer(p) /\ disk'[p] = disk[p] /\ remote'[p] = remote[p] => OnServer(p)'
        BY <3>1 DEF OnServer
      <4>2. disk'[p] = fscan'[p] \/ OnServer(p)' \/ ~(fpc \in {"list", "upload"})
        BY <2>0, <2>7, <3>1, <4>1 DEF FileInv, FlushReads
      <4> QED
        BY <1>s, <2>0, <2>7, <3>1, <4>2 DEF FileInv, FlushReads
    <3>3. OnServer(p)' => SavedIfOurs(p)'
      BY DEF OnServer, SavedIfOurs
    <3>4. disk'[p] = disk[p] /\ remote'[p] = remote[p] =>
            /\ Underway(p) => Underway(p)'
            /\ SavedIfOurs(p) => SavedIfOurs(p)' \/ ~(refused'[p] = refused[p] \/ Refused(p)')
      <4>1. faults' <= faults /\ faults \in Nat /\ faults' \in Nat /\ setup.faults \in Nat
        BY <1>t, FaultsFall, OpenFacts, RestStep DEF RestTyped
      <4>2. faults < setup.faults => faults' < setup'.faults
        BY <1>t, <4>1
      <4> QED
        BY <1>n, <1>s, <3>1, <4>2 DEF Underway, ItemStands, SavedIfOurs, Refused
    <3>5. FlushWorks(p)'
      BY <1>s, <2>0, <2>7, <3>1, <3>3, <3>4 DEF FileInv, FlushWorks
    <3> QED
      BY <2>2, <2>3, <2>4, <2>5, <2>6, <3>2, <3>5 DEF FileInv
  <2>8. CASE life # "flush"
    BY <1>s, <2>2, <2>3, <2>4, <2>5, <2>6, <2>8 DEF FileInv, FlushReads, FlushWorks
  <2> QED
    BY <2>7, <2>8
<1> QED
  BY <1>1, <1>2, <1>3, <1>t

LEMMA FaultsCount ==
  ASSUME SavedInv, [Next]_vars
  PROVE  /\ faults < setup.faults => faults' < setup.faults
         /\ Fault => faults' < setup.faults
<1>1. faults \in Nat /\ faults' \in Nat /\ setup.faults \in Nat /\ faults <= setup.faults /\ faults' <= faults
  BY OpenFacts, FaultsFall, RestStep DEF SavedInv, RestTyped
<1> QED
  BY <1>1 DEF Fault

\* What is known of the file where the pass is.
LEMMA AtTheFile ==
  ASSUME SavedInv, life \in Open, pc \in Comparing, at \in InUse
  PROVE  /\ at \in Paths /\ at \in Nat
         /\ OursDeleted(at) => faults < setup.faults \/ (Base = None /\ Item.sha = None)
         /\ life \in Late => Local = disk[at]
         /\ life \in Late /\ Ours(at) => \/ disk[at] \in {None, remote[at].sha}
                                         \/ remote[at].sha = Base /\ Item.sha = Base /\ Base # None
         /\ life \in Late /\ OursDeleted(at) /\ disk[at] # None =>
              Item.sha = None /\ (pc = "upload" => disk[at] # Base)
         /\ pc \in {"confirm", "delete"} => Local = None /\ Base # None
         /\ pc # "upload" => up["sync"][at].st # "sent"
         /\ up["sync"][at].st = "sent" => up["sync"][at].data # None /\ (life \in Late => up["sync"][at].data = disk[at])
<1>1. SyncInv /\ BooksInv /\ at \in Paths /\ at \in Nat /\ at >= at /\ ~(at < at) /\ FileInv(at) /\ EntryLimits(at)
      /\ "sync" \in Owners
  BY Shapes DEF SavedInv, SavingInv, Limits
<1>2. OursDeleted(at) => faults < setup.faults \/ (Base = None /\ Item.sha = None)
  BY <1>1 DEF FileInv, DeletedIsOffRecord, Base, Item
<1>3. life \in Late => Local = disk[at] /\ (up["sync"][at].st = "sent" => up["sync"][at].data = disk[at])
  BY <1>1 DEF FileInv, SyncSees, Local
<1>4. Ours(at) => \/ disk[at] \in {None, remote[at].sha}
                  \/ remote[at].sha = Base /\ Item.sha = Base /\ Base # None
  BY <1>1, AtThePath DEF AsUploaded, Ours
<1>5. life \in Late /\ OursDeleted(at) /\ disk[at] # None => Item.sha = None /\ (pc = "upload" => disk[at] # Base)
  BY <1>1 DEF FileInv, DeletedBefore, Item, Base
<1>6. pc \in {"confirm", "delete"} => Local = None /\ Base # None
  BY <1>1 DEF BooksInv, Progress, Local, Base
<1>7. pc # "upload" => up["sync"][at].st # "sent"
  BY <1>1, Parts DEF SyncInv, OneUpload
<1>8. up["sync"][at].st = "sent" => up["sync"][at].data # None
  BY <1>1 DEF EntryLimits
<1> QED
  BY <1>1, <1>2, <1>3, <1>4, <1>5, <1>6, <1>7, <1>8

LEMMA KeptSaves ==
  ASSUME SavedInv, [Next]_vars, life \in Open, pc \in Comparing, at \in InUse, NEW c, Kept(c),
         UNCHANGED <<disk, remote, baseline, sent, fscan>>, up'["sync"][at].st # "sent",
         \A q \in Paths \ {at} : refused'[q] = refused[q],
         refused' = refused \/ (life \in Late => disk[at] \in Rejected),
         \/ c = Base
         \/ c = Item.sha /\ (Item.sha # None \/ pc = "upload")
         \/ c = None /\ Item.sha = None /\ (life \in Late => disk[at] \in {None} \/ disk[at] # Base)
  PROVE  PathSaves
<1>t. SyncInv /\ setup' = setup
  BY SetupStays DEF SavedInv
<1>k. next'[at] = c /\ pc' = "path" /\ listed' = listed
  BY <1>t, KeptAt
<1>1. OursDeleted(at) => faults' < setup.faults \/ (c = None /\ Base = None)
  BY AtTheFile, FaultsCount
<1>2. life \in Late /\ Ours(at) => disk[at] \in {None, remote[at].sha} \/ (remote[at].sha = Base /\ c = Base)
  BY AtTheFile
<1>3. life \in Late /\ OursDeleted(at) /\ disk[at] # None => Item.sha = None /\ (disk[at] = Base => c = disk[at])
  BY AtTheFile
<1>4. ASSUME NEW q \in {at}
      PROVE  /\ OursDeleted(q)' = OursDeleted(at) /\ Ours(q)' = Ours(at) /\ disk'[q] = disk[at] /\ next'[q] = c
             /\ remote'[q] = remote[at] /\ baseline'[q] = Base /\ baseline[q] = Base /\ listed[q] = Item
             /\ life \in Late => refused'[q] = refused[q] \/ Refused(q)'
  BY <1>4, <1>k, <1>t DEF OursDeleted, Ours, Base, Item, Refused, Rejected
<1>5. ASSUME NEW q \in {at}
      PROVE  life \in Late /\ Ours(q)' => OnRecord(q, baseline[q])' /\ OnRecord(q, next[q])'
  BY <1>2, <1>4, <1>5 DEF OnRecord
<1> QED
  BY <1>1, <1>3, <1>4, <1>5, <1>k DEF PathSaves

LEMMA WaitSaves ==
  ASSUME SavedInv, [Next]_vars, life \in Open, pc \in Comparing, at \in InUse, pc' \in {"confirm", "delete", "upload"},
         UNCHANGED <<disk, remote, baseline, refused, fscan, listed>>,
         up'["sync"][at].st = "sent" => (life \in Late => disk[at] = up'["sync"][at].data),
         pc' = "upload" => pc = "upload" \/ (life \in Late => disk[at] # Base)
  PROVE  PathSaves
<1>1. OursDeleted(at) => faults' < setup.faults \/ (Base = None /\ Item.sha = None)
  BY AtTheFile, FaultsCount
<1>3. life \in Late /\ OursDeleted(at) /\ disk[at] # None => Item.sha = None /\ (pc' = "upload" => disk[at] # Base)
  BY AtTheFile
<1>4. ASSUME NEW q \in {at}
      PROVE  /\ OursDeleted(q)' = OursDeleted(at) /\ disk'[q] = disk[at]
             /\ baseline[q] = Base /\ listed[q] = Item
  BY <1>4 DEF OursDeleted, Ours, Base, Item
<1> QED
  BY <1>1, <1>3, <1>4 DEF PathSaves

\* A file that is pushed was not the last one synced.
LEMMA PushSaves ==
  ASSUME SavedInv, [Next]_vars, life \in Open, pc = "path", at \in InUse, NEW local, Push(local), local # Base,
         life \in Late => local = disk[at], Item.sha = None,
         UNCHANGED <<disk, remote, baseline, refused, sent, fscan>>
  PROVE  PathSaves
<1>t. SyncInv /\ at \in Paths /\ pc \in Comparing /\ "sync" \in Owners
  BY Shapes DEF SavedInv, Comparing
<1>1. CASE setup.readOnly \/ refused[at] = local
  <2>1. Kept(None) /\ up' = up
    BY <1>1 DEF Push, Keep, Kept
  <2>2. up["sync"][at].st # "sent"
    BY <1>t, AtTheFile
  <2> QED
    BY <1>t, <2>1, <2>2, KeptSaves
<1>2. CASE ~(setup.readOnly \/ refused[at] = local)
  <2>1. StartUpload("sync", at, local, NoMemory) /\ pc' = "upload" /\ listed' = listed
    BY <1>2 DEF Push
  <2>2. up'["sync"][at].st = "read"
    BY <1>t, <2>1, StartingUpload
  <2> QED
    BY <1>t, <2>1, <2>2, WaitSaves
<1> QED
  BY <1>1, <1>2

LEMMA ComparisonsSave ==
  ASSUME SavedInv, [Next]_vars, life \in Open,
         \/ HoldDelete \/ AskDelete \/ Confirm \/ GoneOnBothSides \/ Pull \/ Adopt \/ InStep \/ PushNew \/ PushChange
  PROVE  PathSaves
<1>t. at \in InUse /\ pc \in Comparing /\ SyncInv /\ "sync" \in Owners
  <2>1. SyncInv /\ "sync" \in Owners
    BY Shapes DEF SavedInv
  <2>2. at \in InUse /\ pc \in Comparing
    BY <2>1 DEF SyncInv, InPlace, HoldDelete, AskDelete, Confirm, GoneOnBothSides, Pull, Adopt, InStep, PushNew,
       PushChange, AtPath, Comparing
  <2> QED
    BY <2>1, <2>2
<1>u. pc # "upload" => up["sync"][at].st # "sent"
  BY <1>t, AtTheFile
<1>l. life \in Late => Local = disk[at]
  BY <1>t, AtTheFile
<1>1. CASE HoldDelete \/ Pull
  <2>1. Kept(Base) /\ UNCHANGED <<disk, remote, baseline, refused, sent, fscan, up>> /\ pc # "upload"
    BY <1>1 DEF HoldDelete, Pull, AtPath, Keep, Kept, flush
  <2> QED
    BY <1>t, <1>u, <2>1, KeptSaves
<1>2. CASE Adopt \/ InStep
  <2>1. Kept(Item.sha) /\ UNCHANGED <<disk, remote, baseline, refused, sent, fscan, up>> /\ pc # "upload" /\ Item.sha # None
    BY <1>2 DEF Adopt, InStep, RemoteChanged, AtPath, Keep, Kept, flush
  <2> QED
    BY <1>t, <1>u, <2>1, KeptSaves
<1>3. CASE GoneOnBothSides
  <2>1. Kept(None) /\ UNCHANGED <<disk, remote, baseline, refused, sent, fscan, up>> /\ pc # "upload" /\ Item.sha = None
        /\ Local = None
    BY <1>3 DEF GoneOnBothSides, AtPath, Keep, Kept, flush
  <2> QED
    BY <1>t, <1>u, <1>l, <2>1, KeptSaves
<1>4. CASE Confirm
  <2>1. UNCHANGED <<disk, remote, baseline, refused, sent, fscan, up, listed>> /\ pc # "upload"
        /\ (Kept(Base) \/ pc' = "delete")
    BY <1>4 DEF Confirm, Keep, Kept, flush
  <2>2. CASE Kept(Base)
    BY <1>t, <1>u, <2>1, <2>2, KeptSaves
  <2>3. CASE pc' = "delete"
    BY <1>t, <1>u, <2>1, <2>3, WaitSaves
  <2> QED
    BY <2>1, <2>2, <2>3
<1>5. CASE AskDelete
  <2>1. UNCHANGED <<disk, remote, baseline, refused, sent, fscan, up, listed>> /\ pc # "upload" /\ pc' = "confirm"
    BY <1>5 DEF AskDelete, AtPath, flush
  <2> QED
    BY <1>t, <1>u, <2>1, WaitSaves
<1>6. CASE PushNew
  <2>1. /\ UNCHANGED <<disk, remote, baseline, refused, sent, fscan>>
        /\ pc = "path" /\ Push(Local) /\ Local # Base /\ Item.sha = None
    BY <1>6 DEF PushNew, AtPath, flush
  <2> QED
    BY <1>t, <1>l, <2>1, PushSaves
<1>7. CASE PushChange
  <2>1. UNCHANGED <<disk, remote, baseline, refused, sent, fscan, listed>> /\ pc' = "upload" /\ Local # Base
        /\ StartUpload("sync", at, Local, Item)
    BY <1>7 DEF PushChange, LocalChanged, flush
  <2>2. up'["sync"][at].st = "read"
    BY <1>t, <2>1, StartingUpload, Shapes
  <2> QED
    BY <1>t, <1>l, <2>1, <2>2, WaitSaves
<1> QED
  BY <1>1, <1>2, <1>3, <1>4, <1>5, <1>6, <1>7

\* The pass takes a file away: both sides are without it.
LEMMA RemovalSaves ==
  ASSUME SavedInv, [Next]_vars, life \in Open, RemoveLocal
  PROVE  PathSaves
<1>t. at \in InUse /\ pc = "path" /\ pc \in Comparing /\ SyncInv /\ "sync" \in Owners /\ at \in Paths /\ disk \in Files
      /\ Item.sha = None /\ Local = Base /\ Base # None /\ UNCHANGED <<remote, baseline, refused, sent, fscan>>
  BY Shapes DEF SavedInv, RemoveLocal, AtPath, Comparing, flush
<1>u. up["sync"][at].st # "sent"
  BY <1>t, AtTheFile
<1>1. CASE disk' = [disk EXCEPT ![at] = None] /\ Keep(None) /\ UNCHANGED up
  <2>1. OursDeleted(at) => faults' < setup.faults
    BY <1>t, AtTheFile, FaultsCount
  <2>2. ASSUME NEW q \in {at}
        PROVE  disk'[q] = None /\ OursDeleted(q)' = OursDeleted(at)
    BY <1>t, <1>1, <2>2 DEF Files, OursDeleted
  <2> QED
    BY <1>t, <1>u, <1>1, <2>1, <2>2 DEF PathSaves, OnRecord, OnServer
<1>2. CASE disk[at] \notin {None, Base} /\ Push(disk[at]) /\ UNCHANGED disk
  BY <1>t, <1>2, PushSaves
<1>3. CASE Keep(Base) /\ UNCHANGED <<disk, up>>
  <2>1. Kept(Base)
    BY <1>3 DEF Keep, Kept
  <2> QED
    BY <1>t, <1>u, <1>3, <2>1, KeptSaves
<1> QED
  BY <1>1, <1>2, <1>3 DEF RemoveLocal

\* A delete goes out for a file that is not there.
LEMMA DeletionSaves ==
  ASSUME SavedInv, [Next]_vars, life \in Open, DeleteAnswered \/ DeleteUnanswered
  PROVE  PathSaves
<1>t. /\ at \in InUse /\ pc = "delete" /\ pc \in Comparing /\ SyncInv /\ "sync" \in Owners /\ at \in Paths
      /\ remote \in [Paths -> Memory]
      /\ UNCHANGED <<disk, baseline, refused, sent, fscan, up>>
  BY Shapes DEF SavedInv, SyncInv, InPlace, DeleteAnswered, DeleteUnanswered, Comparing, flush
<1>u. up["sync"][at].st # "sent" /\ (life \in Late => disk[at] = None) /\ Base # None
  BY <1>t, AtTheFile
<1>1. \E c : Kept(c)
  BY DEF DeleteAnswered, DeleteUnanswered, Keep, Kept
<1>2. pc' = "path"
  BY <1>1 DEF Kept
<1>3. \/ faults' < setup.faults
      \/ next'[at] = None
      \/ remote' = remote
  <2>1. CASE DeleteUnanswered
    BY <2>1, FaultsCount DEF DeleteUnanswered
  <2>2. CASE DeleteAnswered /\ DeleteApplies
    <3>1. Kept(None)
      BY <2>2 DEF DeleteAnswered, DeleteApplies, Keep, Kept
    <3> QED
      BY <1>t, <3>1, KeptAt
  <2>3. CASE DeleteAnswered /\ ~DeleteApplies
    BY <2>3 DEF DeleteAnswered
  <2> QED
    BY <2>1, <2>2, <2>3
<1>4. OursDeleted(at) => faults' < setup.faults
  BY <1>t, <1>u, AtTheFile, FaultsCount
<1>5. ASSUME NEW q \in {at}
      PROVE  /\ OursDeleted(q)' => \/ faults' < setup.faults
                                   \/ next'[q] = None /\ (life \in Late => disk'[q] = None)
             /\ life \in Late => disk'[q] = None
  BY <1>t, <1>u, <1>3, <1>4, <1>5 DEF OursDeleted
<1> QED
  BY <1>t, <1>u, <1>2, <1>5 DEF PathSaves, OnRecord, OnServer

\* An upload of the pass: what is in the file, once it arrives.
LEMMA ArrivalSaves ==
  ASSUME SavedInv, [Next]_vars, life \in Open, pc = "upload", at \in InUse, up["sync"][at].st = "sent",
         Uploaded(at, up["sync"][at].data), NEW c, Kept(c), up'["sync"][at].st # "sent",
         UNCHANGED <<disk, fscan>>, \A q \in Paths \ {at} : refused'[q] = refused[q]
  PROVE  PathSaves
<1>t. at \in Paths /\ SyncInv /\ pc \in Comparing /\ pc' = "path"
  BY Shapes DEF SavedInv, Comparing, Kept
<1>1. remote'[at].sha = up["sync"][at].data
  BY <1>t, UploadedIs
<1>2. remote'[at].sha # None /\ (life \in Late => disk'[at] = remote'[at].sha)
  BY <1>t, <1>1, AtTheFile
<1>3. ASSUME NEW q \in {at}
      PROVE  ~OursDeleted(q)' /\ (life \in Late => OnServer(q)' /\ OnRecord(q, baseline[q])' /\ OnRecord(q, next[q])')
  BY <1>2, <1>3 DEF OursDeleted, OnServer, OnRecord
<1> QED
  BY <1>t, <1>3 DEF PathSaves

LEMMA SyncUploadSaves ==
  ASSUME SavedInv, [Next]_vars, life \in Open, NEW p \in Paths,
         UploadRead("sync", p) \/ UploadAnswered("sync", p) \/ UploadUnanswered("sync", p)
  PROVE  PathSaves
<1>t. /\ SyncInv /\ "sync" \in Owners /\ NoUpload.st = "none" /\ UpTyped
      /\ up["sync"][p].st \in {"read", "sent"} /\ UNCHANGED <<disk, fscan>>
  BY Shapes, Constants DEF SavedInv, UploadRead, UploadAnswered, UploadUnanswered, flush
<1>p. pc = "upload" /\ p = at /\ at \in InUse /\ pc \in Comparing
  BY <1>t, Parts DEF SyncInv, OneUpload, InPlace, Comparing
<1> DEFINE u == up["sync"][at]
<1>d. u.st = "sent" => (life \in Late => disk[at] = u.data)
  BY <1>p, AtTheFile
<1>k. ASSUME NEW sha, UploadEnds("sync", p, sha)
      PROVE  up'["sync"][at].st # "sent" /\ Kept(IF sha # None THEN sha ELSE Item.sha) /\ UNCHANGED baseline
  <2>1. UploadIs("sync", p, NoUpload)
    BY <1>k DEF UploadEnds, UploadIs
  <2> QED
    BY <1>t, <1>p, <1>k, <2>1, UploadingUpdates DEF UploadEnds, Keep, Kept
<1>0. ASSUME UploadEnds("sync", p, None), UNCHANGED <<remote, sent>>, \A q \in Paths \ {at} : refused'[q] = refused[q],
             refused' = refused \/ (life \in Late => disk[at] \in Rejected)
      PROVE  PathSaves
  <2>1. Kept(Item.sha) /\ up'["sync"][at].st # "sent" /\ UNCHANGED baseline
    BY <1>0, <1>k
  <2> QED
    BY <1>0, <1>t, <1>p, <2>1, KeptSaves
<1>1. CASE UploadRead("sync", p)
  <2>1. CASE disk[p] = None
    BY <1>0, <1>1, <2>1 DEF UploadRead
  <2>2. CASE disk[p] # None
    <3>1. /\ UNCHANGED <<baseline, remote, refused, listed, pc>>
          /\ up' = [up EXCEPT !["sync"][p].st = "sent", !["sync"][p].data = disk[p]]
      BY <1>1, <2>2 DEF UploadRead
    <3>2. up'["sync"][at].data = disk[at]
      BY <1>t, <1>p, <3>1 DEF UpTyped, Upload
    <3> QED
      BY <1>t, <1>p, <3>1, <3>2, WaitSaves
  <2> QED
    BY <2>1, <2>2
<1>2. CASE UploadAnswered("sync", p)
  <2>t. refused \in Files
    BY <1>t, Parts DEF SyncInv, StoreTyped
  <2>1. CASE Uploaded(p, u.data) /\ refused' = [refused EXCEPT ![p] = None] /\ UploadEnds("sync", p, u.data)
    <3>1. \A q \in Paths \ {at} : refused'[q] = refused[q]
      BY <1>p, <2>t, <2>1 DEF Files
    <3>2. u.st = "sent"
      BY <1>2, <1>p DEF UploadAnswered
    <3> QED
      BY <1>t, <1>p, <1>k, <2>1, <3>1, <3>2, ArrivalSaves
  <2>2. CASE u.data \in Rejected /\ refused' = [refused EXCEPT ![p] = u.local] /\ UploadEnds("sync", p, None)
             /\ UNCHANGED <<remote, sent>>
    <3>1. \A q \in Paths \ {at} : refused'[q] = refused[q]
      BY <1>p, <2>t, <2>2 DEF Files
    <3>2. life \in Late => disk[at] \in Rejected
      BY <1>2, <1>p, <1>d, <2>2 DEF UploadAnswered
    <3> QED
      BY <1>0, <2>2, <3>1, <3>2
  <2>3. CASE StartUpload("sync", p, u.local, NoMemory) /\ UNCHANGED <<remote, refused, sent, baseline, pc, listed>>
    <3>1. up'["sync"][at].st = "read"
      BY <1>t, <1>p, <2>3, StartingUpload
    <3> QED
      BY <1>t, <1>p, <2>3, <3>1, WaitSaves
  <2>4. CASE UploadEnds("sync", p, None) /\ UNCHANGED <<remote, refused, sent>>
    BY <1>0, <2>4
  <2> QED
    BY <1>2, <1>p, <2>1, <2>2, <2>3, <2>4 DEF UploadAnswered
<1>3. CASE UploadUnanswered("sync", p)
  <2>1. Kept(Item.sha) /\ UNCHANGED <<baseline, sent, refused>> /\ u.st = "sent"
    BY <1>3, <1>p DEF UploadUnanswered, UploadLost, Keep, Kept
  <2>2. up'["sync"][at].st # "sent"
    <3> DEFINE x == [NoUpload EXCEPT !.st = "none"]
    <3>1. UploadIs("sync", p, x) /\ x.st = "none"
      BY <1>3 DEF UploadUnanswered, UploadLost, UploadIs, NoUpload
    <3> HIDE DEF x
    <3> QED
      BY <1>t, <1>p, <3>1, UploadingUpdates
  <2>3. CASE Uploaded(p, u.data)
    BY <1>t, <1>p, <2>1, <2>2, <2>3, ArrivalSaves
  <2>4. CASE UNCHANGED remote
    BY <1>t, <1>p, <2>1, <2>2, <2>4, KeptSaves
  <2> QED
    BY <1>3, <1>p, <2>3, <2>4 DEF UploadUnanswered
<1> QED
  BY <1>1, <1>2, <1>3

\* Whatever a pass does at a path.
LEMMA PathKeepsSaving ==
  ASSUME SavedInv, [Next]_vars, life \in Open,
         \/ HoldDelete \/ AskDelete \/ Confirm \/ DeleteAnswered \/ DeleteUnanswered
         \/ GoneOnBothSides \/ RemoveLocal \/ PushNew \/ Pull \/ Adopt \/ PushChange \/ InStep
         \/ UploadStep("sync")
  PROVE  FillingAlone' /\ \A p \in InUse : FileInv(p)'
<1>0. SyncInv /\ BooksInv
  BY DEF SavedInv
<1>1. CASE UploadStep("sync")
  <2>1. PICK p \in Paths : UploadRead("sync", p) \/ UploadAnswered("sync", p) \/ UploadUnanswered("sync", p)
    BY <1>1 DEF UploadStep
  <2>2. PathSaves /\ ((\E c : PathDone(c)) \/ PathWaits)
    BY <1>0, <2>1, SyncUploadSaves, SyncUploadEffect
  <2> QED
    BY <2>2, PathSavesKeeps
<1>2. CASE \/ HoldDelete \/ AskDelete \/ Confirm \/ DeleteAnswered \/ DeleteUnanswered
           \/ GoneOnBothSides \/ RemoveLocal \/ PushNew \/ Pull \/ Adopt \/ PushChange \/ InStep
  <2>1. PathSaves
    BY <1>2, ComparisonsSave, RemovalSaves, DeletionSaves
  <2>2. (\E c : PathDone(c)) \/ PathWaits
    BY <1>0, <1>2, PathEffect
  <2> QED
    BY <2>1, <2>2, PathSavesKeeps
<1> QED
  BY <1>1, <1>2

-----------------------------------------------------------------------------
(* The stages of a pass.                                                    *)

\* What the flush relies on, when a pass only keeps its records.
LEMMA FlushPartStays ==
  ASSUME SavedInv, [Next]_vars, life \in Open, NEW p \in InUse,
         disk'[p] = disk[p], remote'[p] = remote[p], refused'[p] = refused[p], fscan'[p] = fscan[p],
         up'["flush"][p] = up["flush"][p], life' = life, fpc' = fpc, p \in todo => p \in todo',
         NotPulled(p)' => NotPulled(p),
         OursDeleted(p) /\ disk[p] # None /\ disk[p] = baseline[p] => baseline'[p] = disk[p] \/ Refused(p)
  PROVE  FlushReads(p)' /\ FlushWorks(p)'
<1>1. FileInv(p) /\ setup' = setup /\ Rejected' = Rejected /\ p \in Paths
  BY SetupStays, Shapes DEF SavedInv, SavingInv, Rejected
<1>2. OnServer(p)' = OnServer(p) /\ Underway(p)' = Underway(p) /\ Refused(p)' = Refused(p)
  BY <1>1 DEF OnServer, Underway, ItemStands, Refused
<1>3. faults < setup.faults => faults' < setup'.faults
  BY <1>1, FaultsCount
<1>4. OursDeleted(p) \/ remote[p].by = "other" \/ remote[p].sha # None
  BY <1>1, OpenFacts
<1>5. SavedIfOurs(p) => SavedIfOurs(p)'
  BY <1>2, <1>3, <1>4 DEF SavedIfOurs
<1> QED
  BY <1>1, <1>2, <1>5 DEF FileInv, FlushReads, FlushWorks

LEMMA EndKeepsSaving ==
  ASSUME SavedInv, [Next]_vars, life \in Open, pc \notin Comparing, EndPass,
         UNCHANGED <<disk, refused, fscan, todo, up>>,
         UNCHANGED <<remote, baseline, sent, folder>> \/ (pc \in Filling /\ \A p \in Paths : remote'[p].by = "other")
  PROVE  FillingAlone' /\ \A p \in InUse : FileInv(p)'
<1>t. /\ setup' = setup /\ SyncInv' /\ SyncInv /\ InUse \subseteq Paths
      /\ pc' = "idle" /\ ((life' = life /\ fpc' = fpc) \/ (life = "finish" /\ life' = "flush" /\ fpc' = "scan"))
      /\ life = "finish" => fpc = "off"
  BY SetupStays, StepInv, Shapes, OpenFacts DEF SavedInv, EndPass
<1>1. FillingAlone'
  BY <1>t DEF SavedInv, SavingInv, FillingAlone, Filling, Before, Late
<1>2. ASSUME NEW p \in InUse
      PROVE  FileInv(p)'
  <2>0. FileInv(p) /\ p \in Paths
    BY <1>t DEF SavedInv, SavingInv
  <2>1. faults < setup.faults => faults' < setup'.faults
    BY <1>t, FaultsCount
  <2>2. (remote'[p] = remote[p] /\ baseline'[p] = baseline[p] /\ sent'[p] = sent[p]) \/ remote'[p].by = "other"
    BY <2>0
  <2>3. DeletedIsOffRecord(p)'
    BY <1>t, <2>0, <2>1, <2>2 DEF FileInv, DeletedIsOffRecord, OursDeleted, Comparing
  <2>4. FilledByOthers(p)' /\ DeletedBefore(p)'
    BY <1>t DEF FilledByOthers, DeletedBefore, Comparing
  <2>5. SyncSees(p)'
    <3>1. up'["sync"][p].st # "sent"
      BY <1>t, <2>0, Parts DEF SyncInv, OneUpload
    <3> QED
      BY <1>t, <3>1 DEF SyncSees, Comparing, Filling
  <2>6. LateRecords(p)'
    BY <1>t, <2>0, <2>2 DEF FileInv, LateRecords, Ours, OnRecord, Late, Comparing
  <2>7. CASE life' = life /\ fpc' = fpc /\ pc \notin Filling
    <3>1. ~NotPulled(p)'
      BY <1>t DEF NotPulled, Before, Comparing
    <3>2. remote' = remote /\ baseline' = baseline
      BY <2>7
    <3>3. FlushReads(p)' /\ FlushWorks(p)'
      BY <2>7, <3>1, <3>2, FlushPartStays
    <3> QED
      BY <2>3, <2>4, <2>5, <2>6, <3>3 DEF FileInv
  <2>8. CASE ~(life' = life /\ fpc' = fpc /\ pc \notin Filling)
    <3>1. ~(life' = "flush" /\ fpc' \in {"list", "upload"})
      BY <1>t, <2>8 DEF SavedInv, SavingInv, FillingAlone, Late
    <3> QED
      BY <2>3, <2>4, <2>5, <2>6, <3>1 DEF FileInv, FlushReads, FlushWorks
  <2> QED
    BY <2>7, <2>8
<1> QED
  BY <1>1, <1>2, <1>t

\* The session's last pass, and its flush, begin from records that account for what it wrote.
LEMMA BeginKeepsSaving ==
  ASSUME SavedInv, [Next]_vars, SyncIfDue \/ Finish \/ RunFails
  PROVE  FillingAlone' /\ \A p \in InUse : FileInv(p)'
<1>t. /\ life = "running" /\ pc = "idle" /\ life \in Open /\ fpc = "off" /\ setup' = setup /\ SyncInv' /\ InUse \subseteq Paths
      /\ UNCHANGED <<disk, folder, remote, baseline, sent, refused, fscan, at, up, todo>>
      /\ pc' \in {"idle", "scan"} /\ fpc' \in {"off", "scan"}
  BY SetupStays, StepInv, Shapes, OpenFacts DEF SavedInv, SyncIfDue, Finish, RunFails, Open, store, pass, flush
<1>1. FillingAlone'
  BY <1>t DEF FillingAlone
<1>2. ASSUME NEW p \in InUse
      PROVE  FileInv(p)'
  <2>0. FileInv(p) /\ p \in Paths
    BY <1>t DEF SavedInv, SavingInv
  <2>1. faults < setup.faults => faults' < setup'.faults
    BY <1>t, FaultsCount
  <2>2. DeletedIsOffRecord(p)' /\ FilledByOthers(p)' /\ DeletedBefore(p)'
    BY <1>t, <2>0, <2>1 DEF FileInv, DeletedIsOffRecord, FilledByOthers, DeletedBefore, OursDeleted, Comparing
  <2>3. SyncSees(p)'
    <3>1. up'["sync"][p].st # "sent"
      BY <1>t, <2>0, Parts DEF SyncInv, OneUpload
    <3> QED
      BY <1>t, <3>1 DEF SyncSees, Comparing, Filling
  <2>4. LateRecords(p)'
    <3>1. Ours(p) => remote[p].sha \in {baseline[p], sent[p]}
      BY <1>t DEF SavedInv, BooksInv, OursAreOnRecord, Accounted
    <3> QED
      BY <1>t, <3>1 DEF LateRecords, Ours, OnRecord, Comparing
  <2>5. FlushReads(p)' /\ FlushWorks(p)'
    BY <1>t DEF FlushReads, FlushWorks
  <2> QED
    BY <2>2, <2>3, <2>4, <2>5 DEF FileInv
<1> QED
  BY <1>1, <1>2, <1>t DEF InUse

LEMMA CutOffKeepsSaving ==
  ASSUME SavedInv, [Next]_vars, FinishCutOff
  PROVE  FillingAlone' /\ \A p \in InUse : FileInv(p)'
<1>t. /\ life = "finish" /\ life' = "flush" /\ life \in Late /\ life \in Open /\ fpc = "off" /\ fpc' = "scan"
      /\ setup' = setup /\ InUse' = InUse
      /\ UNCHANGED <<disk, folder, remote, baseline, sent, refused, fscan, up, todo, pass>>
  BY SetupStays, OpenFacts DEF FinishCutOff, Open, Late, store, InUse
<1>1. FillingAlone'
  BY <1>t DEF FillingAlone
<1>2. ASSUME NEW p \in InUse
      PROVE  FileInv(p)'
  <2>0. FileInv(p) /\ Rejected' = Rejected
    BY <1>t DEF SavedInv, SavingInv, Rejected
  <2>1. faults < setup.faults => faults' < setup'.faults
    BY <1>t, FaultsCount
  <2>2. DeletedIsOffRecord(p)' /\ FilledByOthers(p)'
    BY <1>t, <2>0, <2>1 DEF FileInv, DeletedIsOffRecord, FilledByOthers, OursDeleted, pass
  <2>3. SyncSees(p)' /\ LateRecords(p)' /\ DeletedBefore(p)'
    BY <1>t, <2>0 DEF FileInv, SyncSees, LateRecords, DeletedBefore, OursDeleted, Ours, OnRecord, Refused, pass
  <2>5. FlushReads(p)' /\ FlushWorks(p)'
    BY <1>t DEF FlushReads, FlushWorks
  <2> QED
    BY <2>2, <2>3, <2>5 DEF FileInv
<1> QED
  BY <1>1, <1>2, <1>t

LEMMA ScanKeepsSaving ==
  ASSUME SavedInv, [Next]_vars, life \in Open, Scan
  PROVE  FillingAlone' /\ \A p \in InUse : FileInv(p)'
<1>t. /\ pc = "scan" /\ pc \notin Comparing /\ setup' = setup /\ SyncInv' /\ SyncInv /\ InUse \subseteq Paths
      /\ disk \in Files /\ InUse' = InUse
      /\ UNCHANGED <<disk, folder, remote, baseline, sent, refused, fscan, up, todo>>
  BY SetupStays, StepInv, Shapes DEF SavedInv, Scan, Comparing, store, InUse
<1>1. CASE EndPass
  BY <1>t, <1>1, EndKeepsSaving
<1>2. CASE pc' \in {"list", "open"} /\ UNCHANGED <<life, fpc>> /\ (pc' = "list" => scan' = disk)
           /\ (pc' = "open" => Present(disk) = {})
  <2>1. pc' = "open" => \A p \in Paths : disk[p] = None
    BY <1>2 DEF Present
  <2>2. FillingAlone'
    BY <1>t, <1>2, <2>1 DEF SavedInv, SavingInv, FillingAlone, Filling, Before
  <2>3. ASSUME NEW p \in InUse
        PROVE  FileInv(p)'
    <3>0. FileInv(p) /\ p \in Paths
      BY <1>t DEF SavedInv, SavingInv
    <3>1. faults < setup.faults => faults' < setup'.faults
      BY <1>t, FaultsCount
    <3>2. DeletedIsOffRecord(p)' /\ FilledByOthers(p)' /\ DeletedBefore(p)' /\ LateRecords(p)'
      BY <1>t, <1>2, <3>0, <3>1 DEF FileInv, DeletedIsOffRecord, FilledByOthers, DeletedBefore, OursDeleted, Comparing,
         LateRecords, Ours, OnRecord
    <3>3. SyncSees(p)'
      <4>1. up'["sync"][p].st # "sent"
        BY <1>t, <1>2, <3>0, Parts DEF SyncInv, OneUpload
      <4> QED
        BY <1>t, <1>2, <2>1, <3>0, <4>1 DEF SyncSees, Comparing, Filling
    <3>4. FlushReads(p)' /\ FlushWorks(p)'
      <4>1. NotPulled(p)' => NotPulled(p)
        BY <1>t DEF NotPulled, Before
      <4>2. baseline' = baseline
        BY <1>t
      <4> QED
        BY <1>t, <1>2, <4>1, <4>2, FlushPartStays
    <3> QED
      BY <3>2, <3>3, <3>4 DEF FileInv
  <2> QED
    BY <1>t, <2>2, <2>3
<1> QED
  BY <1>1, <1>2 DEF Scan

LEMMA ListKeepsSaving ==
  ASSUME SavedInv, [Next]_vars, life \in Open, List
  PROVE  FillingAlone' /\ \A p \in InUse : FileInv(p)'
<1>t. /\ pc = "list" /\ setup' = setup /\ SyncInv' /\ SyncInv /\ InUse \subseteq Paths /\ Paths \subseteq Nat
      /\ InUse' = InUse /\ at' = 1 /\ pc' \in {"open", "path"} /\ listed' = remote
      /\ (\A p \in Paths : p >= 1 /\ p \in Nat) /\ (\A p \in Paths : baseline'[p] = SettleSent[p] /\ sent'[p] = None)
      /\ (\A p \in Paths : SettleSent[p] = IF sent[p] # None /\ remote[p].sha = sent[p] THEN sent[p] ELSE baseline[p])
      /\ UNCHANGED <<disk, folder, remote, refused, fscan, up, todo, life, fpc, scan, pulls, next>>
      /\ setup \in Setups
  <2>1. SyncInv /\ BooksInv /\ setup \in Setups
    BY Parts DEF SavedInv, SyncInv, RestTyped
  <2>2. at = 1
    BY <2>1 DEF List, BooksInv, Progress, Comparing
  <2>3. \A p \in Paths : p >= 1 /\ p \in Nat
    BY <2>1, NamesInUse DEF Paths
  <2> QED
    BY <2>1, <2>2, <2>3, SetupStays, StepInv, Shapes, Constants DEF List, InUse, flush, SettleSent
<1>o. pc' = "open" => \A p \in Paths : scan[p] = None
  BY DEF List, Present
<1>1. FillingAlone'
  <2>1. CASE pc' = "open" /\ life \in Late
    <3>1. \A p \in InUse : disk[p] = scan[p]
      BY <1>t, <2>1 DEF SavedInv, SavingInv, FileInv, SyncSees
    <3>2. fpc \notin {"list", "upload"}
      BY <1>t, <1>o, <2>1, <3>1 DEF SavedInv, SavingInv, FillingAlone, Before
    <3> QED
      BY <1>t, <3>2 DEF FillingAlone
  <2> QED
    BY <1>t, <2>1 DEF SavedInv, SavingInv, FillingAlone, Filling, Before
<1>2. ASSUME NEW p \in InUse
      PROVE  FileInv(p)'
  <2>0. FileInv(p) /\ p \in Paths
    BY <1>t DEF SavedInv, SavingInv
  <2>1. faults < setup.faults => faults' < setup'.faults
    BY <1>t, FaultsCount
  <2>2. ~(p < at')
    BY <1>t, <2>0
  <2>3. OursDeleted(p) => baseline'[p] = baseline[p]
    BY <1>t, <2>0 DEF OursDeleted
  <2>4. OursDeleted(p)' = OursDeleted(p) /\ Ours(p)' = Ours(p)
    BY <1>t DEF OursDeleted, Ours
  <2>5. DeletedIsOffRecord(p)' /\ FilledByOthers(p)' /\ DeletedBefore(p)'
    <3>1. OursDeleted(p) => listed'[p].sha = None
      BY <1>t DEF OursDeleted
    <3> QED
      BY <1>t, <2>0, <2>1, <2>2, <2>3, <2>4, <3>1 DEF FileInv, DeletedIsOffRecord, FilledByOthers, DeletedBefore, Comparing
  <2>6. SyncSees(p)'
    <3>1. up'["sync"][p].st # "sent"
      BY <1>t, <2>0, Parts DEF SyncInv, OneUpload
    <3>2. life \in Late => scan[p] = disk[p]
      BY <1>t, <2>0 DEF FileInv, SyncSees
    <3> QED
      BY <1>t, <1>o, <2>0, <3>1, <3>2 DEF SyncSees, Comparing, Filling
  <2>7. LateRecords(p)'
    <3>1. life \in Late /\ fpc # "upload" /\ Ours(p) => OnRecord(p, baseline[p])
      BY <2>0 DEF FileInv, LateRecords
    <3>2. remote[p].sha # None /\ OnRecord(p, baseline[p]) => remote[p].sha = SettleSent[p] \/ disk[p] \in {None, remote[p].sha}
      BY <1>t, <2>0, Settling DEF OnRecord
    <3> QED
      BY <1>t, <2>0, <2>2, <2>4, <3>1, <3>2 DEF LateRecords, OnRecord, Ours
  <2>8. FlushReads(p)' /\ FlushWorks(p)'
    <3>1. NotPulled(p)' => NotPulled(p)
      BY <1>t DEF NotPulled, Before
    <3> QED
      BY <1>t, <2>3, <3>1, FlushPartStays
  <2> QED
    BY <2>5, <2>6, <2>7, <2>8 DEF FileInv
<1> QED
  BY <1>1, <1>2, <1>t

LEMMA PathsDoneKeepsSaving ==
  ASSUME SavedInv, [Next]_vars, life \in Open, PathsDone
  PROVE  FillingAlone' /\ \A p \in InUse : FileInv(p)'
<1>t. /\ pc = "path" /\ pc' = "pull" /\ setup' = setup /\ SyncInv' /\ SyncInv /\ InUse \subseteq Paths
      /\ InUse' = InUse /\ baseline' = next
      /\ UNCHANGED <<disk, folder, remote, sent, refused, fscan, up, todo, life, fpc, scan, pulls, next, at>>
  BY SetupStays, StepInv, Shapes DEF SavedInv, PathsDone, InUse, flush
<1>p. \A p \in InUse : p < at
  <2>1. at \in 1..NPaths + 1 /\ setup \in Setups /\ at \notin InUse
    BY <1>t, Parts DEF SyncInv, PassTyped, RestTyped, PathsDone
  <2>2. setup.files \in Nat /\ NPaths \in Nat
    BY <2>1, NamesInUse, MemoryAssumption DEF Setups0, Paths
  <2> QED
    BY <2>1, <2>2 DEF InUse
<1>1. FillingAlone'
  BY <1>t DEF SavedInv, SavingInv, FillingAlone, Filling, Before
<1>2. ASSUME NEW p \in InUse
      PROVE  FileInv(p)'
  <2>0. FileInv(p) /\ p \in Paths /\ p < at
    BY <1>t, <1>p DEF SavedInv, SavingInv
  <2>1. faults < setup.faults => faults' < setup'.faults
    BY <1>t, FaultsCount
  <2>2. DeletedIsOffRecord(p)' /\ FilledByOthers(p)' /\ DeletedBefore(p)' /\ LateRecords(p)'
    BY <1>t, <2>0, <2>1 DEF FileInv, DeletedIsOffRecord, FilledByOthers, DeletedBefore, OursDeleted, Comparing,
       LateRecords, Ours, OnRecord
  <2>3. SyncSees(p)'
    <3>1. up'["sync"][p].st # "sent"
      BY <1>t, <2>0, Parts DEF SyncInv, OneUpload
    <3> QED
      BY <1>t, <3>1 DEF SyncSees, Comparing, Filling
  <2>4. CASE life = "flush"
    <3>1. NotPulled(p)' => NotPulled(p)
      BY <1>t DEF NotPulled, Comparing
    <3>2. OursDeleted(p) /\ disk[p] # None /\ disk[p] = baseline[p] => baseline'[p] = disk[p] \/ Refused(p)
      BY <1>t, <2>0, <2>4 DEF FileInv, DeletedBefore, Late, Comparing
    <3> QED
      BY <1>t, <2>2, <2>3, <3>1, <3>2, FlushPartStays DEF FileInv
  <2> QED
    BY <1>t, <2>2, <2>3, <2>4 DEF FileInv, FlushReads, FlushWorks
<1> QED
  BY <1>1, <1>2, <1>t

LEMMA PullKeepsSaving ==
  ASSUME SavedInv, [Next]_vars, life \in Open, NEW q \in Paths, PullWrites(q) \/ PullSkips(q)
  PROVE  FillingAlone' /\ \A p \in InUse : FileInv(p)'
<1>t. /\ pc = "pull" /\ pc' = "pull" /\ setup' = setup /\ SyncInv' /\ SyncInv /\ InUse \subseteq Paths
      /\ InUse' = InUse /\ pulls' = pulls \ {q} /\ at \in Nat /\ at' = at /\ q \in pulls
      /\ UNCHANGED <<folder, remote, sent, refused, fscan, up, todo, life, fpc, scan, next, listed>>
  BY SetupStays, StepInv, Shapes DEF SavedInv, PullWrites, PullSkips, InUse, flush, store
<1>d. /\ \A p \in Paths \ {q} : disk'[p] = disk[p] /\ baseline'[p] = baseline[p]
      /\ \/ disk'[q] = disk[q] /\ baseline'[q] = baseline[q]
         \/ disk'[q] = remote[q].sha /\ baseline'[q] = remote[q].sha /\ remote[q].sha # None
  BY <1>t, Shapes DEF PullWrites, PullSkips, PullFinds, Files, store
<1>1. FillingAlone'
  BY <1>t DEF SavedInv, SavingInv, FillingAlone, Filling, Before
<1>2. ASSUME NEW p \in InUse
      PROVE  FileInv(p)'
  <2>0. FileInv(p) /\ p \in Paths
    BY <1>t DEF SavedInv, SavingInv
  <2>1. CASE disk'[p] = disk[p] /\ baseline'[p] = baseline[p]
    <3>1. SameFile(p) /\ SameStage(p)
      BY <1>t, <2>1 DEF SameFile, SameStage
    <3> QED
      BY <1>t, <3>1, FileStays
  <2>2. CASE p = q /\ disk'[p] = remote[p].sha /\ baseline'[p] = remote[p].sha /\ remote[p].sha # None
    <3>1. DeletedIsOffRecord(p)' /\ FilledByOthers(p)' /\ DeletedBefore(p)' /\ LateRecords(p)'
      BY <1>t, <2>2 DEF DeletedIsOffRecord, FilledByOthers, DeletedBefore, OursDeleted, Comparing, LateRecords, Ours, OnRecord
    <3>2. SyncSees(p)'
      <4>1. up'["sync"][p].st # "sent"
        BY <1>t, <2>0, Parts DEF SyncInv, OneUpload
      <4> QED
        BY <1>t, <4>1 DEF SyncSees, Comparing, Filling
    <3>3. OnServer(p)' /\ SavedIfOurs(p)'
      BY <1>t, <2>2 DEF OnServer, SavedIfOurs
    <3>4. NotPulled(p) /\ ~NotPulled(p)'
      BY <1>t, <2>2 DEF NotPulled, Before, Comparing
    <3>5. FlushReads(p)' /\ FlushWorks(p)'
      BY <1>t, <2>0, <3>3, <3>4 DEF FileInv, FlushReads, FlushWorks
    <3> QED
      BY <3>1, <3>2, <3>5 DEF FileInv
  <2> QED
    BY <1>d, <2>0, <2>1, <2>2
<1> QED
  BY <1>1, <1>2, <1>t

\* A folder is filled while no flush has work, with what others wrote.
LEMMA FillingKeepsSaving ==
  ASSUME SavedInv, [Next]_vars, life \in Open, UNCHANGED <<life, fpc>>, pc \in Filling, pc' \in {"full", "fill"},
         \A p \in InUse : /\ remote'[p].by = "other" /\ sent'[p] = None
                          /\ life \in Late => disk'[p] = None \/ (pc' = "fill" /\ disk'[p] = baseline'[p])
  PROVE  FillingAlone' /\ \A p \in InUse : FileInv(p)'
<1>t. SyncInv' /\ InUse \subseteq Paths
  BY StepInv, Shapes DEF SavedInv
<1>1. life = "flush" => fpc \notin {"list", "upload"}
  BY DEF SavedInv, SavingInv, FillingAlone, Late
<1>2. FillingAlone'
  BY DEF SavedInv, SavingInv, FillingAlone
<1>3. ASSUME NEW p \in InUse
      PROVE  FileInv(p)'
  <2>1. up'["sync"][p].st # "sent"
    BY <1>t, Parts DEF SyncInv, OneUpload
  <2>2. pc' \notin Comparing \cup {"list"}
    BY DEF Comparing
  <2>3. DeletedIsOffRecord(p)' /\ FilledByOthers(p)' /\ LateRecords(p)' /\ DeletedBefore(p)' /\ SyncSees(p)'
    BY <2>1, <2>2 DEF DeletedIsOffRecord, FilledByOthers, LateRecords, DeletedBefore, SyncSees, OursDeleted, Ours
  <2>4. FlushReads(p)' /\ FlushWorks(p)'
    BY <1>1 DEF FlushReads, FlushWorks
  <2> QED
    BY <2>3, <2>4 DEF FileInv
<1> QED
  BY <1>2, <1>3

LEMMA StampKeepsSaving ==
  ASSUME SavedInv, [Next]_vars, life \in Open, Stamp
  PROVE  FillingAlone' /\ \A p \in InUse : FileInv(p)'
<1>t. /\ pc = "open" /\ pc \in Filling /\ pc \notin Comparing /\ InUse \subseteq Paths
      /\ UNCHANGED <<refused, fscan, todo, up>> /\ \A p \in Paths : remote'[p].by = "other" /\ sent'[p] = None
  <2>1. remote \in [Paths -> Memory] /\ InUse \subseteq Paths /\ \A p \in Paths : NoFiles[p] = None
    BY Shapes, Constants DEF SavedInv
  <2>2. \A p \in Paths : [remote[p] EXCEPT !.by = "other"].by = "other"
    BY <2>1 DEF Memory
  <2> QED
    BY <2>1, <2>2 DEF Stamp, Filling, Comparing
<1>1. CASE pc' = "full" /\ UNCHANGED <<disk, life, fpc>>
  <2>1. \A p \in InUse : life \in Late => disk'[p] = None
    BY <1>t, <1>1 DEF SavedInv, SavingInv, FileInv, SyncSees
  <2> QED
    BY <1>t, <1>1, <2>1, FillingKeepsSaving
<1>2. CASE DownloadFails
  BY <1>2, Closed DEF DownloadFails, Open
<1>3. CASE PassFails
  BY <1>t, <1>3, EndKeepsSaving DEF PassFails
<1> QED
  BY <1>1, <1>2, <1>3 DEF Stamp

LEMMA FullListKeepsSaving ==
  ASSUME SavedInv, [Next]_vars, life \in Open, FullList
  PROVE  FillingAlone' /\ \A p \in InUse : FileInv(p)'
<1>t. /\ pc = "full" /\ pc \in Filling /\ pc \notin Comparing
      /\ UNCHANGED <<remote, baseline, sent, refused, fscan, todo, up>>
  BY DEF FullList, Filling, Comparing, store
<1>1. CASE pc' = "fill" /\ UNCHANGED <<disk, life, fpc>>
  <2>1. \A p \in InUse : /\ remote'[p].by = "other" /\ sent'[p] = None
                         /\ life \in Late => disk'[p] = None
    BY <1>t, <1>1 DEF SavedInv, SavingInv, FileInv, SyncSees, FilledByOthers
  <2> QED
    BY <1>t, <1>1, <2>1, FillingKeepsSaving
<1>2. CASE DownloadFails
  BY <1>2, Closed DEF DownloadFails, Open
<1>3. CASE PassFails /\ UNCHANGED folder
  BY <1>t, <1>3, EndKeepsSaving DEF PassFails
<1> QED
  BY <1>1, <1>2, <1>3 DEF FullList

LEMMA FillKeepsSaving ==
  ASSUME SavedInv, [Next]_vars, life \in Open, Fill
  PROVE  FillingAlone' /\ \A p \in InUse : FileInv(p)'
<1>t. /\ pc = "fill" /\ pc' = "fill" /\ pc \in Filling /\ InUse \subseteq Paths /\ disk \in Files /\ baseline \in Files
      /\ UNCHANGED <<remote, sent, life, fpc>>
  BY Shapes DEF SavedInv, Fill, Filling, flush
<1>1. \A p \in InUse : \/ disk'[p] = disk[p] /\ baseline'[p] = baseline[p]
                       \/ disk'[p] = baseline'[p]
  BY <1>t DEF Fill, Files
<1>2. \A p \in InUse : /\ remote'[p].by = "other" /\ sent'[p] = None
                       /\ life \in Late => disk'[p] = None \/ disk'[p] = baseline'[p]
  BY <1>t, <1>1 DEF SavedInv, SavingInv, FileInv, SyncSees, FilledByOthers
<1> QED
  BY <1>t, <1>2, FillingKeepsSaving

LEMMA FilledKeepsSaving ==
  ASSUME SavedInv, [Next]_vars, life \in Open, Filled
  PROVE  FillingAlone' /\ \A p \in InUse : FileInv(p)'
<1>t. /\ pc = "fill" /\ pc \notin Comparing /\ InUse \subseteq Paths
      /\ UNCHANGED <<disk, folder, remote, baseline, sent, refused, fscan, todo, up>>
  BY Shapes DEF SavedInv, Filled, Comparing, store
<1>1. CASE EndPass
  BY <1>t, <1>1, EndKeepsSaving
<1>2. CASE life' = "running" /\ pc' = "idle"
  <2>1. \A p \in InUse : remote[p].by = "other"
    BY <1>t DEF SavedInv, SavingInv, FileInv, FilledByOthers
  <2>2. \A p \in InUse : FileInv(p)'
    BY <1>t, <1>2, <2>1 DEF FileInv, DeletedIsOffRecord, FilledByOthers, LateRecords, DeletedBefore, SyncSees, OursDeleted,
       FlushReads, FlushWorks, Late
  <2> QED
    BY <1>2, <2>2 DEF FillingAlone, Late
<1> QED
  BY <1>1, <1>2 DEF Filled

LEMMA SyncKeepsSaving ==
  ASSUME SavedInv, [Next]_vars, life \in Open, SyncStep
  PROVE  FillingAlone' /\ \A p \in InUse : FileInv(p)'
<1>1. CASE ListFails \/ PullsDone
  <2>1. /\ pc \notin Comparing /\ EndPass
        /\ UNCHANGED <<disk, folder, remote, baseline, sent, refused, fscan, todo, up>>
    BY <1>1 DEF ListFails, PullsDone, Comparing, store
  <2> QED
    BY <2>1, EndKeepsSaving
<1>2. CASE RefuseFolder
  BY <1>2, Closed DEF RefuseFolder, Open
<1> QED
  BY <1>1, <1>2, ScanKeepsSaving, ListKeepsSaving, PathsDoneKeepsSaving, PullKeepsSaving, StampKeepsSaving,
     FullListKeepsSaving, FillKeepsSaving, FilledKeepsSaving, PathKeepsSaving DEF SyncStep

-----------------------------------------------------------------------------
(* The others, and the flush.                                               *)

LEMMA OutsidersKeepSaving ==
  ASSUME SavedInv, [Next]_vars, life \in Open, Agent \/ \E q \in InUse : OtherClient(q) \/ Age(q)
  PROVE  FillingAlone' /\ \A p \in InUse : FileInv(p)'
<1>t. /\ setup' = setup /\ SyncInv' /\ SyncInv /\ InUse \subseteq Paths /\ InUse' = InUse /\ at \in Nat
      /\ remote \in [Paths -> Memory]
  BY SetupStays, StepInv, Shapes DEF SavedInv, InUse
<1>1. CASE Agent
  <2>1. /\ life = "running" /\ life' = "running"
        /\ UNCHANGED <<remote, baseline, sent, next, listed, pc, at, faults>>
    BY <1>1 DEF Agent, WipeFiles, WipeFolder, SwapFolder, Edit, Remove, AgentActs, AgentLeaves, store, pass
  <2>2. ASSUME NEW p \in InUse
        PROVE  FileInv(p)'
    BY <1>t, <2>1 DEF SavedInv, SavingInv, FileInv, DeletedIsOffRecord, FilledByOthers, LateRecords, DeletedBefore,
       SyncSees, OursDeleted, FlushReads, FlushWorks, Late, Open
  <2> QED
    BY <2>1, <2>2 DEF FillingAlone, Late
<1>2. CASE \E q \in InUse : Age(q)
  <2>1. /\ UNCHANGED <<disk, folder, remote, baseline, sent, refused, pc, at, scan, listed, next, pulls, fpc, fscan, todo,
                       life, up>>
    BY <1>2 DEF Age, pass, flush
  <2>2. FillingAlone'
    BY <1>t, <2>1 DEF SavedInv, SavingInv, FillingAlone
  <2>3. \A p \in InUse : SameFile(p) /\ SameStage(p)
    BY <2>1 DEF SameFile, SameStage
  <2> QED
    BY <1>t, <2>1, <2>2, <2>3, FileStays
<1>3. ASSUME NEW q \in InUse, OtherClient(q)
      PROVE  FillingAlone' /\ \A p \in InUse : FileInv(p)'
  <2>1. /\ UNCHANGED <<disk, folder, baseline, sent, refused, pc, at, scan, listed, next, pulls, fpc, fscan, todo, life, up>>
        /\ \A p \in Paths \ {q} : remote'[p] = remote[p]
        /\ remote'[q].by = "other"
    BY <1>3, <1>t DEF OtherClient, store, pass, flush
  <2>2. FillingAlone'
    BY <1>t, <2>1 DEF SavedInv, SavingInv, FillingAlone
  <2>3. ASSUME NEW p \in InUse, p # q
        PROVE  FileInv(p)'
    <3>1. SameFile(p) /\ SameStage(p)
      BY <1>t, <2>1, <2>3 DEF SameFile, SameStage
    <3> QED
      BY <1>t, <2>1, <3>1, FileStays
  <2>4. FileInv(q)'
    <3>0. FileInv(q)
      BY DEF SavedInv, SavingInv
    <3>1. DeletedIsOffRecord(q)' /\ FilledByOthers(q)' /\ LateRecords(q)' /\ DeletedBefore(q)' /\ SyncSees(q)'
      BY <2>1, <3>0 DEF FileInv, DeletedIsOffRecord, FilledByOthers, LateRecords, DeletedBefore, SyncSees, OursDeleted, Ours
    <3>2. OnServer(q)' /\ SavedIfOurs(q)' /\ (NotPulled(q)' => NotPulled(q))
      BY <2>1 DEF OnServer, SavedIfOurs, NotPulled
    <3>3. FlushReads(q)' /\ FlushWorks(q)'
      BY <2>1, <3>0, <3>2 DEF FileInv, FlushReads, FlushWorks
    <3> QED
      BY <3>1, <3>3 DEF FileInv
  <2> QED
    BY <1>t, <2>2, <2>3, <2>4
<1> QED
  BY <1>1, <1>2, <1>3

\* The pass's part of what holds of a file, in a step of the flush.
LEMMA PassPartStays ==
  ASSUME SavedInv, [Next]_vars, life \in Open, NEW p \in InUse,
         UNCHANGED <<disk, life, pc, at, scan, listed, next>>, up'["sync"][p] = up["sync"][p],
         pc \in Filling => remote'[p] = remote[p] /\ sent'[p] = sent[p] /\ baseline'[p] = baseline[p],
         OursDeleted(p)' => remote'[p] = remote[p] /\ baseline'[p] = baseline[p],
         pc \in Comparing /\ disk[p] # None /\ Refused(p) => Refused(p)',
         \/ fpc' = "upload"
         \/ fpc # "upload" /\ remote'[p] = remote[p] /\ sent'[p] = sent[p] /\ baseline'[p] = baseline[p]
  PROVE  DeletedIsOffRecord(p)' /\ FilledByOthers(p)' /\ LateRecords(p)' /\ DeletedBefore(p)' /\ SyncSees(p)'
<1>0. FileInv(p)
  BY DEF SavedInv, SavingInv
<1>1. faults < setup.faults => faults' < setup'.faults
  BY SetupStays, FaultsCount
<1>2. OursDeleted(p)' => OursDeleted(p)
  BY DEF OursDeleted
<1>3. DeletedIsOffRecord(p)' /\ FilledByOthers(p)' /\ SyncSees(p)'
  BY <1>0, <1>1, <1>2 DEF FileInv, DeletedIsOffRecord, FilledByOthers, SyncSees, Filling
<1>4. LateRecords(p)'
  BY <1>0 DEF FileInv, LateRecords, Ours, OnRecord
<1>5. DeletedBefore(p)'
  BY <1>0, <1>2 DEF FileInv, DeletedBefore
<1> QED
  BY <1>3, <1>4, <1>5

\* A file that a late flush finds clean is saved.
LEMMA CleanIsSaved ==
  ASSUME SavedInv, life \in Late, fpc # "upload", NEW p \in InUse, p \notin Dirty(disk)
  PROVE  \/ faults < setup.faults /\ remote[p].sha = None /\ disk[p] = baseline[p]
         \/ disk[p] \in {None, remote[p].sha} \/ Refused(p) \/ remote[p].by = "other"
<1>0. FileInv(p) /\ EntryLimits(p) /\ p \in Paths /\ life \in Open
  BY Shapes DEF SavedInv, SavingInv, Limits, Late, Open
<1>1. CASE disk[p] # None /\ refused[p] = disk[p]
  BY <1>0, <1>1 DEF EntryLimits, Refused
<1>2. CASE disk[p] # None /\ disk[p] = baseline[p] /\ sent[p] = None /\ remote[p].by # "other"
  <2>1. CASE Ours(p)
    BY <1>0, <1>2, <2>1 DEF FileInv, LateRecords, OnRecord, Ours
  <2>2. CASE OursDeleted(p)
    BY <1>0, <1>2, <2>2 DEF FileInv, DeletedIsOffRecord, OursDeleted
  <2> QED
    BY <1>0, <1>2, <2>1, <2>2, OpenFacts
<1> QED
  BY <1>0, <1>1, <1>2 DEF Dirty, Present

LEMMA FlushScanKeepsSaving ==
  ASSUME SavedInv, [Next]_vars, life \in Open, FlushScan
  PROVE  FillingAlone' /\ \A p \in InUse : FileInv(p)'
<1>t. /\ setup' = setup /\ Rejected' = Rejected /\ SyncInv /\ InUse \subseteq Paths /\ InUse' = InUse /\ fpc = "scan"
      /\ life = "flush" /\ life \in Late /\ \A p \in Paths : up["flush"][p].st # "sent"
      /\ UNCHANGED <<disk, folder, remote, baseline, sent, refused, pc, at, scan, listed, next, pulls, up, faults>>
  BY SetupStays, Shapes, OpenFacts DEF SavedInv, InUse, FlushScan, Late, store, pass, Rejected, budgets
<1>1. CASE FlushEnds
  BY <1>t, <1>1, Closed DEF FlushEnds, Open
<1>2. CASE ~FlushEnds
  <2>1. fscan' = disk /\ todo' = Dirty(disk) /\ fpc' = "list" /\ UNCHANGED life /\ folder = "ours" /\ Dirty(disk) # {}
    BY <1>2 DEF FlushScan
  <2>2. PICK d \in Paths : d \in Dirty(disk)
    BY <2>1 DEF Dirty, Present
  <2>3. disk[d] # None /\ d \in InUse /\ (disk[d] # baseline[d] \/ sent[d] # None)
    BY <2>2 DEF Dirty, Present, SavedInv, SavingInv, Limits, EntryLimits
  <2>4. pc \notin Filling
    <3>1. CASE pc \in {"open", "full", "fill"}
      <4>1. disk[d] = baseline[d] /\ pc = "fill"
        BY <1>t, <2>3, <3>1 DEF SavedInv, SavingInv, FileInv, SyncSees, Filling
      <4>2. sent[d] = None
        BY <2>3, <4>1 DEF SavedInv, SavingInv, FileInv, FilledByOthers
      <4> QED
        BY <2>3, <4>1, <4>2
    <3> QED
      BY <3>1 DEF Filling
  <2>5. FillingAlone'
    BY <1>t, <2>1, <2>3, <2>4 DEF FillingAlone
  <2>6. ASSUME NEW p \in InUse
        PROVE  FileInv(p)'
    <3>1. DeletedIsOffRecord(p)' /\ FilledByOthers(p)' /\ LateRecords(p)' /\ DeletedBefore(p)' /\ SyncSees(p)'
      <4>1. Refused(p)' = Refused(p)
        BY <1>t DEF Refused
      <4> QED
        BY <1>t, <2>1, <4>1, PassPartStays
    <3>2. FlushReads(p)'
      BY <1>t, <2>1 DEF FlushReads
    <3>3. FlushWorks(p)'
      <4>1. CASE p \in Dirty(disk)
        BY <1>t, <2>1, <4>1 DEF FlushWorks
      <4>2. CASE p \notin Dirty(disk)
        <5>1. SavedIfOurs(p)'
          BY <1>t, <4>2, CleanIsSaved DEF SavedIfOurs, Refused
        <5> QED
          BY <2>1, <5>1 DEF FlushWorks
      <4> QED
        BY <4>1, <4>2
    <3> QED
      BY <3>1, <3>2, <3>3 DEF FileInv
  <2> QED
    BY <1>t, <2>5, <2>6
<1> QED
  BY <1>1, <1>2

\* What a flush lists settles its records, and what is left to do starts from a memory that is there.
LEMMA FlushListKeepsSaving ==
  ASSUME SavedInv, [Next]_vars, life \in Open, FlushList
  PROVE  FillingAlone' /\ \A p \in InUse : FileInv(p)'
<1>t. /\ setup' = setup /\ Rejected' = Rejected /\ SyncInv /\ BooksInv /\ InUse \subseteq Paths /\ InUse' = InUse
      /\ fpc = "list" /\ life = "flush" /\ life \in Late /\ "flush" \in Owners /\ "sync" \in Owners
      /\ UpTyped /\ remote \in [Paths -> Memory] /\ NoUpload.st = "none" /\ NoUpload \in Upload
      /\ NoMemory.id = 0 /\ NoMemory.sha = None
      /\ UNCHANGED <<disk, folder, remote, refused, pc, at, scan, listed, next, pulls>>
  BY SetupStays, Shapes, OpenFacts, Constants DEF SavedInv, InUse, FlushList, Late, pass, Rejected
<1>f. pc \notin Filling
  BY <1>t DEF SavedInv, SavingInv, FillingAlone
<1>1. CASE FlushEnds
  BY <1>t, <1>1, Closed DEF FlushEnds, Open
<1>2. CASE ~FlushEnds
  <2> DEFINE item(p) == IF remote[p].sha = None THEN NoMemory ELSE remote[p]
             goes(p) == p \in todo /\ fscan[p] # baseline'[p] /\ remote[p].sha \in {None, baseline'[p]}
             f == [p \in Paths |-> IF goes(p) THEN [NoUpload EXCEPT !.st = "todo", !.item = item(p)] ELSE NoUpload]
  <2>1. /\ UNCHANGED <<fscan, life>> /\ fpc' = "upload" /\ sent' = NoFiles
        /\ baseline' = [p \in Paths |-> IF p \in todo /\ remote[p].sha = fscan[p] THEN fscan[p] ELSE SettleSent[p]]
        /\ up' = [up EXCEPT !["flush"] = f]
    BY <1>2 DEF FlushList
  <2>2. \A p \in Paths : /\ f[p].st \in {"none", "todo"}
                         /\ goes(p) => f[p].st = "todo" /\ f[p].item = item(p)
    BY <1>t DEF Upload, NoUpload
  <2> HIDE DEF f
  <2>3. \A p \in Paths : up'["flush"][p] = f[p] /\ up'["sync"][p] = up["sync"][p]
    BY <1>t, <2>1 DEF UpTyped, Owners
  <2>4. FillingAlone'
    BY <1>t, <1>f, <2>1 DEF SavedInv, SavingInv, FillingAlone, Late
  <2>5. ASSUME NEW p \in InUse
        PROVE  FileInv(p)'
    <3>0. FileInv(p) /\ p \in Paths /\ (p \in todo => fscan[p] # None)
      BY <1>t DEF SavedInv, SavingInv, BooksInv, FlushIsLate
    <3>1. baseline'[p] = IF p \in todo /\ remote[p].sha = fscan[p] THEN fscan[p] ELSE SettleSent[p]
      BY <2>1, <3>0
    <3>2. remote[p].sha = None => baseline'[p] = baseline[p]
      <4>1. remote[p].sha = None => SettleSent[p] = baseline[p]
        BY <3>0 DEF SettleSent
      <4> QED
        BY <3>0, <3>1, <4>1
    <3>3. DeletedIsOffRecord(p)' /\ FilledByOthers(p)' /\ LateRecords(p)' /\ DeletedBefore(p)' /\ SyncSees(p)'
      <4>1. Refused(p)' = Refused(p)
        BY <1>t DEF Refused
      <4>2. OursDeleted(p)' => baseline'[p] = baseline[p] /\ remote'[p] = remote[p]
        BY <1>t, <3>2 DEF OursDeleted
      <4> QED
        BY <1>t, <1>f, <2>1, <2>3, <3>0, <4>1, <4>2, PassPartStays
    <3>4. FlushReads(p)'
      BY <1>t, <2>1, <2>2, <2>3, <3>0 DEF FileInv, FlushReads, OnServer, NotPulled
    <3>5. FlushWorks(p)'
      <4>1. SavedIfOurs(p) \/ (p \in todo /\ disk[p] = fscan[p])
        BY <1>t, <3>0 DEF FileInv, FlushWorks
      <4>2. faults < setup.faults => faults' < setup'.faults
        BY <1>t, FaultsCount
      <4>3. SavedIfOurs(p) => SavedIfOurs(p)'
        BY <1>t, <2>1, <3>2, <4>2 DEF SavedIfOurs, Refused
      <4>4. ASSUME p \in todo, disk[p] = fscan[p], remote[p].sha = None, ~SavedIfOurs(p)
            PROVE  Underway(p)'
        <5>1. OursDeleted(p) /\ fscan[p] # None
          BY <1>t, <3>0, <4>4, OpenFacts DEF SavedIfOurs
        <5>2. fscan[p] # baseline[p]
          BY <1>t, <3>0, <4>4, <5>1 DEF FileInv, DeletedIsOffRecord, SavedIfOurs
        <5>3. up'["flush"][p].st = "todo" /\ up'["flush"][p].item = NoMemory
          BY <2>2, <2>3, <3>0, <3>2, <4>4, <5>2
        <5> QED
          BY <1>t, <2>1, <4>4, <5>3 DEF Underway, ItemStands
      <4>5. ASSUME p \in todo, disk[p] = fscan[p], remote[p].sha # None, ~SavedIfOurs(p)
            PROVE  Underway(p)'
        <5>1. Ours(p) /\ remote[p].sha # disk[p] /\ disk[p] # None
          BY <1>t, <3>0, <4>5, OpenFacts DEF SavedIfOurs
        <5>2. remote[p].sha \in {baseline[p], sent[p]}
          BY <1>t, <3>0, <5>1 DEF FileInv, LateRecords, OnRecord
        <5>3. SettleSent[p] = remote[p].sha
          BY <1>t, <3>0, <4>5, <5>2, Settling
        <5>4. baseline'[p] = remote[p].sha
          BY <3>1, <4>5, <5>1, <5>3
        <5>5. up'["flush"][p].st = "todo" /\ up'["flush"][p].item = remote[p]
          BY <2>2, <2>3, <3>0, <4>5, <5>1, <5>4
        <5> QED
          BY <1>t, <2>1, <4>5, <5>5 DEF Underway, ItemStands
      <4> QED
        BY <2>1, <4>1, <4>3, <4>4, <4>5 DEF FlushWorks
    <3> QED
      BY <3>3, <3>4, <3>5 DEF FileInv
  <2> QED
    BY <1>t, <2>4, <2>5
<1> QED
  BY <1>1, <1>2

LEMMA FlushStartKeepsSaving ==
  ASSUME SavedInv, [Next]_vars, life \in Open, NEW q \in Paths, FlushStart(q)
  PROVE  FillingAlone' /\ \A p \in InUse : FileInv(p)'
<1>t. /\ setup' = setup /\ SyncInv /\ InUse \subseteq Paths /\ InUse' = InUse /\ at \in Nat
      /\ "flush" \in Owners /\ "sync" \in Owners
      /\ up["flush"][q].st = "todo" /\ fpc = "upload" /\ fpc \in {"list", "upload"} /\ Rejected' = Rejected
      /\ UNCHANGED <<disk, folder, remote, baseline, sent, refused, pc, at, scan, listed, next, pulls, life, fpc, fscan, todo,
                     faults>>
  BY SetupStays, Shapes, OpenFacts DEF SavedInv, InUse, FlushStart, store, pass, flush, Rejected, budgets
<1>l. life = "flush" /\ pc \notin Filling
  <2>1. life = "flush"
    BY <1>t, OpenFacts
  <2> QED
    BY <1>t, <2>1 DEF SavedInv, SavingInv, FillingAlone, Late
<1>u. /\ up'["flush"][q].st = "read" /\ up'["flush"][q].item = up["flush"][q].item
      /\ \A v \in Owners, p \in Paths : v # "flush" \/ p # q => up'[v][p] = up[v][p]
  <2> DEFINE u == [st |-> "read", item |-> up["flush"][q].item, local |-> fscan[q], data |-> None]
  <2>1. UploadIs("flush", q, u) /\ u.st = "read" /\ u.item = up["flush"][q].item
    BY DEF FlushStart, StartUpload, UploadIs
  <2> HIDE DEF u
  <2> QED
    BY <1>t, <2>1, UploadingUpdates
<1>1. FillingAlone'
  BY <1>t DEF SavedInv, SavingInv, FillingAlone
<1>2. ASSUME NEW p \in InUse, p # q
      PROVE  FileInv(p)'
  <2>1. SameFile(p) /\ SameStage(p)
    BY <1>t, <1>u, <1>2 DEF SameFile, SameStage
  <2> QED
    BY <1>t, <2>1, FileStays
<1>3. ASSUME q \in InUse
      PROVE  FileInv(q)'
  <2>0. FileInv(q)
    BY <1>3 DEF SavedInv, SavingInv
  <2>1. DeletedIsOffRecord(q)' /\ FilledByOthers(q)' /\ LateRecords(q)' /\ DeletedBefore(q)' /\ SyncSees(q)'
    <3>1. Refused(q)' = Refused(q)
      BY <1>t DEF Refused
    <3> QED
      BY <1>t, <1>u, <1>3, <3>1, PassPartStays
  <2>2. SavedIfOurs(q)' = SavedIfOurs(q) /\ OnServer(q)' = OnServer(q) /\ NotPulled(q)' = NotPulled(q)
    BY <1>t DEF SavedIfOurs, Refused, OnServer, NotPulled
  <2>3. Underway(q) => Underway(q)'
    BY <1>t, <1>u DEF Underway, ItemStands
  <2>4. FlushReads(q)' /\ FlushWorks(q)'
    BY <1>t, <1>u, <2>0, <2>2, <2>3 DEF FileInv, FlushReads, FlushWorks
  <2> QED
    BY <2>1, <2>4 DEF FileInv
<1> QED
  BY <1>t, <1>1, <1>2, <1>3

\* How an upload of the flush leaves a file: with nothing to read, on its way, arrived, refused,
\* overtaken (it starts anew when its memory is gone), or lost.
UploadLeaves(p) ==
  LET u == up["flush"][p]
      v == up'["flush"][p]
      same == remote'[p] = remote[p] /\ baseline'[p] = baseline[p]
  IN  \/ same /\ refused'[p] = refused[p] /\ disk[p] = None /\ v.st = "none"
      \/ same /\ refused'[p] = refused[p] /\ disk[p] # None /\ v.st = "sent" /\ v.data = disk[p] /\ v.item = u.item
      \/ u.st = "sent" /\ remote'[p].sha = u.data /\ v.st \in {"none", "lost"}
      \/ u.st = "sent" /\ same /\ u.data \in Rejected /\ v.st = "none"
      \/ u.st = "sent" /\ same /\ refused'[p] = refused[p] /\ v.st \in {"none", "read"} /\ u.data \notin Rejected
         /\ (NotFound(p, u.item) \/ ~Applies(p, u.item, u.data))
      \/ u.st = "sent" /\ same /\ refused'[p] = refused[p] /\ v.st = "lost"

LEMMA FlushUploadIs ==
  ASSUME SavedInv, NEW p \in Paths,
         UploadRead("flush", p) \/ UploadAnswered("flush", p) \/ UploadUnanswered("flush", p)
  PROVE  /\ UploadLeaves(p) /\ UNCHANGED <<listed, next, pulls>> /\ \A q \in Paths \ {p} : refused'[q] = refused[q]
<1>t. /\ SyncInv /\ "flush" \in Owners /\ NoUpload.st = "none" /\ UpTyped /\ refused \in Files
      /\ UNCHANGED <<listed, next, pulls>>
  BY Shapes, Constants, Parts DEF SavedInv, SyncInv, StoreTyped, UploadRead, UploadAnswered, UploadUnanswered, UploadEnds,
     UploadLost, flush
<1> DEFINE u == up["flush"][p]
<1>k. ASSUME NEW sha, UploadEnds("flush", p, sha)
      PROVE  up'["flush"][p].st = "none" /\ (sha = None => UNCHANGED baseline)
  <2>1. UploadIs("flush", p, NoUpload)
    BY <1>k DEF UploadEnds, UploadIs
  <2> QED
    BY <1>t, <1>k, <2>1, UploadingUpdates DEF UploadEnds
<1>r. ASSUME NEW c, refused' = [refused EXCEPT ![p] = c]
      PROVE  \A q \in Paths \ {p} : refused'[q] = refused[q]
  BY <1>t, <1>r DEF Files
<1>1. CASE UploadRead("flush", p)
  <2>1. UNCHANGED <<remote, refused>>
    BY <1>1 DEF UploadRead
  <2>2. CASE disk[p] = None
    BY <1>t, <1>k, <1>1, <2>1, <2>2 DEF UploadRead, UploadLeaves
  <2>3. CASE disk[p] # None
    <3>1. UNCHANGED baseline /\ up' = [up EXCEPT !["flush"][p].st = "sent", !["flush"][p].data = disk[p]]
      BY <1>1, <2>3 DEF UploadRead
    <3>2. up'["flush"][p].st = "sent" /\ up'["flush"][p].data = disk[p] /\ up'["flush"][p].item = u.item
      BY <1>t, <3>1 DEF UpTyped, Upload
    <3> QED
      BY <1>t, <2>1, <2>3, <3>1, <3>2 DEF UploadLeaves
  <2> QED
    BY <2>2, <2>3
<1>2. CASE UploadAnswered("flush", p)
  <2>1. CASE Uploaded(p, u.data) /\ refused' = [refused EXCEPT ![p] = None] /\ UploadEnds("flush", p, u.data)
    <3>1. remote'[p].sha = u.data /\ up'["flush"][p].st = "none" /\ u.st = "sent"
      BY <1>t, <1>k, <1>2, <2>1, UploadedIs DEF UploadAnswered
    <3> QED
      BY <1>t, <1>r, <2>1, <3>1 DEF UploadLeaves
  <2>2. CASE u.data \in Rejected /\ refused' = [refused EXCEPT ![p] = u.local] /\ UploadEnds("flush", p, None)
             /\ UNCHANGED <<remote, sent>>
    BY <1>t, <1>r, <1>k, <1>2, <2>2 DEF UploadLeaves, UploadAnswered
  <2>3. CASE u.data \notin Rejected /\ NotFound(p, u.item) /\ StartUpload("flush", p, u.local, NoMemory)
             /\ UNCHANGED <<remote, refused, baseline>>
    <3> DEFINE x == [st |-> "read", item |-> NoMemory, local |-> u.local, data |-> None]
    <3>1. UploadIs("flush", p, x) /\ x.st = "read"
      BY <2>3 DEF StartUpload, UploadIs
    <3> HIDE DEF x
    <3>2. up'["flush"][p].st = "read"
      BY <1>t, <3>1, UploadingUpdates
    <3> QED
      BY <1>t, <1>2, <2>3, <3>2 DEF UploadLeaves, UploadAnswered
  <2>4. CASE u.data \notin Rejected /\ ~Applies(p, u.item, u.data) /\ UploadEnds("flush", p, None)
             /\ UNCHANGED <<remote, refused, sent>>
    BY <1>t, <1>k, <1>2, <2>4 DEF UploadLeaves, UploadAnswered
  <2> QED
    BY <1>2, <2>1, <2>2, <2>3, <2>4 DEF UploadAnswered
<1>3. CASE UploadUnanswered("flush", p)
  <2>1. up'["flush"][p].st = "lost"
    <3> DEFINE x == [NoUpload EXCEPT !.st = "lost"]
    <3>1. UploadIs("flush", p, x) /\ x.st = "lost"
      BY <1>3 DEF UploadUnanswered, UploadLost, UploadIs, NoUpload
    <3> HIDE DEF x
    <3> QED
      BY <1>t, <3>1, UploadingUpdates
  <2>2. UNCHANGED <<refused, baseline>> /\ u.st = "sent" /\ (Uploaded(p, u.data) \/ UNCHANGED remote)
    BY <1>3 DEF UploadUnanswered, UploadLost
  <2>3. Uploaded(p, u.data) => remote'[p].sha = u.data
    BY <1>t, UploadedIs
  <2> QED
    BY <1>t, <2>1, <2>2, <2>3 DEF UploadLeaves
<1> QED
  BY <1>1, <1>2, <1>3

\* Only the flush ends itself.
LEMMA FlushMoves ==
  ASSUME SyncInv, [Next]_vars, fpc' = "done", fpc # "done"
  PROVE  (fpc = "scan" /\ FlushScan) \/ (fpc = "list" /\ FlushList) \/ (fpc = "upload" /\ FlushDone)
<1>1. CASE EndPass \/ UNCHANGED fpc
  BY <1>1 DEF EndPass
<1>2. CASE SyncStep
  BY <1>1, <1>2 DEF SyncStep, Scan, List, ListFails, HoldDelete, AskDelete, Confirm, DeleteAnswered,
     DeleteUnanswered, GoneOnBothSides, RemoveLocal, PushNew, Pull, Adopt, PushChange, InStep, PathsDone, PullWrites,
     PullSkips, PullsDone, RefuseFolder, Stamp, FullList, Fill, Filled, DownloadFails, PassFails, flush
<1>3. CASE \E o \in Owners : UploadStep(o)
  BY <1>1, <1>3 DEF UploadStep, UploadRead, UploadAnswered, UploadUnanswered, flush
<1>4. CASE SyncIfDue \/ Agent \/ \E p \in InUse : OtherClient(p) \/ Age(p)
  BY <1>1, <1>4 DEF SyncIfDue, OtherClient, Age, Agent, WipeFiles, WipeFolder, SwapFolder, Edit, Remove, AgentLeaves, flush
<1>5. CASE Teardown
  BY <1>5 DEF Teardown, Finish, RunFails, FinishCutOff, FlushScan, FlushList, FlushDone, FlushCutOff, Dispose,
     FlushStart, flush
<1> QED
  BY <1>1, <1>2, <1>3, <1>4, <1>5 DEF Next, vars, flush

LEMMA FlushUploadKeepsSaving ==
  ASSUME SavedInv, [Next]_vars, life \in Open, NEW q \in Paths,
         UploadRead("flush", q) \/ UploadAnswered("flush", q) \/ UploadUnanswered("flush", q)
  PROVE  FillingAlone' /\ \A p \in InUse : FileInv(p)'
<1>t. /\ setup' = setup /\ Rejected' = Rejected /\ SyncInv /\ BooksInv /\ InUse \subseteq Paths /\ InUse' = InUse
      /\ at \in Nat /\ remote \in [Paths -> Memory]
  BY SetupStays, Shapes DEF SavedInv, InUse, Rejected
<1>e. FlushUploads(q) /\ UploadLeaves(q) /\ UNCHANGED <<listed, next, pulls>> /\ \A p \in Paths \ {q} : refused'[p] = refused[p]
  BY <1>t, FlushUploadEffect, FlushUploadIs
<1>s. /\ up["flush"][q].st \in {"read", "sent"}
      /\ UNCHANGED <<disk, folder, pc, at, next, scan, listed, pulls, life, fpc, fscan, todo>>
      /\ \A p \in Paths : up'["sync"][p] = up["sync"][p]
      /\ \A p \in Paths \ {q} : /\ remote'[p] = remote[p] /\ baseline'[p] = baseline[p] /\ sent'[p] = sent[p]
                                /\ up'["flush"][p] = up["flush"][p] /\ refused'[p] = refused[p]
  BY <1>e DEF FlushUploads
<1>l. fpc = "upload" /\ life = "flush" /\ pc \notin Filling
  <2>1. fpc = "upload"
    BY <1>s, OpenFacts
  <2>2. life = "flush"
    BY <2>1, OpenFacts
  <2> QED
    BY <2>1, <2>2 DEF SavedInv, SavingInv, FillingAlone, Late
<1>1. FillingAlone'
  BY <1>t, <1>s DEF SavedInv, SavingInv, FillingAlone
<1>2. ASSUME NEW p \in InUse, p # q
      PROVE  FileInv(p)'
  <2>1. SameFile(p) /\ SameStage(p)
    BY <1>t, <1>s, <1>2 DEF SameFile, SameStage
  <2> QED
    BY <1>t, <1>s, <2>1, FileStays
<1>3. ASSUME q \in InUse
      PROVE  FileInv(q)'
  <2> DEFINE u == up["flush"][q]
             v == up'["flush"][q]
  <2>0. FileInv(q) /\ EntryLimits(q) /\ (u.st = "sent" => u.data # None)
    BY <1>t, <1>3 DEF SavedInv, SavingInv, Limits, EntryLimits, Owners
  <2>1. /\ disk[q] = fscan[q] \/ OnServer(q)
        /\ u.st = "sent" => u.data \in {fscan[q], disk[q]}
        /\ NotPulled(q) => disk[q] \in {fscan[q], None} /\ (u.st = "sent" => u.data = fscan[q])
        /\ SavedIfOurs(q) \/ Underway(q)
    BY <1>s, <1>l, <2>0 DEF FileInv, FlushReads, FlushWorks
  <2>2. NotPulled(q)' = NotPulled(q) /\ fscan'[q] = fscan[q] /\ disk'[q] = disk[q]
    BY <1>s DEF NotPulled
  <2>3. u.st = "sent" /\ remote'[q].sha = u.data => OnServer(q)' /\ ~OursDeleted(q)'
    BY <2>0, <2>1, <2>2 DEF OnServer, OursDeleted
  <2>4. remote'[q] = remote[q] => (OnServer(q)' <=> OnServer(q))
    BY <2>2 DEF OnServer
  <2>5. faults < setup.faults => faults' < setup'.faults
    BY <1>t, FaultsCount
  <2>6. remote'[q] = remote[q] /\ baseline'[q] = baseline[q] /\ refused'[q] = refused[q] =>
          /\ SavedIfOurs(q) => SavedIfOurs(q)'
          /\ Refused(q) => Refused(q)'
    BY <1>t, <2>2, <2>5 DEF SavedIfOurs, Refused
  <2>7. DeletedIsOffRecord(q)' /\ FilledByOthers(q)' /\ LateRecords(q)' /\ DeletedBefore(q)' /\ SyncSees(q)'
    <3>1. OursDeleted(q)' => remote'[q] = remote[q] /\ baseline'[q] = baseline[q]
      BY <1>e, <2>3 DEF UploadLeaves
    <3>2. pc \in Comparing /\ disk[q] # None /\ Refused(q) => Refused(q)' \/ (u.st = "sent" /\ remote'[q].sha = u.data)
      <4>1. pc \in Comparing /\ disk[q] # None /\ u.st = "sent" => disk[q] = u.data
        BY <2>1 DEF NotPulled
      <4>2. pc \in Comparing /\ disk[q] # None /\ u.st = "sent" /\ u.data \in Rejected => Refused(q)'
        BY <1>t, <2>2, <4>1 DEF Refused
      <4> QED
        BY <1>e, <2>6, <4>2 DEF UploadLeaves
    <3>3. CASE u.st = "sent" /\ remote'[q].sha = u.data
      <4>1. DeletedIsOffRecord(q)' /\ FilledByOthers(q)' /\ LateRecords(q)' /\ DeletedBefore(q)'
        BY <1>s, <1>l, <2>3, <3>3 DEF DeletedIsOffRecord, FilledByOthers, LateRecords, DeletedBefore, Filling
      <4>2. SyncSees(q)'
        BY <1>s, <1>l, <1>3, <1>t, <2>0 DEF FileInv, SyncSees
      <4> QED
        BY <4>1, <4>2
    <3>4. CASE ~(u.st = "sent" /\ remote'[q].sha = u.data)
      BY <1>t, <1>s, <1>l, <1>3, <3>1, <3>2, <3>4, PassPartStays
    <3> QED
      BY <3>3, <3>4
  <2>8. FlushReads(q)'
    BY <1>e, <2>1, <2>2, <2>3, <2>4 DEF UploadLeaves, FlushReads
  <2>9. SavedIfOurs(q)' \/ v.st = "lost" \/ Underway(q)'
    <3>1. OnServer(q)' => SavedIfOurs(q)'
      BY DEF OnServer, SavedIfOurs
    <3>2. CASE /\ v.st = "sent" /\ v.item = u.item
               /\ remote'[q] = remote[q] /\ baseline'[q] = baseline[q] /\ refused'[q] = refused[q]
      BY <2>1, <2>2, <2>6, <3>2 DEF Underway, ItemStands
    <3>3. CASE u.st = "sent" /\ remote'[q] = remote[q] /\ u.data \in Rejected
      <4>1. u.data = disk[q] => Refused(q)'
        BY <1>t, <2>2, <3>3 DEF Refused
      <4>2. u.data = disk[q] \/ OnServer(q)
        BY <2>1, <3>3
      <4> QED
        BY <2>4, <3>1, <3>3, <4>1, <4>2 DEF SavedIfOurs
    <3>4. CASE /\ u.st = "sent" /\ u.data \notin Rejected
               /\ remote'[q] = remote[q] /\ baseline'[q] = baseline[q] /\ refused'[q] = refused[q]
               /\ (NotFound(q, u.item) \/ ~Applies(q, u.item, u.data))
      <4>1. Underway(q) => remote[q].by # "us"
        BY <2>0, <3>4 DEF Underway, ItemStands, NotFound, Applies, EntryLimits
      <4>2. remote[q].by # "us" => SavedIfOurs(q)
        BY <1>t DEF SavedIfOurs, Memory
      <4> QED
        BY <2>1, <2>6, <3>4, <4>1, <4>2
    <3>5. disk[q] = None => OnServer(q)'
      BY <2>2 DEF OnServer
    <3> QED
      BY <1>e, <2>3, <3>1, <3>2, <3>3, <3>4, <3>5 DEF UploadLeaves
  <2> QED
    BY <1>s, <1>l, <2>7, <2>8, <2>9 DEF FileInv, FlushWorks
<1> QED
  BY <1>t, <1>1, <1>2, <1>3

LEMMA TeardownKeepsSaving ==
  ASSUME SavedInv, [Next]_vars, life \in Open, Teardown
  PROVE  FillingAlone' /\ \A p \in InUse : FileInv(p)'
<1>1. CASE FlushDone
  <2>1. life = "flush"
    BY <1>1, OpenFacts DEF FlushDone
  <2> QED
    BY <1>1, <2>1, Closed DEF FlushDone, FlushEnds, Open
<1>2. CASE FlushCutOff \/ Dispose
  BY <1>2, Closed DEF FlushCutOff, Dispose, Open
<1> QED
  BY <1>1, <1>2, BeginKeepsSaving, CutOffKeepsSaving, FlushScanKeepsSaving, FlushListKeepsSaving, FlushStartKeepsSaving
     DEF Teardown

LEMMA InitSaving == Init => SavingInv
<1> SUFFICES ASSUME Init
             PROVE  SavingInv
  OBVIOUS
<1>t. /\ NoUpload.st = "none" /\ (\A p \in Paths : NoFiles[p] = None) /\ InUse \subseteq Paths /\ setup.faults \in Nat
      /\ (\A o \in Owners, p \in Paths : up[o][p].st = "none")
  BY Constants, NamesInUse DEF Init
<1>1. Limits
  BY <1>t DEF Init, Limits, WithinLimits, FlushTime, EntryLimits, Open
<1>2. FillingAlone
  BY DEF Init, FillingAlone, Late
<1>3. ASSUME NEW p \in InUse
      PROVE  FileInv(p)
  <2>1. remote[p].by = "other" /\ life = "download" /\ pc = "open"
    BY <1>t DEF Init
  <2> QED
    BY <2>1 DEF FileInv, DeletedIsOffRecord, FilledByOthers, LateRecords, DeletedBefore, SyncSees, OursDeleted,
       FlushReads, FlushWorks, Late
<1> QED
  BY <1>1, <1>2, <1>3 DEF SavingInv

LEMMA StepSaving == SavedInv /\ [Next]_vars => SavingInv'
<1> SUFFICES ASSUME SavedInv, [Next]_vars
             PROVE  SavingInv'
  OBVIOUS
<1>0. SyncInv /\ BooksInv /\ Limits /\ InUse' = InUse
  BY SetupStays DEF SavedInv, SavingInv, InUse
<1>1. Limits'
  BY <1>0, LimitsStay
<1>2. FillingAlone' /\ \A p \in InUse : FileInv(p)'
  <2>1. CASE life' \notin Open
    BY <2>1, Closed
  <2>2. CASE life' \in Open /\ ~UNCHANGED vars
    <3>1. life \in Open
      BY <1>0, <2>2, OpenBefore
    <3>2. CASE \E o \in Owners : UploadStep(o)
      <4>1. CASE UploadStep("sync")
        BY <3>1, <4>1, PathKeepsSaving
      <4>2. CASE UploadStep("flush")
        BY <3>1, <4>2, FlushUploadKeepsSaving DEF UploadStep
      <4> QED
        BY <3>2, <4>1, <4>2 DEF Owners
    <3> QED
      BY <2>2, <3>1, <3>2, BeginKeepsSaving, SyncKeepsSaving, OutsidersKeepSaving, TeardownKeepsSaving DEF Next
  <2>3. CASE UNCHANGED vars
    BY <2>3 DEF SavedInv, SavingInv, vars, store, pass, flush, budgets, ghosts, FillingAlone, FileInv,
       DeletedIsOffRecord, FilledByOthers, LateRecords, DeletedBefore, SyncSees, OursDeleted, Ours, OnRecord, Refused,
       Rejected, FlushReads, FlushWorks, OnServer, NotPulled, SavedIfOurs, Underway, ItemStands, InUse
  <2> QED
    BY <2>1, <2>2, <2>3
<1> QED
  BY <1>0, <1>1, <1>2 DEF SavingInv

-----------------------------------------------------------------------------
(* What a flush takes up: the fourth inductive invariant, of files whose    *)
(* memories others may have written last.  A file that the last pass and    *)
(* the flush leave alone is as it was synced and has nothing unsettled; any *)
(* other is sent from the memory the flush listed, unless others change it  *)
(* after that.                                                              *)

\* What the file holds, or what the flush read, is on the server, or others were there first.
Delivered(p) ==
  disk[p] = remote[p].sha \/ (fscan[p] # None /\ fscan[p] = remote[p].sha) \/ p \in overtaken

\* There is nothing to send.
AtRest(p) == disk[p] = None \/ Refused(p) \/ (disk[p] = baseline[p] /\ sent[p] = None)

Done(p) == fpc = "upload" /\ (Delivered(p) \/ Refused(p))

\* The last pass keeps the record of a file that is as it was synced.
StaysSynced(p) ==
  life \in Late /\ pc \in Comparing /\ p < at /\ disk[p] = baseline[p] =>
    next[p] = disk[p] \/ disk[p] = None \/ Done(p)

\* It uploads what is neither synced nor refused.
UploadsNews(p) ==
  life \in Late /\ pc = "upload" /\ p = at =>
    disk[p] = None \/ Done(p) \/ (disk[p] # baseline[p] /\ disk[p] # refused[p])

\* It has nothing on record of the files that it did not reach, and of those that it fetches.
PullsUnsent(p) ==
  life \in Late /\ fpc # "upload" =>
    /\ pc \in Comparing /\ (p > at \/ (p = at /\ pc # "upload")) => sent[p] = None
    /\ p \in pulls => sent[p] = None

\* The memory that an upload starts from is still there.
ItemIs(p, item) ==
  remote[p].sha = item.sha /\ IF item.sha = None THEN item.id = 0 ELSE item.id = remote[p].id
Sending(p) == up["flush"][p].st \in {"todo", "read", "sent"}
ListTakes(p) == AtRest(p) \/ (p \in todo /\ disk[p] = fscan[p])
UploadTakes(p) ==
  /\ Sending(p) => ItemIs(p, up["flush"][p].item) \/ Delivered(p) \/ disk[p] = None
  /\ up["flush"][p].st = "sent" => disk[p] \in {up["flush"][p].data, None} \/ Delivered(p)
  /\ up["flush"][p].st = "none" => AtRest(p) \/ Delivered(p)
FlushTakes(p) ==
  life = "flush" => /\ fpc = "list" => ListTakes(p)
                    /\ fpc = "upload" => UploadTakes(p)

WorkOf(p) == StaysSynced(p) /\ UploadsNews(p) /\ PullsUnsent(p) /\ FlushTakes(p)
WorkInv == \A p \in InUse : WorkOf(p)

\* The four together.
TakenInv == SavedInv /\ WorkInv

LEMMA OvertakenStays ==
  ASSUME [Next]_vars, fpc = "upload", fpc' = "upload"
  PROVE  overtaken \subseteq overtaken'
<1>1. CASE SyncStep
  BY <1>1 DEF SyncStep, Scan, List, ListFails, HoldDelete, AskDelete, Confirm, DeleteAnswered, DeleteUnanswered,
     GoneOnBothSides, RemoveLocal, PushNew, Pull, Adopt, PushChange, InStep, PathsDone, PullWrites, PullSkips,
     PullsDone, RefuseFolder, Stamp, FullList, Fill, Filled, Wrote, ghosts
<1>2. CASE \E o \in Owners : UploadStep(o)
  BY <1>2 DEF UploadStep, UploadRead, UploadAnswered, UploadUnanswered, ghosts
<1>3. CASE Teardown
  BY <1>3 DEF Teardown, Finish, RunFails, FinishCutOff, FlushScan, FlushList, FlushDone, FlushEnds, FlushCutOff,
     Dispose, FlushStart, ghosts
<1>4. CASE \E p \in InUse : OtherClient(p)
  BY <1>4 DEF OtherClient
<1>5. CASE SyncIfDue \/ Agent \/ \E p \in InUse : Age(p)
  BY <1>5 DEF SyncIfDue, Age, Agent, WipeFiles, WipeFolder, SwapFolder, Edit, Remove, AgentLeaves, ghosts
<1> QED
  BY <1>1, <1>2, <1>3, <1>4, <1>5 DEF Next, vars, ghosts

LEMMA NotLate ==
  ASSUME life' \notin Late, NEW p \in InUse
  PROVE  WorkOf(p)'
BY DEF Late, WorkOf, StaysSynced, UploadsNews, PullsUnsent, FlushTakes

LEMMA NotTakingYet ==
  ASSUME pc' \notin Comparing, NEW p \in InUse, p \notin pulls', ~(life' = "flush" /\ fpc' \in {"list", "upload"})
  PROVE  WorkOf(p)'
BY DEF Comparing, WorkOf, StaysSynced, UploadsNews, PullsUnsent, FlushTakes

\* What a late flush relies on, when a pass leaves the file and its memory as they were.
LEMMA TakesStay ==
  ASSUME TakenInv, [Next]_vars, NEW p \in InUse, UNCHANGED <<life, fpc>>,
         disk'[p] = disk[p], remote'[p] = remote[p], fscan'[p] = fscan[p], up'["flush"][p] = up["flush"][p],
         p \in todo => p \in todo',
         AtRest(p) => AtRest(p)' \/ (fpc = "upload" /\ Delivered(p))
  PROVE  FlushTakes(p)' /\ (fpc = "upload" /\ Delivered(p) => Delivered(p)')
<1>0. FlushTakes(p)
  BY DEF TakenInv, WorkInv, WorkOf
<1>1. fpc = "upload" /\ Delivered(p) => Delivered(p)'
  BY OvertakenStays DEF Delivered
<1>2. fpc = "list" /\ ListTakes(p) => ListTakes(p)'
  BY DEF ListTakes
<1>3. ItemIs(p, up["flush"][p].item)' <=> ItemIs(p, up["flush"][p].item)
  BY DEF ItemIs
<1>4. fpc = "upload" /\ UploadTakes(p) => UploadTakes(p)'
  BY <1>1, <1>3 DEF UploadTakes, Sending
<1> QED
  BY <1>0, <1>1, <1>2, <1>4 DEF FlushTakes

LEMMA WorkStays ==
  ASSUME TakenInv, [Next]_vars, NEW p \in InUse, SameFile(p), SameStage(p), at \in Nat, at' \in Nat,
         p # at \/ UNCHANGED <<pc, at>>
  PROVE  WorkOf(p)'
<1>0. WorkOf(p) /\ p \in Nat /\ Rejected' = Rejected
  BY Shapes, SetupStays DEF TakenInv, WorkInv, SavedInv, Rejected
<1>1. UNCHANGED <<life, fpc>> /\ Refused(p)' = Refused(p) /\ AtRest(p)' = AtRest(p)
  BY <1>0 DEF SameFile, SameStage, Refused, AtRest
<1>2. FlushTakes(p)' /\ (fpc = "upload" /\ Delivered(p) => Delivered(p)')
  BY <1>1, TakesStay DEF SameFile
<1>3. Done(p) => Done(p)'
  BY <1>1, <1>2 DEF Done
<1>4. StaysSynced(p)'
  BY <1>0, <1>1, <1>3 DEF WorkOf, StaysSynced, SameFile, SameStage, Comparing
<1>5. UploadsNews(p)'
  BY <1>0, <1>1, <1>3 DEF WorkOf, UploadsNews, SameFile, SameStage, Comparing
<1>6. PullsUnsent(p)'
  <2>1. (p > at' \/ (p = at' /\ pc' # "upload")) /\ (p < at' <=> p < at) => p > at \/ (p = at /\ pc # "upload")
    BY <1>0
  <2> QED
    BY <1>0, <1>1, <2>1 DEF WorkOf, PullsUnsent, SameFile, SameStage, Comparing
<1> QED
  BY <1>2, <1>4, <1>5, <1>6 DEF WorkOf

\* A stage in which no paths are compared.
LEMMA OffPath ==
  ASSUME TakenInv, [Next]_vars, NEW p \in InUse, pc' \notin Comparing, UNCHANGED <<life, fpc>>,
         disk'[p] = disk[p], remote'[p] = remote[p], fscan'[p] = fscan[p], up'["flush"][p] = up["flush"][p],
         p \in todo => p \in todo', p \in pulls' => p \in pulls /\ sent'[p] = sent[p],
         AtRest(p) => AtRest(p)' \/ (fpc = "upload" /\ Delivered(p))
  PROVE  WorkOf(p)'
<1>1. FlushTakes(p)'
  BY TakesStay
<1> QED
  BY <1>1 DEF TakenInv, WorkInv, WorkOf, StaysSynced, UploadsNews, PullsUnsent, Comparing

\* What a step does to the file where the pass is.
PathTakes ==
  \A p \in Paths : p \in {at} /\ life \in Late =>
    /\ pc' = "path" /\ disk'[p] = baseline[p] => next'[p] = disk'[p] \/ disk'[p] = None \/ Done(p)'
    /\ pc' = "upload" => disk'[p] = None \/ Done(p)' \/ (disk'[p] # baseline[p] /\ disk'[p] # refused'[p])
    /\ p \in pulls' => sent'[p] = sent[p] /\ pc # "upload"
    /\ (remote'[p] = remote[p] /\ disk'[p] = disk[p]) \/ disk'[p] \in {remote'[p].sha, None}
    /\ AtRest(p) => AtRest(p)' \/ (fpc = "upload" /\ Delivered(p)')

LEMMA PathTakesKeeps ==
  ASSUME TakenInv, [Next]_vars, (\E c : PathDone(c)) \/ PathWaits, PathTakes,
         \A p \in Paths \ {at} : refused'[p] = refused[p]
  PROVE  \A p \in InUse : WorkOf(p)'
<1>t. /\ at \in Nat /\ at \in InUse /\ at \in Paths /\ InUse \subseteq Paths /\ Paths \subseteq Nat
      /\ SyncInv /\ BooksInv /\ SyncInv'
  BY Shapes, StepInv DEF TakenInv, SavedInv, PathDone, PathWaits
<1>s. /\ pc \in Comparing /\ UNCHANGED <<folder, baseline, life, fpc, fscan, todo, scan, listed>>
      /\ \A p \in Paths : up'["flush"][p] = up["flush"][p]
      /\ disk'[at] \in {disk[at], None} /\ pulls' \subseteq pulls \cup {at}
      /\ \A p \in Paths \ {at} :
           disk'[p] = disk[p] /\ remote'[p] = remote[p] /\ sent'[p] = sent[p] /\ next'[p] = next[p]
      /\ (pc' = "path" /\ at' = at + 1) \/ (pc' \in {"confirm", "delete", "upload"} /\ at' = at)
      /\ pc' \in {"confirm", "delete"} => pc # "upload" /\ sent' = sent
  BY <1>t, KeptAt DEF PathDone, PathWaits
<1>n. at' \in Nat /\ pc' \in Comparing
  BY <1>t, <1>s DEF Comparing
<1>1. ASSUME NEW p \in InUse, p # at
      PROVE  WorkOf(p)'
  <2>1. up'["sync"][p].st # "sent"
    BY <1>t, <1>s, <1>1, Parts DEF SyncInv, OneUpload
  <2>2. SameFile(p)
    BY <1>t, <1>s, <1>1, <2>1 DEF SameFile
  <2>3. p < at' <=> p < at
    <3>1. p \in Nat /\ p # at
      BY <1>t, <1>1
    <3>2. at' \in {at, at + 1}
      BY <1>s
    <3> QED
      BY <1>t, <3>1, <3>2
  <2>4. SameStage(p)
    BY <1>n, <1>s, <1>1, <2>3 DEF SameStage
  <2> QED
    BY <1>t, <1>n, <1>1, <2>2, <2>4, WorkStays
<1>2. ASSUME NEW p \in Paths, p \in {at}, life \in Late
      PROVE  WorkOf(p)'
  <2>0. WorkOf(p) /\ p \in InUse /\ p = at /\ p \notin pulls /\ ~(p > at)
    <3>1. at \notin pulls
      BY <1>t, <1>s, AtThePath
    <3> QED
      BY <1>2, <1>t, <3>1 DEF TakenInv, WorkInv
  <2>1. (pc' = "path" => p < at' /\ p # at' /\ ~(p > at')) /\ (pc' # "path" => ~(p < at') /\ p = at' /\ ~(p > at'))
    BY <1>t, <1>s, <2>0
  <2>p. /\ pc' = "path" /\ disk'[p] = baseline[p] => next'[p] = disk'[p] \/ disk'[p] = None \/ Done(p)'
        /\ pc' = "upload" => disk'[p] = None \/ Done(p)' \/ (disk'[p] # baseline[p] /\ disk'[p] # refused'[p])
        /\ p \in pulls' => sent'[p] = sent[p] /\ pc # "upload"
        /\ (remote'[p] = remote[p] /\ disk'[p] = disk[p]) \/ disk'[p] \in {remote'[p].sha, None}
        /\ AtRest(p) => AtRest(p)' \/ (fpc = "upload" /\ Delivered(p)')
    BY <1>2 DEF PathTakes
  <2>2. StaysSynced(p)' /\ UploadsNews(p)'
    BY <1>s, <2>1, <2>p DEF StaysSynced, UploadsNews, Comparing
  <2>3. PullsUnsent(p)'
    BY <1>s, <2>0, <2>1, <2>p DEF WorkOf, PullsUnsent, Comparing
  <2>4. FlushTakes(p)'
    <3>1. fpc = "upload" /\ Delivered(p) => Delivered(p)' \/ disk'[p] = None
      BY <1>s, <2>0, <2>p, OvertakenStays DEF Delivered
    <3>2. fpc = "list" /\ ListTakes(p) => ListTakes(p)'
      BY <1>s, <2>0, <2>p DEF ListTakes, AtRest
    <3>3. ItemIs(p, up["flush"][p].item) => ItemIs(p, up["flush"][p].item)' \/ Delivered(p)' \/ disk'[p] = None
      BY <1>s, <2>p DEF ItemIs, Delivered
    <3>4. fpc = "upload" /\ UploadTakes(p) => UploadTakes(p)'
      BY <1>s, <2>0, <2>p, <3>1, <3>3 DEF UploadTakes, Sending, AtRest
    <3> QED
      BY <1>s, <2>0, <3>2, <3>4 DEF WorkOf, FlushTakes
  <2> QED
    BY <2>2, <2>3, <2>4 DEF WorkOf
<1>3. CASE life \notin Late
  BY <1>s, <1>3, NotLate
<1> QED
  BY <1>1, <1>2, <1>3, <1>t

\* An upload of the pass waits, or a path is done, and nothing happens to the file and its memory.
LEMMA KeptTakes ==
  ASSUME TakenInv, [Next]_vars, life \in Late, pc \in Comparing, at \in InUse, NEW c, Kept(c),
         UNCHANGED <<disk, remote, baseline, sent, refused, fscan, fpc>>, at \in pulls' => pc # "upload",
         pc = "upload" \/ (disk[at] = Base => c = disk[at])
  PROVE  PathTakes
<1>t. SyncInv /\ Rejected' = Rejected
  BY SetupStays DEF TakenInv, SavedInv, Rejected
<1>k. next'[at] = c /\ pc' = "path"
  BY <1>t, KeptAt
<1>1. ASSUME NEW p \in Paths, p \in {at}
      PROVE  /\ UploadsNews(p) /\ p = at /\ next'[p] = c /\ disk'[p] = disk[p] /\ remote'[p] = remote[p]
             /\ (disk[p] = baseline[p] => c = disk[p] \/ pc = "upload")
             /\ Refused(p)' = Refused(p) /\ AtRest(p)' = AtRest(p) /\ (fpc = "upload" /\ Delivered(p) => Delivered(p)')
             /\ sent'[p] = sent[p] /\ baseline'[p] = baseline[p]
  BY <1>1, <1>t, <1>k, OvertakenStays DEF TakenInv, WorkInv, WorkOf, Base, Refused, AtRest, Delivered
<1>2. ASSUME NEW p \in Paths, p \in {at}, disk[p] = baseline[p]
      PROVE  next'[p] = disk[p] \/ disk[p] = None \/ Done(p)'
  BY <1>1, <1>2 DEF UploadsNews, Done
<1> QED
  BY <1>1, <1>2, <1>k DEF PathTakes

LEMMA WaitTakes ==
  ASSUME TakenInv, [Next]_vars, life \in Late, pc \in Comparing, at \in InUse, pc' \in {"confirm", "delete", "upload"},
         UNCHANGED <<disk, remote, baseline, refused, fscan, fpc, pulls>>, sent' = sent \/ pc = "upload",
         pc' = "upload" => pc = "upload" \/ (disk[at] # Base /\ disk[at] # refused[at])
  PROVE  PathTakes
<1>t. SyncInv /\ Rejected' = Rejected /\ at \notin pulls
  BY SetupStays, AtThePath DEF TakenInv, SavedInv, Rejected
<1>1. ASSUME NEW p \in Paths, p \in {at}
      PROVE  /\ UploadsNews(p) /\ p = at /\ p \notin pulls' /\ disk'[p] = disk[p] /\ remote'[p] = remote[p]
             /\ (pc' = "upload" => pc = "upload" \/ (disk[p] # baseline[p] /\ disk[p] # refused[p]))
             /\ Refused(p)' = Refused(p) /\ refused'[p] = refused[p] /\ baseline'[p] = baseline[p]
             /\ (fpc = "upload" /\ Delivered(p) => Delivered(p)')
             /\ sent'[p] = sent[p] \/ pc = "upload"
  BY <1>1, <1>t, OvertakenStays DEF TakenInv, WorkInv, WorkOf, Base, Refused, Delivered
<1>2. ASSUME NEW p \in Paths, p \in {at}
      PROVE  pc' = "upload" => disk[p] = None \/ Done(p)' \/ (disk[p] # baseline[p] /\ disk[p] # refused[p])
  BY <1>1, <1>2 DEF UploadsNews, Done
<1>3. ASSUME NEW p \in Paths, p \in {at}, AtRest(p)
      PROVE  AtRest(p)' \/ (fpc = "upload" /\ Delivered(p)')
  BY <1>1, <1>3 DEF UploadsNews, Done, AtRest
<1> QED
  BY <1>1, <1>2, <1>3 DEF PathTakes

LEMMA PushTakes ==
  ASSUME TakenInv, [Next]_vars, life \in Late, pc = "path", at \in InUse, Push(disk[at]), disk[at] # Base,
         UNCHANGED <<disk, remote, baseline, refused, sent, fscan, fpc, pulls>>
  PROVE  PathTakes
<1>t. pc \in Comparing
  BY DEF Comparing
<1>1. CASE setup.readOnly \/ refused[at] = disk[at]
  <2>1. Kept(None)
    BY <1>1 DEF Push, Keep, Kept
  <2> QED
    BY <1>t, <2>1, KeptTakes
<1>2. CASE ~(setup.readOnly \/ refused[at] = disk[at])
  <2>1. pc' = "upload"
    BY <1>2 DEF Push
  <2> QED
    BY <1>t, <1>2, <2>1, WaitTakes
<1> QED
  BY <1>1, <1>2

LEMMA ComparisonsTake ==
  ASSUME TakenInv, [Next]_vars, life \in Late,
         \/ HoldDelete \/ AskDelete \/ Confirm \/ GoneOnBothSides \/ Pull \/ Adopt \/ InStep \/ PushNew \/ PushChange
  PROVE  PathTakes
<1>t. at \in InUse /\ pc \in Comparing /\ SyncInv /\ life \in Open
  <2>1. SyncInv /\ life \in Open
    BY DEF TakenInv, SavedInv, Late, Open
  <2>2. at \in InUse /\ pc \in Comparing
    BY <2>1 DEF SyncInv, InPlace, HoldDelete, AskDelete, Confirm, GoneOnBothSides, Pull, Adopt, InStep, PushNew,
       PushChange, AtPath, Comparing
  <2> QED
    BY <2>1, <2>2
<1>l. Local = disk[at]
  BY <1>t, AtTheFile DEF TakenInv
<1>1. CASE HoldDelete \/ Pull
  <2>1. Kept(Base) /\ UNCHANGED <<disk, remote, baseline, refused, sent, fscan, fpc>> /\ pc # "upload"
    BY <1>1 DEF HoldDelete, Pull, AtPath, Keep, Kept, flush
  <2> QED
    BY <1>t, <2>1, KeptTakes
<1>2. CASE Adopt \/ InStep
  <2>1. Kept(Item.sha) /\ UNCHANGED <<disk, remote, baseline, refused, sent, fscan, fpc>> /\ pc # "upload"
        /\ (Item.sha = Local \/ Item.sha = Base)
    BY <1>2 DEF Adopt, InStep, RemoteChanged, AtPath, Keep, Kept, flush
  <2> QED
    BY <1>t, <1>l, <2>1, KeptTakes
<1>3. CASE GoneOnBothSides
  <2>1. Kept(None) /\ UNCHANGED <<disk, remote, baseline, refused, sent, fscan, fpc>> /\ pc # "upload" /\ Local = None
    BY <1>3 DEF GoneOnBothSides, AtPath, Keep, Kept, flush
  <2> QED
    BY <1>t, <1>l, <2>1, KeptTakes
<1>4. CASE Confirm
  <2>1. UNCHANGED <<disk, remote, baseline, refused, sent, fscan, fpc, pulls>> /\ pc # "upload"
        /\ (Kept(Base) \/ pc' = "delete")
    BY <1>4 DEF Confirm, Keep, Kept, flush
  <2>2. CASE Kept(Base)
    BY <1>t, <2>1, <2>2, KeptTakes
  <2>3. CASE pc' = "delete"
    BY <1>t, <2>1, <2>3, WaitTakes
  <2> QED
    BY <2>1, <2>2, <2>3
<1>5. CASE AskDelete
  <2>1. UNCHANGED <<disk, remote, baseline, refused, sent, fscan, fpc, pulls>> /\ pc' = "confirm"
    BY <1>5 DEF AskDelete, AtPath, flush
  <2> QED
    BY <1>t, <2>1, WaitTakes
<1>6. CASE PushNew
  <2>1. /\ UNCHANGED <<disk, remote, baseline, refused, sent, fscan, fpc, pulls>>
        /\ pc = "path" /\ Push(Local) /\ Local # Base
    BY <1>6 DEF PushNew, AtPath, flush
  <2> QED
    BY <1>t, <1>l, <2>1, PushTakes
<1>7. CASE PushChange
  <2>1. UNCHANGED <<disk, remote, baseline, refused, sent, fscan, fpc, pulls>> /\ pc' = "upload" /\ Local # Base
        /\ refused[at] # Local
    BY <1>7 DEF PushChange, LocalChanged, flush
  <2> QED
    BY <1>t, <1>l, <2>1, WaitTakes
<1> QED
  BY <1>1, <1>2, <1>3, <1>4, <1>5, <1>6, <1>7

LEMMA RemovalTakes ==
  ASSUME TakenInv, [Next]_vars, life \in Late, RemoveLocal
  PROVE  PathTakes
<1>t. /\ at \in InUse /\ pc = "path" /\ pc \in Comparing /\ SyncInv /\ BooksInv /\ disk \in Files
      /\ UNCHANGED <<remote, baseline, refused, sent, fscan, fpc, pulls>>
  BY Shapes DEF TakenInv, SavedInv, RemoveLocal, AtPath, Comparing, flush
<1>1. CASE disk' = [disk EXCEPT ![at] = None] /\ Keep(None)
  <2>1. pc' = "path" /\ at \notin pulls
    BY <1>t, <1>1, AtThePath DEF Keep
  <2>2. ASSUME NEW p \in Paths, p \in {at}
        PROVE  disk'[p] = None /\ p \notin pulls'
    BY <1>t, <1>1, <2>1, <2>2 DEF Files
  <2> QED
    BY <1>t, <2>1, <2>2 DEF PathTakes, AtRest
<1>2. CASE disk[at] \notin {None, Base} /\ Push(disk[at]) /\ UNCHANGED disk
  BY <1>t, <1>2, PushTakes
<1>3. CASE Keep(Base) /\ UNCHANGED disk
  <2>1. Kept(Base)
    BY <1>3 DEF Keep, Kept
  <2> QED
    BY <1>t, <1>3, <2>1, KeptTakes
<1> QED
  BY <1>1, <1>2, <1>3 DEF RemoveLocal

LEMMA DeletionTakes ==
  ASSUME TakenInv, [Next]_vars, life \in Late, DeleteAnswered \/ DeleteUnanswered
  PROVE  PathTakes
<1>t. /\ at \in InUse /\ pc = "delete" /\ pc \in Comparing /\ SyncInv /\ BooksInv /\ life \in Open
      /\ UNCHANGED <<disk, pulls>> /\ pc' = "path"
  BY Shapes DEF TakenInv, SavedInv, SyncInv, InPlace, DeleteAnswered, DeleteUnanswered, Comparing, Late, Open, Keep
<1>1. disk[at] = None /\ at \notin pulls
  BY <1>t, AtTheFile, AtThePath DEF TakenInv
<1>2. ASSUME NEW p \in Paths, p \in {at}
      PROVE  disk'[p] = None /\ p \notin pulls'
  BY <1>t, <1>1, <1>2
<1> QED
  BY <1>t, <1>2 DEF PathTakes, AtRest

\* An upload of the pass arrives: the file is on the server, and has nothing unsettled but by a lost answer.
LEMMA ArrivalTakes ==
  ASSUME TakenInv, [Next]_vars, life \in Late, pc = "upload", at \in InUse, up["sync"][at].st = "sent",
         Uploaded(at, up["sync"][at].data), up["sync"][at].data \notin Rejected, NEW c, Kept(c),
         UNCHANGED <<disk, baseline, fscan, fpc, pulls>>,
         c = up["sync"][at].data \/ UNCHANGED <<sent, refused>>
  PROVE  PathTakes
<1>t. at \in Paths /\ SyncInv /\ BooksInv /\ pc \in Comparing /\ life \in Open /\ Rejected' = Rejected
  BY Shapes, SetupStays DEF TakenInv, SavedInv, Comparing, Late, Open, Rejected
<1>k. next'[at] = c /\ pc' = "path"
  BY <1>t, KeptAt
<1>a. up["sync"][at].data = disk[at] /\ disk[at] # None /\ at \notin pulls /\ disk[at] \notin Rejected
  BY <1>t, AtTheFile, AtThePath DEF TakenInv
<1>1. remote'[at].sha = disk[at]
  BY <1>t, <1>a, UploadedIs
<1>2. ASSUME NEW p \in Paths, p \in {at}
      PROVE  /\ UploadsNews(p) /\ p = at /\ p \notin pulls' /\ disk'[p] = disk[p] /\ remote'[p].sha = disk'[p]
             /\ disk[p] # None /\ disk[p] \notin Rejected /\ Delivered(p)' /\ next'[p] = c
             /\ c = disk'[p] \/ UNCHANGED <<sent, refused>>
  BY <1>2, <1>t, <1>k, <1>a, <1>1 DEF TakenInv, WorkInv, WorkOf, Delivered
<1>3. ASSUME NEW p \in Paths, p \in {at}, disk[p] = baseline[p]
      PROVE  next'[p] = disk[p] \/ Done(p)'
  BY <1>2, <1>3 DEF UploadsNews, Done
<1>4. ASSUME NEW p \in Paths, p \in {at}, AtRest(p)
      PROVE  fpc = "upload"
  BY <1>2, <1>4 DEF UploadsNews, Done, AtRest, Refused
<1> QED
  BY <1>2, <1>3, <1>4, <1>k DEF PathTakes

LEMMA SyncUploadTakes ==
  ASSUME TakenInv, [Next]_vars, life \in Late, NEW p \in Paths,
         UploadRead("sync", p) \/ UploadAnswered("sync", p) \/ UploadUnanswered("sync", p)
  PROVE  PathTakes
<1>t. /\ SyncInv /\ BooksInv /\ "sync" \in Owners /\ up["sync"][p].st \in {"read", "sent"} /\ life \in Open
      /\ UNCHANGED <<disk, fscan, fpc, pulls>> /\ refused \in Files /\ Rejected' = Rejected
  BY Shapes, Parts, SetupStays DEF TakenInv, SavedInv, SyncInv, StoreTyped, UploadRead, UploadAnswered, UploadUnanswered,
     flush, Late, Open, Rejected
<1>p. pc = "upload" /\ p = at /\ at \in InUse /\ pc \in Comparing /\ at \notin pulls
  <2>1. pc = "upload" /\ p = at
    BY <1>t, Parts DEF SyncInv, OneUpload
  <2> QED
    BY <1>t, <2>1, AtThePath DEF SyncInv, InPlace, Comparing
<1> DEFINE u == up["sync"][at]
<1>d. u.st = "sent" => disk[at] = u.data /\ u.data # None
  BY <1>t, <1>p, AtTheFile DEF TakenInv
<1>0. ASSUME UploadEnds("sync", p, None), UNCHANGED <<remote, sent, refused>>
      PROVE  PathTakes
  <2>1. Kept(Item.sha) /\ UNCHANGED baseline
    BY <1>0 DEF UploadEnds, Keep, Kept
  <2> QED
    BY <1>0, <1>t, <1>p, <2>1, KeptTakes
<1>1. CASE UploadRead("sync", p)
  <2>1. CASE disk[p] = None
    BY <1>0, <1>1, <2>1 DEF UploadRead
  <2>2. CASE disk[p] # None
    BY <1>1, <1>t, <1>p, <2>2, WaitTakes DEF UploadRead
  <2> QED
    BY <2>1, <2>2
<1>2. CASE UploadAnswered("sync", p)
  <2>1. CASE Applies(p, u.item, u.data) /\ Uploaded(p, u.data) /\ UploadEnds("sync", p, u.data)
    <3>1. Kept(u.data) /\ UNCHANGED baseline /\ u.st = "sent"
      BY <1>2, <1>p, <1>d, <2>1 DEF UploadAnswered, UploadEnds, Keep, Kept
    <3> QED
      BY <1>t, <1>p, <2>1, <3>1, ArrivalTakes DEF Applies
  <2>2. CASE u.data \in Rejected /\ refused' = [refused EXCEPT ![p] = u.local] /\ UploadEnds("sync", p, None)
             /\ UNCHANGED <<remote, sent>>
    <3>1. pc' = "path" /\ UNCHANGED baseline /\ u.st = "sent"
      BY <1>2, <1>p, <2>2 DEF UploadAnswered, UploadEnds, Keep
    <3>2. ASSUME NEW q \in Paths, q \in {at}
          PROVE  /\ Refused(q)' /\ UploadsNews(q) /\ q = at /\ q \notin pulls' /\ disk'[q] = disk[q]
                 /\ remote'[q] = remote[q]
      BY <1>t, <1>p, <1>d, <2>2, <3>1, <3>2 DEF Refused, TakenInv, WorkInv, WorkOf
    <3>3. ASSUME NEW q \in Paths, q \in {at}, disk[q] = baseline[q]
          PROVE  disk[q] = None \/ Done(q)'
      BY <1>p, <1>t, <3>2, <3>3 DEF UploadsNews, Done
    <3> QED
      BY <3>1, <3>2, <3>3 DEF PathTakes, AtRest
  <2>3. CASE StartUpload("sync", p, u.local, NoMemory) /\ UNCHANGED <<remote, refused, sent, baseline, pc>>
    BY <1>t, <1>p, <2>3, WaitTakes
  <2>4. CASE UploadEnds("sync", p, None) /\ UNCHANGED <<remote, refused, sent>>
    BY <1>0, <2>4
  <2> QED
    BY <1>2, <1>p, <2>1, <2>2, <2>3, <2>4 DEF UploadAnswered
<1>3. CASE UploadUnanswered("sync", p)
  <2>1. Kept(Item.sha) /\ UNCHANGED <<baseline, sent, refused>> /\ u.st = "sent"
    BY <1>3, <1>p DEF UploadUnanswered, UploadLost, Keep, Kept
  <2>2. CASE Applies(p, u.item, u.data) /\ Uploaded(p, u.data)
    BY <1>t, <1>p, <2>1, <2>2, ArrivalTakes DEF Applies
  <2>3. CASE UNCHANGED remote
    BY <1>t, <1>p, <2>1, <2>3, KeptTakes
  <2> QED
    BY <1>3, <1>p, <2>2, <2>3 DEF UploadUnanswered
<1> QED
  BY <1>1, <1>2, <1>3

\* Whatever a pass does at a path.
LEMMA PathKeepsWork ==
  ASSUME TakenInv, [Next]_vars, life \in Open,
         \/ HoldDelete \/ AskDelete \/ Confirm \/ DeleteAnswered \/ DeleteUnanswered
         \/ GoneOnBothSides \/ RemoveLocal \/ PushNew \/ Pull \/ Adopt \/ PushChange \/ InStep
         \/ UploadStep("sync")
  PROVE  \A p \in InUse : WorkOf(p)'
<1>0. SyncInv /\ BooksInv /\ SavedInv
  BY DEF TakenInv, SavedInv
<1>1. PathTakes
  <2>1. CASE life \notin Late
    BY <2>1 DEF PathTakes
  <2> QED
    BY <2>1, ComparisonsTake, RemovalTakes, DeletionTakes, SyncUploadTakes DEF UploadStep
<1>2. CASE UploadStep("sync")
  <2>1. PICK p \in Paths : UploadRead("sync", p) \/ UploadAnswered("sync", p) \/ UploadUnanswered("sync", p)
    BY <1>2 DEF UploadStep
  <2>2. (\E c : PathDone(c)) \/ PathWaits
    BY <1>0, <2>1, SyncUploadEffect
  <2>3. PathSaves
    BY <1>0, <2>1, SyncUploadSaves
  <2> QED
    BY <1>1, <2>2, <2>3, PathTakesKeeps DEF PathSaves
<1>3. CASE \/ HoldDelete \/ AskDelete \/ Confirm \/ DeleteAnswered \/ DeleteUnanswered
           \/ GoneOnBothSides \/ RemoveLocal \/ PushNew \/ Pull \/ Adopt \/ PushChange \/ InStep
  <2>1. PathSaves
    BY <1>0, <1>3, ComparisonsSave, RemovalSaves, DeletionSaves
  <2>2. (\E c : PathDone(c)) \/ PathWaits
    BY <1>0, <1>3, PathEffect
  <2> QED
    BY <1>1, <2>1, <2>2, PathTakesKeeps DEF PathSaves
<1> QED
  BY <1>2, <1>3

\* A pass ends, or a folder is filled, while the flush is not at work on it or leaves the files alone.
LEMMA EndKeepsWork ==
  ASSUME TakenInv, [Next]_vars, life \in Open, pc \notin Comparing, EndPass, UNCHANGED <<disk, refused, fscan, todo, up>>,
         UNCHANGED <<remote, baseline, sent>> \/ pc \in Filling
  PROVE  \A p \in InUse : WorkOf(p)'
<1>t. /\ Rejected' = Rejected /\ InUse \subseteq Paths /\ pc' \notin Comparing /\ pulls' = {}
      /\ (UNCHANGED <<life, fpc>>) \/ (life' = "flush" /\ fpc' = "scan")
  BY SetupStays, Shapes DEF TakenInv, SavedInv, EndPass, Comparing, Rejected
<1>1. CASE life' = "flush" /\ fpc' = "scan"
  BY <1>t, <1>1, NotTakingYet
<1>2. CASE UNCHANGED <<life, fpc>> /\ pc \in Filling
  <2>1. ~(life' = "flush" /\ fpc' \in {"list", "upload"})
    BY <1>2 DEF TakenInv, SavedInv, SavingInv, FillingAlone, Late
  <2> QED
    BY <1>t, <2>1, NotTakingYet
<1>3. CASE UNCHANGED <<life, fpc, remote, baseline, sent>>
  <2>1. \A p \in InUse : AtRest(p)' = AtRest(p)
    BY <1>t, <1>3 DEF AtRest, Refused
  <2> QED
    BY <1>t, <1>3, <2>1, OffPath
<1> QED
  BY <1>t, <1>1, <1>2, <1>3

LEMMA FillingKeepsWork ==
  ASSUME TakenInv, UNCHANGED <<life, fpc>>, pc \in Filling, pc' \in Filling, pulls' = pulls
  PROVE  \A p \in InUse : WorkOf(p)'
<1>1. ~(life' = "flush" /\ fpc' \in {"list", "upload"})
  BY DEF TakenInv, SavedInv, SavingInv, FillingAlone, Late
<1>2. pulls' = {} /\ pc' \notin Comparing
  BY DEF TakenInv, SavedInv, BooksInv, Progress, Filling, Comparing
<1> QED
  BY <1>1, <1>2, NotTakingYet

LEMMA ListKeepsWork ==
  ASSUME TakenInv, [Next]_vars, List
  PROVE  \A p \in InUse : WorkOf(p)'
<1>t. /\ pc = "list" /\ Rejected' = Rejected /\ InUse \subseteq Paths /\ Paths \subseteq Nat /\ at' = 1
      /\ (\A p \in Paths : p >= 1 /\ p \in Nat) /\ (\A p \in Paths : baseline'[p] = SettleSent[p] /\ sent'[p] = None)
      /\ UNCHANGED <<disk, remote, refused, fscan, up, todo, life, fpc, pulls>> /\ pc' \in {"open", "path"}
  <2>1. SyncInv /\ BooksInv /\ setup \in Setups
    BY Parts DEF TakenInv, SavedInv, SyncInv, RestTyped
  <2>2. at = 1
    BY <2>1 DEF List, BooksInv, Progress, Comparing
  <2>3. \A p \in Paths : p >= 1 /\ p \in Nat
    BY <2>1, NamesInUse DEF Paths
  <2> QED
    BY <2>1, <2>2, <2>3, SetupStays, Shapes, Constants DEF List, flush, SettleSent, Rejected
<1>1. ASSUME NEW p \in InUse
      PROVE  WorkOf(p)'
  <2>1. p \in Paths /\ ~(p < at') /\ p \in Nat
    <3>1. p \in Paths /\ at' = 1
      BY <1>t
    <3>2. p >= 1 /\ p \in Nat
      BY <1>t, <3>1
    <3> QED
      BY <3>1, <3>2
  <2>2. AtRest(p) => AtRest(p)'
    BY <1>t, <2>1 DEF AtRest, Refused, SettleSent
  <2>3. FlushTakes(p)'
    BY <1>t, <2>2, TakesStay
  <2> QED
    BY <1>t, <2>1, <2>3 DEF WorkOf, StaysSynced, UploadsNews, PullsUnsent
<1> QED
  BY <1>1

LEMMA PathsDoneKeepsWork ==
  ASSUME TakenInv, [Next]_vars, PathsDone
  PROVE  \A p \in InUse : WorkOf(p)'
<1>t. /\ pc = "path" /\ pc' = "pull" /\ SyncInv /\ InUse \subseteq Paths /\ Rejected' = Rejected /\ baseline' = next
      /\ UNCHANGED <<disk, remote, sent, refused, fscan, up, todo, life, fpc, pulls>>
  BY SetupStays, Shapes DEF TakenInv, SavedInv, PathsDone, flush, Rejected
<1>p. \A p \in InUse : p < at
  <2>1. at \in 1..NPaths + 1 /\ setup \in Setups /\ at \notin InUse
    BY <1>t, Parts DEF SyncInv, PassTyped, RestTyped, PathsDone
  <2>2. setup.files \in Nat /\ NPaths \in Nat
    BY <2>1, NamesInUse, MemoryAssumption DEF Setups0, Paths
  <2> QED
    BY <2>1, <2>2 DEF InUse
<1>1. ASSUME NEW p \in InUse
      PROVE  WorkOf(p)'
  <2>1. CASE life \in Late
    <3>1. disk[p] = baseline[p] => next[p] = disk[p] \/ disk[p] = None \/ Done(p)
      BY <1>t, <1>p, <2>1 DEF TakenInv, WorkInv, WorkOf, StaysSynced, Comparing
    <3>2. AtRest(p) => AtRest(p)' \/ (fpc = "upload" /\ Delivered(p))
      BY <1>t, <3>1 DEF AtRest, Refused, Done
    <3> QED
      BY <1>t, <3>2, OffPath DEF Comparing
  <2>2. CASE life \notin Late
    BY <1>t, <2>2, NotLate
  <2> QED
    BY <2>1, <2>2
<1> QED
  BY <1>1

\* What the pass fetches is on the server, and nothing of it is on record when the flush lists.
LEMMA PullKeepsWork ==
  ASSUME TakenInv, [Next]_vars, NEW q \in Paths, PullWrites(q) \/ PullSkips(q)
  PROVE  \A p \in InUse : WorkOf(p)'
<1>t. /\ pc = "pull" /\ pc' = "pull" /\ InUse \subseteq Paths /\ Rejected' = Rejected
      /\ pulls' = pulls \ {q} /\ at \in Nat /\ at' = at /\ q \in pulls
      /\ UNCHANGED <<remote, sent, refused, fscan, up, todo, life, fpc, scan, next, listed>>
  BY SetupStays, Shapes DEF TakenInv, SavedInv, PullWrites, PullSkips, flush, store, Rejected
<1>d. /\ \A p \in Paths \ {q} : disk'[p] = disk[p] /\ baseline'[p] = baseline[p]
      /\ \/ disk'[q] = disk[q] /\ baseline'[q] = baseline[q]
         \/ disk'[q] = remote[q].sha /\ baseline'[q] = remote[q].sha /\ remote[q].sha # None
  BY <1>t, Shapes DEF TakenInv, SavedInv, PullWrites, PullSkips, PullFinds, Files, store
<1>1. ASSUME NEW p \in InUse
      PROVE  WorkOf(p)'
  <2>0. WorkOf(p) /\ p \in Paths
    BY <1>t DEF TakenInv, WorkInv
  <2>1. CASE disk'[p] = disk[p] /\ baseline'[p] = baseline[p]
    <3>1. SameFile(p) /\ SameStage(p)
      BY <1>t, <2>1 DEF SameFile, SameStage
    <3> QED
      BY <1>t, <3>1, WorkStays
  <2>2. CASE p = q /\ disk'[p] = remote[p].sha /\ baseline'[p] = remote[p].sha
    <3>1. Delivered(p)' /\ p \in pulls
      BY <1>t, <2>2 DEF Delivered
    <3>2. CASE life \in Late
      <4>1. fpc # "upload" => AtRest(p)'
        BY <1>t, <2>0, <2>2, <3>1, <3>2 DEF WorkOf, PullsUnsent, AtRest
      <4>2. FlushTakes(p)'
        BY <1>t, <3>1, <4>1 DEF FlushTakes, ListTakes, UploadTakes
      <4> QED
        BY <1>t, <2>0, <4>2 DEF WorkOf, StaysSynced, UploadsNews, PullsUnsent, Comparing
    <3>3. CASE life \notin Late
      BY <1>t, <3>3, NotLate
    <3> QED
      BY <3>2, <3>3
  <2> QED
    BY <1>d, <2>0, <2>1, <2>2
<1> QED
  BY <1>1

LEMMA SyncKeepsWork ==
  ASSUME TakenInv, [Next]_vars, life \in Open, life' \in Open, SyncStep
  PROVE  \A p \in InUse : WorkOf(p)'
<1>1. CASE ListFails \/ PullsDone
  <2>1. pc \notin Comparing /\ EndPass /\ UNCHANGED <<disk, remote, baseline, sent, refused, fscan, todo, up>>
    BY <1>1 DEF ListFails, PullsDone, Comparing, store
  <2> QED
    BY <2>1, EndKeepsWork
<1>2. CASE Scan
  <2>1. pc = "scan" /\ pc \notin Comparing /\ UNCHANGED <<disk, remote, baseline, sent, refused, fscan, todo, up>>
    BY <1>2 DEF Scan, Comparing, store
  <2>2. CASE EndPass
    BY <2>1, <2>2, EndKeepsWork
  <2>3. CASE pc' \in {"list", "open"} /\ UNCHANGED <<life, fpc, pulls>>
    <3>1. \A p \in InUse : AtRest(p)' = AtRest(p)
      BY <2>1, SetupStays DEF TakenInv, SavedInv, AtRest, Refused, Rejected
    <3> QED
      BY <2>1, <2>3, <3>1, OffPath DEF Comparing
  <2> QED
    BY <1>2, <2>2, <2>3 DEF Scan
<1>3. CASE Stamp \/ FullList \/ Fill \/ Filled
  <2>1. pc \in Filling /\ pc \notin Comparing /\ UNCHANGED <<refused, fscan, todo, up>>
    BY <1>3 DEF Stamp, FullList, Fill, Filled, Filling, Comparing, store, flush
  <2>2. CASE EndPass /\ UNCHANGED disk
    BY <2>1, <2>2, EndKeepsWork
  <2>3. CASE life' \notin Late
    BY <2>3, NotLate
  <2>4. CASE pc' \in Filling /\ UNCHANGED <<life, fpc, pulls>>
    BY <2>1, <2>4, FillingKeepsWork
  <2> QED
    BY <1>3, <2>2, <2>3, <2>4 DEF Stamp, FullList, Fill, Filled, DownloadFails, PassFails, Filling, Late, flush
<1>4. CASE RefuseFolder
  BY <1>4, NotLate DEF RefuseFolder, Late
<1> QED
  BY <1>1, <1>2, <1>3, <1>4, ListKeepsWork, PathsDoneKeepsWork, PullKeepsWork, PathKeepsWork DEF SyncStep

LEMMA OutsidersKeepWork ==
  ASSUME TakenInv, [Next]_vars, Agent \/ \E q \in InUse : OtherClient(q) \/ Age(q)
  PROVE  \A p \in InUse : WorkOf(p)'
<1>t. at \in Nat /\ InUse \subseteq Paths /\ remote \in [Paths -> Memory] /\ Rejected' = Rejected
  BY Shapes, SetupStays DEF TakenInv, SavedInv, Rejected
<1>1. CASE Agent
  <2>1. life' = "running"
    BY <1>1 DEF Agent, WipeFiles, WipeFolder, SwapFolder, Edit, Remove, AgentActs, AgentLeaves
  <2> QED
    BY <2>1, NotLate DEF Late
<1>2. CASE \E q \in InUse : Age(q)
  <2>1. /\ UNCHANGED <<disk, remote, baseline, sent, refused, pc, at, scan, listed, next, pulls, fpc, fscan, todo, life, up>>
    BY <1>2 DEF Age, pass, flush
  <2>2. \A p \in InUse : SameFile(p) /\ SameStage(p)
    BY <2>1 DEF SameFile, SameStage
  <2> QED
    BY <1>t, <2>1, <2>2, WorkStays
<1>3. ASSUME NEW q \in InUse, OtherClient(q)
      PROVE  \A p \in InUse : WorkOf(p)'
  <2>1. /\ UNCHANGED <<disk, baseline, sent, refused, pc, at, scan, listed, next, pulls, fpc, fscan, todo, life, up>>
        /\ \A p \in Paths \ {q} : remote'[p] = remote[p]
        /\ fpc = "upload" => q \in overtaken'
    BY <1>3, <1>t DEF OtherClient, store, pass, flush
  <2>2. ASSUME NEW p \in InUse, p # q
        PROVE  WorkOf(p)'
    <3>1. SameFile(p) /\ SameStage(p)
      BY <1>t, <2>1, <2>2 DEF SameFile, SameStage
    <3> QED
      BY <1>t, <2>1, <3>1, WorkStays
  <2>3. WorkOf(q)'
    <3>0. WorkOf(q)
      BY DEF TakenInv, WorkInv
    <3>1. fpc = "upload" => Delivered(q)'
      BY <2>1 DEF Delivered
    <3>2. AtRest(q)' = AtRest(q) /\ (fpc # "upload" => ~Done(q)) /\ (fpc = "upload" => Done(q)')
      BY <1>t, <2>1, <3>1 DEF AtRest, Refused, Done
    <3>3. FlushTakes(q)'
      BY <2>1, <3>0, <3>1, <3>2 DEF WorkOf, FlushTakes, ListTakes, UploadTakes
    <3> QED
      BY <2>1, <3>0, <3>2, <3>3 DEF WorkOf, StaysSynced, UploadsNews, PullsUnsent
  <2> QED
    BY <2>2, <2>3
<1> QED
  BY <1>1, <1>2, <1>3

\* The session's last pass begins with nothing to fetch; a last pass that is cut off goes on as it was.
LEMMA BeginKeepsWork ==
  ASSUME TakenInv, [Next]_vars, SyncIfDue \/ Finish \/ RunFails \/ FinishCutOff
  PROVE  \A p \in InUse : WorkOf(p)'
<1>1. CASE SyncIfDue \/ Finish \/ RunFails
  <2>1. pulls' = {} /\ pc' \notin Comparing /\ ~(life' = "flush" /\ fpc' \in {"list", "upload"})
    BY <1>1 DEF TakenInv, SavedInv, BooksInv, Progress, SyncIfDue, Finish, RunFails, Comparing, pass, flush
  <2> QED
    BY <2>1, NotTakingYet
<1>2. CASE FinishCutOff
  <2>1. /\ life = "finish" /\ life' = "flush" /\ fpc' = "scan" /\ fpc = "off" /\ Rejected' = Rejected
        /\ UNCHANGED <<disk, remote, baseline, sent, refused, pass>>
    BY <1>2, SetupStays, OpenFacts DEF FinishCutOff, store, TakenInv, SavedInv, Rejected
  <2> QED
    BY <2>1 DEF TakenInv, WorkInv, WorkOf, StaysSynced, UploadsNews, PullsUnsent, FlushTakes, Done, Late, pass
<1> QED
  BY <1>1, <1>2

\* The flush takes up every file that it finds not at rest.
LEMMA FlushScanKeepsWork ==
  ASSUME TakenInv, [Next]_vars, life \in Open, life' \in Open, FlushScan
  PROVE  \A p \in InUse : WorkOf(p)'
<1>t. /\ Rejected' = Rejected /\ InUse \subseteq Paths /\ fpc = "scan" /\ life = "flush"
      /\ UNCHANGED <<disk, remote, baseline, sent, refused, pc, at, next, pulls>>
  BY SetupStays, Shapes, OpenFacts DEF TakenInv, SavedInv, FlushScan, store, pass, Rejected
<1>1. fscan' = disk /\ todo' = Dirty(disk) /\ fpc' = "list" /\ UNCHANGED life
  BY <1>t DEF FlushScan, FlushEnds, Open
<1>2. ASSUME NEW p \in InUse
      PROVE  WorkOf(p)'
  <2>0. WorkOf(p) /\ p \in Paths /\ EntryLimits(p)
    BY <1>t DEF TakenInv, WorkInv, SavedInv, SavingInv, Limits
  <2>1. p \in Dirty(disk) \/ AtRest(p)
    BY <2>0 DEF Dirty, Present, AtRest, Refused, EntryLimits
  <2>2. ListTakes(p)'
    BY <1>t, <1>1, <2>1 DEF ListTakes, AtRest, Refused
  <2> QED
    BY <1>t, <1>1, <2>0, <2>2 DEF WorkOf, StaysSynced, UploadsNews, PullsUnsent, FlushTakes, Done
<1> QED
  BY <1>2

\* What is not at rest after the flush's listing is sent from the memory that it listed; what
\* the listing keeps back is on the server, or another client changed its memory.
LEMMA FlushListKeepsWork ==
  ASSUME TakenInv, [Next]_vars, life \in Open, life' \in Open, FlushList
  PROVE  \A p \in InUse : WorkOf(p)'
<1>t. /\ Rejected' = Rejected /\ SyncInv /\ BooksInv /\ InUse \subseteq Paths
      /\ fpc = "list" /\ life = "flush" /\ life \in Late /\ "flush" \in Owners
      /\ UpTyped /\ remote \in [Paths -> Memory] /\ NoUpload \in Upload /\ NoUpload.st = "none"
      /\ NoMemory.id = 0 /\ NoMemory.sha = None /\ \A p \in Paths : NoFiles[p] = None
  BY SetupStays, Shapes, OpenFacts, Constants DEF TakenInv, SavedInv, FlushList, Late, pass, Rejected
<1>u. UNCHANGED <<disk, remote, refused, pc, at, next, pulls>>
  BY DEF FlushList, pass
<1> DEFINE item(p) == IF remote[p].sha = None THEN NoMemory ELSE remote[p]
           goes(p) == p \in todo /\ fscan[p] # baseline'[p] /\ remote[p].sha \in {None, baseline'[p]}
           f == [p \in Paths |-> IF goes(p) THEN [NoUpload EXCEPT !.st = "todo", !.item = item(p)] ELSE NoUpload]
<1>1. /\ UNCHANGED <<fscan, life>> /\ fpc' = "upload" /\ sent' = NoFiles
      /\ baseline' = [p \in Paths |-> IF p \in todo /\ remote[p].sha = fscan[p] THEN fscan[p] ELSE SettleSent[p]]
      /\ up' = [up EXCEPT !["flush"] = f]
      /\ overtaken' = {p \in Paths : remote[p].by = "other" /\ remote[p].sha \notin {None, baseline'[p]}}
  BY <1>t DEF FlushList, FlushEnds, Open
<1>2. \A p \in Paths : /\ ~goes(p) => f[p].st = "none"
                       /\ goes(p) => f[p].st = "todo" /\ f[p].item = item(p)
  BY <1>t DEF Upload, NoUpload
<1> HIDE DEF f
<1>3. \A p \in Paths : up'["flush"][p] = f[p]
  BY <1>t, <1>1 DEF UpTyped
<1>c. fpc' = "upload" /\ life' = life
  BY <1>1
<1>4. ASSUME NEW p \in InUse
      PROVE  WorkOf(p)'
  <2>0. p \in Paths
    BY <1>t
  <2>a. WorkOf(p)
    BY DEF TakenInv, WorkInv
  <2>b. ListTakes(p)
    BY <1>t, <2>a DEF WorkOf, FlushTakes
  <2>c. LateRecords(p) /\ (p \in todo => fscan[p] # None)
    BY <1>t, <2>0 DEF TakenInv, SavedInv, SavingInv, FileInv, BooksInv, FlushIsLate
  <2>d. /\ disk'[p] = disk[p] /\ remote'[p] = remote[p] /\ refused'[p] = refused[p] /\ fscan'[p] = fscan[p]
        /\ sent'[p] = None
    BY <1>t, <1>u, <1>1, <2>0
  <2>e. Refused(p)' <=> Refused(p)
    BY <1>t, <2>d DEF Refused
  <2>f. baseline'[p] = IF p \in todo /\ remote[p].sha = fscan[p] THEN fscan[p] ELSE SettleSent[p]
    BY <1>1, <2>0
  <2>g. p \in overtaken' <=> remote[p].by = "other" /\ remote[p].sha \notin {None, baseline'[p]}
    BY <1>1, <2>0
  <2>h. SettleSent[p] = IF sent[p] # None /\ remote[p].sha = sent[p] THEN sent[p] ELSE baseline[p]
    BY <2>0 DEF SettleSent
  <2>i. baseline'[p] \in {baseline[p], remote[p].sha}
    BY <2>f, <2>h
  <2>j. up'["flush"][p] = f[p]
    BY <1>3, <2>0
  <2>1. StaysSynced(p)' /\ UploadsNews(p)'
    <3>1. disk'[p] = remote'[p].sha => Done(p)'
      BY <1>c DEF Done, Delivered
    <3>2. CASE baseline'[p] = baseline[p]
      BY <1>t, <1>u, <1>c, <2>a, <2>d, <3>2 DEF WorkOf, StaysSynced, UploadsNews, Done
    <3>3. CASE baseline'[p] = remote[p].sha
      <4>1. disk'[p] = baseline'[p] => Done(p)'
        BY <2>d, <3>1, <3>3
      <4>2. UploadsNews(p)'
        BY <1>t, <1>u, <1>c, <2>a, <2>d, <4>1 DEF WorkOf, UploadsNews, Done
      <4> QED
        BY <4>1, <4>2 DEF StaysSynced
    <3> QED
      BY <2>i, <3>2, <3>3
  <2>2. PullsUnsent(p)'
    BY <1>c DEF PullsUnsent
  <2>3. CASE goes(p)
    <3>1. up'["flush"][p].st = "todo" /\ up'["flush"][p].item = item(p)
      BY <1>2, <2>0, <2>j, <2>3
    <3>2. ItemIs(p, up["flush"][p].item)'
      <4>1. remote[p].sha = item(p).sha /\ IF item(p).sha = None THEN item(p).id = 0 ELSE item(p).id = remote[p].id
        BY <1>t
      <4> HIDE DEF item
      <4> QED
        BY <2>d, <3>1, <4>1 DEF ItemIs
    <3>3. UploadTakes(p)'
      BY <3>1, <3>2 DEF UploadTakes
    <3> QED
      BY <1>c, <2>1, <2>2, <3>3 DEF WorkOf, FlushTakes
  <2>4. CASE ~goes(p)
    <3>1. up'["flush"][p].st = "none"
      BY <1>2, <2>0, <2>j, <2>4
    <3>2. ~(p \in todo /\ fscan[p] # baseline'[p] /\ remote[p].sha \in {None, baseline'[p]})
      BY <2>4
    <3> HIDE DEF goes, item
    <3>3. ASSUME p \in todo /\ fscan[p] = remote[p].sha
          PROVE  AtRest(p)' \/ Delivered(p)'
      BY <2>c, <2>d, <3>3 DEF Delivered
    <3>4. ASSUME AtRest(p) /\ ~(p \in todo /\ fscan[p] = remote[p].sha)
          PROVE  AtRest(p)' \/ Delivered(p)'
      <4>1. disk[p] = baseline[p] /\ sent[p] = None => baseline'[p] = baseline[p]
        BY <2>f, <2>h, <3>4
      <4> QED
        BY <2>d, <2>e, <3>4, <4>1 DEF AtRest
    <3>5. ASSUME p \in todo /\ disk[p] = fscan[p] /\ fscan[p] # remote[p].sha
          PROVE  AtRest(p)' \/ Delivered(p)'
      <4>1. CASE fscan[p] = baseline'[p]
        BY <2>d, <3>5, <4>1 DEF AtRest
      <4>2. CASE remote[p].sha \notin {None, baseline'[p]} /\ remote[p].by = "other"
        BY <2>g, <4>2 DEF Delivered
      <4>3. CASE remote[p].sha \notin {None, baseline'[p]} /\ remote[p].by # "other"
        <5>1. Ours(p)
          BY <1>t, <2>0, <4>3 DEF Ours, Memory
        <5>2. remote[p].sha \in {baseline[p], sent[p]}
          BY <1>t, <2>c, <3>5, <5>1 DEF LateRecords, OnRecord
        <5> QED
          BY <2>f, <2>h, <3>5, <4>3, <5>2
      <4> QED
        BY <3>2, <3>5, <4>1, <4>2, <4>3
    <3>6. AtRest(p)' \/ Delivered(p)'
      BY <2>b, <3>3, <3>4, <3>5 DEF ListTakes
    <3>7. UploadTakes(p)'
      BY <3>1, <3>6 DEF UploadTakes, Sending
    <3> QED
      BY <1>c, <2>1, <2>2, <3>7 DEF WorkOf, FlushTakes
  <2> QED
    BY <2>3, <2>4
<1> QED
  BY <1>4

LEMMA FlushStartKeepsWork ==
  ASSUME TakenInv, [Next]_vars, life \in Open, NEW q \in Paths, FlushStart(q)
  PROVE  \A p \in InUse : WorkOf(p)'
<1>t. /\ SyncInv /\ InUse \subseteq Paths /\ at \in Nat /\ "flush" \in Owners /\ "sync" \in Owners
      /\ up["flush"][q].st = "todo" /\ fpc = "upload" /\ Rejected' = Rejected
      /\ UNCHANGED <<disk, remote, baseline, sent, refused, pc, at, scan, listed, next, pulls, life, fpc, fscan, todo>>
  BY SetupStays, Shapes, OpenFacts DEF TakenInv, SavedInv, FlushStart, store, pass, flush, Rejected
<1>u. /\ up'["flush"][q].st = "read" /\ up'["flush"][q].item = up["flush"][q].item
      /\ \A v \in Owners, p \in Paths : v # "flush" \/ p # q => up'[v][p] = up[v][p]
  <2> DEFINE u == [st |-> "read", item |-> up["flush"][q].item, local |-> fscan[q], data |-> None]
  <2>1. UploadIs("flush", q, u) /\ u.st = "read" /\ u.item = up["flush"][q].item
    BY DEF FlushStart, StartUpload, UploadIs
  <2> HIDE DEF u
  <2> QED
    BY <1>t, <2>1, UploadingUpdates
<1>1. ASSUME NEW p \in InUse, p # q
      PROVE  WorkOf(p)'
  <2>1. SameFile(p) /\ SameStage(p)
    BY <1>t, <1>u, <1>1 DEF SameFile, SameStage
  <2> QED
    BY <1>t, <2>1, WorkStays
<1>2. ASSUME q \in InUse
      PROVE  WorkOf(q)'
  <2>0. WorkOf(q)
    BY <1>2 DEF TakenInv, WorkInv
  <2>1. Delivered(q) => Delivered(q)'
    BY <1>t, OvertakenStays DEF Delivered
  <2>2. Done(q) => Done(q)'
    BY <1>t, <2>1 DEF Done, Refused
  <2>3. UploadTakes(q) => UploadTakes(q)'
    BY <1>t, <1>u, <2>1 DEF UploadTakes, Sending, ItemIs
  <2>4. FlushTakes(q)'
    BY <1>t, <2>0, <2>3 DEF WorkOf, FlushTakes
  <2> QED
    BY <1>t, <2>0, <2>2, <2>4 DEF WorkOf, StaysSynced, UploadsNews, PullsUnsent
<1> QED
  BY <1>1, <1>2

\* An answer finds the memory where it was listed, unless others got there first.
LEMMA FlushUploadKeepsWork ==
  ASSUME TakenInv, [Next]_vars, life \in Open, NEW q \in Paths,
         UploadRead("flush", q) \/ UploadAnswered("flush", q) \/ UploadUnanswered("flush", q)
  PROVE  \A p \in InUse : WorkOf(p)'
<1>t. /\ Rejected' = Rejected /\ SavedInv /\ SyncInv /\ BooksInv /\ InUse \subseteq Paths /\ at \in Nat
  BY SetupStays, Shapes DEF TakenInv, SavedInv, Rejected
<1>e. FlushUploads(q) /\ UploadLeaves(q) /\ UNCHANGED <<listed, next, pulls>> /\ \A p \in Paths \ {q} : refused'[p] = refused[p]
  BY <1>t, FlushUploadEffect, FlushUploadIs
<1>s. /\ up["flush"][q].st \in {"read", "sent"}
      /\ UNCHANGED <<disk, pc, at, next, scan, listed, pulls, life, fpc, fscan, todo>>
      /\ \A p \in Paths : up'["sync"][p] = up["sync"][p]
      /\ \A p \in Paths \ {q} : /\ remote'[p] = remote[p] /\ baseline'[p] = baseline[p] /\ sent'[p] = sent[p]
                                /\ up'["flush"][p] = up["flush"][p] /\ refused'[p] = refused[p]
  BY <1>e DEF FlushUploads
<1>l. fpc = "upload" /\ life = "flush"
  <2>1. fpc = "upload"
    BY <1>t, <1>s, OpenFacts
  <2> QED
    BY <1>t, <2>1, OpenFacts
<1>1. ASSUME NEW p \in InUse, p # q
      PROVE  WorkOf(p)'
  <2>1. SameFile(p) /\ SameStage(p)
    BY <1>t, <1>s, <1>1 DEF SameFile, SameStage
  <2> QED
    BY <1>t, <1>s, <2>1, WorkStays
<1>2. ASSUME q \in InUse
      PROVE  WorkOf(q)'
  <2> DEFINE u == up["flush"][q]
             v == up'["flush"][q]
             came == u.st = "sent" /\ remote'[q].sha = u.data
             banned == u.st = "sent" /\ u.data \in Rejected
             same == remote'[q] = remote[q] /\ baseline'[q] = baseline[q]
  <2>0. WorkOf(q) /\ remote[q].id # 0 /\ (u.st = "sent" => u.data # None /\ u.data \in {fscan[q], disk[q]})
    <3>1. WorkOf(q)
      BY <1>2 DEF TakenInv, WorkInv
    <3>2. EntryLimits(q) /\ FileInv(q)
      BY <1>t, <1>2 DEF SavedInv, SavingInv, Limits
    <3> QED
      BY <1>l, <3>1, <3>2 DEF EntryLimits, FileInv, FlushReads, Owners
  <2>1. UploadTakes(q)
    BY <1>l, <2>0 DEF WorkOf, FlushTakes
  <2>2. disk'[q] = disk[q] /\ fscan'[q] = fscan[q] /\ overtaken \subseteq overtaken'
    BY <1>s, <1>l, OvertakenStays
  <2>3. came => Delivered(q)'
    BY <2>0, <2>2 DEF Delivered
  <2>4. Delivered(q) /\ remote'[q] = remote[q] => Delivered(q)'
    BY <2>2 DEF Delivered
  <2>5. banned /\ remote'[q] = remote[q] => Refused(q)' \/ Delivered(q)' \/ disk[q] = None
    BY <1>t, <2>1, <2>2, <2>4 DEF UploadTakes, Refused
  <2>6. came \/ (same /\ (refused'[q] = refused[q] \/ banned))
    BY <1>e DEF UploadLeaves
  <2>7. Done(q) => Done(q)' \/ disk[q] = None
    <3>1. Refused(q) /\ refused'[q] = refused[q] => Refused(q)'
      BY <1>t, <2>2 DEF Refused
    <3> QED
      BY <1>s, <1>l, <2>3, <2>4, <2>5, <2>6, <3>1 DEF Done
  <2>8. came \/ banned => Done(q)' \/ disk[q] = None
    BY <1>s, <1>l, <2>3, <2>5, <2>6 DEF Done
  <2>9. StaysSynced(q)' /\ UploadsNews(q)' /\ PullsUnsent(q)'
    BY <1>s, <1>l, <2>0, <2>2, <2>6, <2>7, <2>8 DEF WorkOf, StaysSynced, UploadsNews, PullsUnsent
  <2>10. UploadTakes(q)'
    <3>1. CASE disk[q] = None
      BY <1>e, <2>2, <3>1 DEF UploadTakes, AtRest
    <3>2. CASE Delivered(q)'
      BY <3>2 DEF UploadTakes
    <3>3. CASE same /\ v.st = "sent" /\ v.data = disk[q] /\ v.item = u.item
      BY <1>s, <2>1, <2>2, <2>4, <3>3 DEF UploadTakes, Sending, ItemIs
    <3>4. CASE same /\ banned /\ v.st = "none"
      BY <2>2, <2>5, <3>4 DEF UploadTakes, Sending, AtRest
    <3>5. CASE u.st = "sent" /\ same /\ u.data \notin Rejected /\ (NotFound(q, u.item) \/ ~Applies(q, u.item, u.data))
      <4>1. ~ItemIs(q, u.item)
        BY <2>0, <3>5 DEF ItemIs, NotFound, Applies
      <4>2. Delivered(q) \/ disk[q] = None
        BY <2>1, <3>5, <4>1 DEF UploadTakes, Sending
      <4> QED
        BY <2>4, <3>1, <3>2, <3>5, <4>2
    <3>6. CASE v.st = "lost"
      BY <3>6 DEF UploadTakes, Sending
    <3> QED
      BY <1>e, <2>3, <3>1, <3>2, <3>3, <3>4, <3>5, <3>6 DEF UploadLeaves
  <2> QED
    BY <1>s, <1>l, <2>9, <2>10 DEF WorkOf, FlushTakes
<1> QED
  BY <1>1, <1>2

LEMMA TeardownKeepsWork ==
  ASSUME TakenInv, [Next]_vars, life \in Open, life' \in Open, Teardown
  PROVE  \A p \in InUse : WorkOf(p)'
<1>1. CASE FlushDone \/ FlushCutOff \/ Dispose
  <2>1. life' \notin Late \/ (FlushDone /\ life # "flush")
    BY <1>1 DEF FlushDone, FlushEnds, FlushCutOff, Dispose, Late
  <2>2. FlushDone => life = "flush"
    BY OpenFacts DEF TakenInv, FlushDone
  <2> QED
    BY <2>1, <2>2, NotLate
<1> QED
  BY <1>1, BeginKeepsWork, FlushScanKeepsWork, FlushListKeepsWork, FlushStartKeepsWork DEF Teardown

LEMMA InitWork == Init => WorkInv
<1>1. Init => life \notin Late
  BY DEF Init, Late
<1> QED
  BY <1>1 DEF WorkInv, WorkOf, StaysSynced, UploadsNews, PullsUnsent, FlushTakes, Late

LEMMA StepWork == TakenInv /\ [Next]_vars => WorkInv'
<1> SUFFICES ASSUME TakenInv, [Next]_vars
             PROVE  WorkInv'
  OBVIOUS
<1>0. SavedInv /\ SyncInv /\ BooksInv /\ InUse' = InUse
  BY SetupStays DEF TakenInv, SavedInv, InUse
<1>1. CASE life' \notin Open
  BY <1>0, <1>1, NotLate DEF Late, Open, WorkInv
<1>2. CASE life' \in Open /\ ~UNCHANGED vars
  <2>1. life \in Open
    BY <1>0, <1>2, OpenBefore
  <2>2. ASSUME \E o \in Owners : UploadStep(o)
        PROVE  \A p \in InUse : WorkOf(p)'
    <3>1. CASE UploadStep("sync")
      BY <2>1, <3>1, PathKeepsWork
    <3>2. CASE UploadStep("flush")
      BY <2>1, <3>2, FlushUploadKeepsWork DEF UploadStep
    <3> QED
      BY <2>2, <3>1, <3>2 DEF Owners
  <2>3. \A p \in InUse : WorkOf(p)'
    BY <1>2, <2>1, <2>2, BeginKeepsWork, SyncKeepsWork, OutsidersKeepWork, TeardownKeepsWork DEF Next
  <2> QED
    BY <1>0, <2>3 DEF WorkInv
<1>3. CASE UNCHANGED vars
  <2>1. \A p \in InUse : WorkOf(p)'
    BY <1>3 DEF TakenInv, WorkInv, vars, store, pass, flush, ghosts, WorkOf, StaysSynced, UploadsNews, PullsUnsent,
       FlushTakes, ListTakes, UploadTakes, Sending, ItemIs, AtRest, Delivered, Done, Refused, Rejected
  <2> QED
    BY <1>0, <2>1 DEF WorkInv
<1> QED
  BY <1>1, <1>2, <1>3

LEMMA FlushEndSaves ==
  ASSUME TakenInv, [Next]_vars, fpc' = "done", fpc \in {"scan", "upload"}, ~cut, folder = "ours", ~setup.readOnly,
         NEW p \in Paths
  PROVE  Saved(p) \/ up["flush"][p].st = "lost"
<1>t. /\ SavedInv /\ SyncInv /\ BooksInv /\ life = "flush" /\ life \in Late /\ EntryLimits(p) /\ "flush" \in Owners
      /\ remote \in [Paths -> Memory]
  BY Shapes DEF TakenInv, SavedInv, SavingInv, Limits, FlushTime, Late
<1>o. SavedIfOurs(p) => Saved(p) \/ remote[p].by = "other"
  BY DEF SavedIfOurs, Saved
<1>1. CASE p \notin InUse
  BY <1>t, <1>1 DEF EntryLimits, Saved
<1>2. CASE p \in InUse /\ fpc = "scan"
  <2>1. Dirty(disk) = {}
    <3>1. CASE FlushScan
      BY <3>1 DEF FlushScan
    <3> QED
      BY <1>t, <1>2, <3>1, FlushMoves
  <2>2. SavedIfOurs(p)
    BY <1>t, <1>2, <2>1, CleanIsSaved DEF SavedIfOurs
  <2>3. disk[p] = None \/ Refused(p) \/ disk[p] = baseline[p]
    BY <1>t, <2>1 DEF Dirty, Present, EntryLimits, Refused
  <2> QED
    BY <1>o, <2>2, <2>3 DEF Saved
<1>3. CASE p \in InUse /\ fpc = "upload"
  <2>1. up["flush"][p].st \in {"none", "lost"}
    <3>1. CASE FlushDone
      BY <3>1 DEF FlushDone
    <3> QED
      BY <1>t, <1>3, <3>1, FlushMoves
  <2>2. SavedIfOurs(p) \/ up["flush"][p].st = "lost"
    BY <1>t, <1>3, <2>1 DEF SavedInv, SavingInv, FileInv, FlushWorks, Underway
  <2>3. up["flush"][p].st = "none" => AtRest(p) \/ Delivered(p)
    BY <1>t, <1>3 DEF TakenInv, WorkInv, WorkOf, FlushTakes, UploadTakes
  <2> QED
    BY <1>o, <2>1, <2>2, <2>3 DEF AtRest, Delivered, Saved
<1> QED
  BY <1>1, <1>2, <1>3

(* Whatever the passes before it left undone, and beside one that still     *)
(* runs, a flush that is not cut off leaves no work of the session unsaved, *)
(* be it new, changed since the download, or changed again since an upload. *)
THEOREM FlushSavesTheWork == Spec => FlushedWorkIsSaved
<1>1. TakenInv /\ [Next]_vars
        => [fpc' = "done" /\ fpc \in {"scan", "upload"} /\ ~cut /\ folder = "ours" /\ ~setup.readOnly
              => \A p \in Paths : Saved(p) \/ up["flush"][p].st = "lost"]_vars
  BY FlushEndSaves
<1> QED
  BY <1>1, InitInv, StepInv, InitBooks, StepBooks, InitSaving, StepSaving, InitWork, StepWork, PTL
     DEF Spec, SavedInv, TakenInv, FlushedWorkIsSaved

===============================================================================
