------------------------------ MODULE MemorySync ------------------------------
(***************************************************************************)
(* One memory store of a session: the folder the agent works in, the store *)
(* on the server that other clients write too, and the code that keeps the *)
(* two in step (SessionMemoryStores in src/tools/agent-toolset/memories.ts *)
(* over FileStore), driven by a worker: a download, a sync after a tool    *)
(* call, then the teardown: a last sync after a clean end, a flush, and    *)
(* the removal of the folder, each of the first two cut off when it takes  *)
(* too long.  A sync that was cut off goes on beside the flush.            *)
(*                                                                         *)
(* A content stands for itself and for its sha.  Check-then-act pairs of   *)
(* the file store (scan, hash and unlink) are single steps: file-store.ts  *)
(* puts races with its own syscalls out of scope.  Everything between two  *)
(* requests to the server interleaves with the agent and other clients.    *)
(***************************************************************************)
EXTENDS Integers, FiniteSets

CONSTANTS
  NPaths,      \* at most this many files: a sync visits them in the order of their names
  Contents,    \* what a file or a memory can hold
  Original,    \* what a memory holds when the session starts
  None,        \* no file, no memory, no entry
  Setups,      \* what a session may run with, and how much may happen in it
  CapFloor,    \* DELETE_CAP_FLOOR
  CapCeiling   \* DELETE_CAP_CEILING

Paths == 1..NPaths
Contents0 == Contents \cup {None}
Modes == {"enabled", "log_only", "disabled"}
\* A session uses the names 1..files and finds memories at `start`; `rejected` are the contents that the server refuses (too large, invalid);
\* `edits`, `others` and `faults` bound how often the agent changes the folder,
\* how often other clients change the store, and how many requests or writes fail.
Setups0 == [readOnly : BOOLEAN, mode : Modes, rejected : SUBSET Contents, files : Paths, start : SUBSET Paths,
            edits : Nat, others : Nat, faults : Nat]

ASSUME MemoryAssumption ==
  /\ NPaths \in Nat \ {0} /\ Original \in Contents /\ None \notin Contents
  /\ Setups \subseteq Setups0 /\ \A s \in Setups : Original \notin s.rejected /\ s.start \subseteq 1..s.files
  /\ {CapFloor, CapCeiling} \subseteq Nat

VARIABLES
  \* The folder and the server.
  disk,      \* the content of each file
  folder,    \* "ours" (our marker is in it), "bare", "alien" (another store's marker), "none"
  remote,    \* each memory: its id, its content, and who wrote it: this session since it
             \* last stamped its folder, as far as its records reach, or anyone else
  \* What SessionMemoryStores keeps for the store (AttachedStore).
  setup, baseline, refused, pending, sent,
  \* The pass of #syncStore that runs, and its locals.
  pc, final, scan, listed, at, next, pulls, attempted,
  \* The flush, and the worker.
  fpc, fscan, todo, cut, life,
  up,        \* the uploads in progress, of the sync and of the flush
  \* What is left of the bounds, and history that only properties read.
  edits, others, faults, held, removed, overtaken

store == <<baseline, refused, pending, sent>>
pass == <<pc, final, scan, listed, at, next, pulls, attempted>>
flush == <<fpc, fscan, todo, cut>>
budgets == <<edits, others, faults>>
ghosts == <<held, removed, overtaken>>
vars == <<disk, folder, remote, setup, store, pass, flush, life, up, budgets, ghosts>>

Owners == {"sync", "flush"}
NoMemory == [id |-> 0, sha |-> None, by |-> "other"]
NoUpload == [st |-> "none", item |-> NoMemory, local |-> None, data |-> None]
NoFiles == [p \in Paths |-> None]
NoMemories == [p \in Paths |-> NoMemory]

Rejected == setup.rejected
InUse == 1..setup.files
Present(files) == {p \in Paths : files[p] # None}
Fault == faults > 0 /\ faults' = faults - 1
NoFault == UNCHANGED faults

(***************************************************************************)
(* Bookkeeping of the properties: what each file ever held, and how a      *)
(* missing file went missing: "gone" by itself, "midpass" in a wipe that   *)
(* landed inside a pass, "kept" when it is there or went in another wipe;  *)
(* and the memories that the flush may leave alone: its listing shows a    *)
(* content of other clients there that is not the one last synced, or they *)
(* have changed it after the listing.                                      *)
(***************************************************************************)
Wrote(p) ==
  /\ held' = [held EXCEPT ![p] = @ \cup ({disk'[p]} \ {None})]
  /\ removed' = [removed EXCEPT ![p] = "kept"]
  /\ UNCHANGED overtaken

Init ==
  /\ disk = NoFiles /\ folder \in {"none", "bare"}
  /\ setup \in Setups
  /\ remote = [p \in Paths |-> [id |-> 1, sha |-> IF p \in setup.start THEN Original ELSE None, by |-> "other"]]
  /\ baseline = NoFiles /\ refused = NoFiles /\ sent = NoFiles
  /\ pending = [p \in Paths |-> "no"]
  /\ pc = "open" /\ final = FALSE /\ scan = NoFiles /\ listed = NoMemories /\ at = 1
  /\ next = NoFiles /\ pulls = {} /\ attempted = 0
  /\ fpc = "off" /\ fscan = NoFiles /\ todo = {} /\ cut = FALSE /\ life = "download"
  /\ up = [o \in Owners |-> [p \in Paths |-> NoUpload]]
  /\ edits = setup.edits /\ others = setup.others /\ faults = setup.faults
  /\ held = [p \in Paths |-> {}] /\ removed = [p \in Paths |-> "kept"] /\ overtaken = {}

(***************************************************************************)
(* The agent: its tools and whatever they left running change the folder   *)
(* at any time until the tools are closed.                                 *)
(***************************************************************************)
AgentActs == life = "running" /\ edits > 0 /\ edits' = edits - 1
AgentLeaves == UNCHANGED <<remote, setup, store, pass, flush, life, up, others, faults, overtaken>>

Edit(p) ==
  /\ AgentActs /\ AgentLeaves
  /\ \E c \in Contents \ {disk[p]} : disk' = [disk EXCEPT ![p] = c]
  /\ folder' = IF folder = "none" THEN "bare" ELSE folder
  /\ held' = [held EXCEPT ![p] = @ \cup {disk'[p]}]
  \* files that are missing beside a written one are no longer a wiped folder
  /\ removed' = [q \in Paths |-> IF q # p /\ disk[q] = None THEN "gone" ELSE "kept"]

Remove(p) ==
  /\ AgentActs /\ AgentLeaves /\ disk[p] # None
  /\ disk' = [disk EXCEPT ![p] = None]
  /\ removed' = [removed EXCEPT ![p] = "gone"]
  /\ UNCHANGED <<folder, held>>

\* "A lone file vanishing is an ordinary deletion": a wipe is one when at most
\* one of the files it took is still a memory that this session synced.
Synced(ps, mem) == {p \in ps : mem[p].sha # None /\ (baseline[p] # None \/ sent[p] = mem[p].sha)}
WipeFiles ==
  /\ AgentActs /\ AgentLeaves /\ Present(disk) # {}
  /\ disk' = NoFiles
  /\ removed' = [p \in Paths |->
       CASE disk[p] = None -> removed[p]
         [] disk[p] # None /\ Cardinality(Synced(Present(disk), remote)) <= 1 -> "gone"
         [] OTHER -> IF pc \in {"idle", "scan"} THEN "kept" ELSE "midpass"]
  /\ UNCHANGED <<folder, held>>

WipeFolder ==
  /\ AgentActs /\ AgentLeaves /\ folder # "none"
  /\ disk' = NoFiles /\ folder' = "none"
  /\ UNCHANGED ghosts

SwapFolder ==
  /\ AgentActs /\ AgentLeaves /\ folder = "ours"
  /\ folder' \in {"alien", "bare"}
  /\ UNCHANGED <<disk, ghosts>>

(***************************************************************************)
(* Other clients of the store, as long as this session can notice.         *)
(***************************************************************************)
OtherClient(p) ==
  /\ life \in {"disposed", "failed"} => pc # "idle"
  /\ others > 0 /\ others' = others - 1
  /\ \E c \in (Contents0 \ Rejected) \ {remote[p].sha} :
       remote' = [remote EXCEPT ![p] =
         [id |-> IF @.sha = None THEN @.id + 1 ELSE @.id, sha |-> c, by |-> "other"]]
  /\ LET wiped == {q \in Paths : disk[q] = None /\ removed[q] # "gone"}
     IN  removed' = [q \in Paths |-> IF q \in wiped /\ Cardinality(Synced(wiped, remote')) <= 1
                                     THEN "gone" ELSE removed[q]]
  /\ overtaken' = IF fpc = "upload" THEN overtaken \cup {p} ELSE overtaken
  /\ UNCHANGED <<disk, folder, setup, store, pass, flush, life, up, edits, faults, held>>

(***************************************************************************)
(* A sync pass: how it begins, and how it ends.                            *)
(***************************************************************************)
EndPass ==
  /\ pc' = "idle" /\ final' = FALSE /\ scan' = NoFiles /\ listed' = NoMemories /\ at' = 1
  /\ next' = NoFiles /\ pulls' = {} /\ attempted' = 0
  /\ IF life = "finish" THEN life' = "flush" /\ fpc' = "scan" ELSE UNCHANGED <<life, fpc>>

SyncIfDue ==
  /\ life = "running" /\ pc = "idle" /\ pc' = "scan"
  /\ UNCHANGED <<disk, folder, remote, setup, store, final, scan, listed, at, next, pulls, attempted,
                 flush, life, up, budgets, ghosts>>

Finish ==
  /\ life = "running" /\ pc = "idle"
  /\ life' = "finish" /\ pc' = "scan" /\ final' = TRUE
  /\ UNCHANGED <<disk, folder, remote, setup, store, scan, listed, at, next, pulls, attempted,
                 flush, up, budgets, ghosts>>

RunFails ==
  /\ life = "running" /\ pc = "idle"
  /\ life' = "flush" /\ fpc' = "scan"
  /\ UNCHANGED <<disk, folder, remote, setup, store, pass, fscan, todo, cut, up, budgets, ghosts>>

\* The marker and the files come from one scan.
Scan ==
  /\ pc = "scan"
  /\ CASE folder = "ours" -> pc' = "list" /\ scan' = disk
            /\ UNCHANGED <<final, listed, at, next, pulls, attempted, life, fpc>>
       [] folder # "ours" /\ Present(disk) = {} -> pc' = "open"
            /\ UNCHANGED <<final, scan, listed, at, next, pulls, attempted, life, fpc>>
       [] OTHER -> EndPass
  /\ UNCHANGED <<disk, folder, remote, setup, store, fscan, todo, cut, up, budgets, ghosts>>

\* Variant: the records are dropped unsettled.
SettleNone == baseline
\* Variant: any memory at a path with a record is taken for the upload.
SettleAny == [p \in Paths |-> IF sent[p] # None /\ remote[p].sha # None THEN remote[p].sha ELSE baseline[p]]
SettleSent == [p \in Paths |-> IF sent[p] # None /\ remote[p].sha = sent[p] THEN sent[p] ELSE baseline[p]]

\* Variant: nothing is known of a wipe that left the marker.
ListTrusting ==
  /\ pc = "list"
  /\ listed' = remote /\ baseline' = SettleSent /\ sent' = NoFiles /\ pc' = "path"
  /\ UNCHANGED <<disk, folder, remote, setup, refused, pending, final, scan, at, next, pulls, attempted,
                 flush, life, up, budgets, ghosts>>

List ==
  /\ pc = "list"
  /\ listed' = remote /\ baseline' = SettleSent /\ sent' = NoFiles
  /\ pc' = IF Present(scan) = {} /\ Cardinality(Present(SettleSent)) > 1 THEN "open" ELSE "path"
  /\ UNCHANGED <<disk, folder, remote, setup, refused, pending, final, scan, at, next, pulls, attempted,
                 flush, life, up, budgets, ghosts>>

ListFails ==
  /\ pc = "list" /\ Fault /\ EndPass
  /\ UNCHANGED <<disk, folder, remote, setup, store, fscan, todo, cut, up, edits, others, ghosts>>

(***************************************************************************)
(* One path at a time: #syncPath and #corroboratedDelete.  The sha that a  *)
(* path keeps enters the new baseline, None drops it.                      *)
(***************************************************************************)
Local == scan[at]
Base == baseline[at]
Item == listed[at]
AtPath == pc = "path" /\ at \in InUse
Keep(sha) ==
  /\ next' = [next EXCEPT ![at] = sha] /\ at' = at + 1 /\ pc' = "path"
  /\ UNCHANGED <<final, scan, listed, attempted>>
Seen == pending' = IF Local # None THEN [pending EXCEPT ![at] = "no"] ELSE pending
Forget == pending' = [pending EXCEPT ![at] = "no"]

Deleted == Local = None /\ Base # None /\ Item.sha = Base /\ ~setup.readOnly

\* Still waiting, or not to be deleted at all.
HoldDelete ==
  /\ AtPath /\ Deleted
  /\ setup.mode = "disabled" \/ (~final /\ pending[at] # "old")
  /\ pending' = IF setup.mode # "disabled" /\ pending[at] = "no"
                  THEN [pending EXCEPT ![at] = "young"] ELSE pending
  /\ Keep(Base)
  /\ UNCHANGED <<disk, folder, remote, setup, baseline, refused, sent, pulls, flush, life, up, budgets, ghosts>>

AskDelete ==
  /\ AtPath /\ Deleted
  /\ setup.mode # "disabled" /\ (final \/ pending[at] = "old")
  /\ pending' = [pending EXCEPT ![at] = IF @ = "no" THEN "young" ELSE @]
  /\ pc' = "confirm"
  /\ UNCHANGED <<disk, folder, remote, setup, baseline, refused, sent, final, scan, listed, at, next, pulls,
                 attempted, flush, life, up, budgets, ghosts>>

Larger(a, b) == IF a > b THEN a ELSE b
Cap == Larger(CapFloor, LET quarter == Cardinality(Present(baseline)) \div 4
                        IN  IF quarter < CapCeiling THEN quarter ELSE CapCeiling)

\* The fresh look at the folder before a delete goes out.
Confirm ==
  /\ pc = "confirm"
  /\ \/ folder # "ours" /\ Keep(Base) /\ UNCHANGED pending
     \/ folder = "ours" /\ disk[at] # None /\ Keep(Base) /\ Forget
     \/ folder = "ours" /\ disk[at] = None /\ attempted >= Cap /\ Keep(Base) /\ UNCHANGED pending
     \/ /\ folder = "ours" /\ disk[at] = None /\ attempted < Cap
        /\ attempted' = attempted + 1
        /\ IF setup.mode = "log_only"
             THEN next' = [next EXCEPT ![at] = Base] /\ at' = at + 1 /\ pc' = "path"
             ELSE pc' = "delete" /\ UNCHANGED <<next, at>>
        /\ UNCHANGED <<pending, final, scan, listed>>
  /\ UNCHANGED <<disk, folder, remote, setup, baseline, refused, sent, pulls, flush, life, up, budgets, ghosts>>

\* The server deletes by id, under the condition expected_content_sha256.
DeleteApplies == remote[at].id = Item.id /\ remote[at].sha = Base
DeletedRemotely == remote' = [remote EXCEPT ![at] = [@ EXCEPT !.sha = None, !.by = "us"]]

DeleteAnswered ==
  /\ pc = "delete"
  /\ IF DeleteApplies THEN DeletedRemotely ELSE UNCHANGED remote
  /\ IF remote[at].id = Item.id /\ remote[at].sha \notin {Base, None}
       THEN Keep(Base) /\ UNCHANGED pending
       ELSE Keep(None) /\ Forget
  /\ UNCHANGED <<disk, folder, setup, baseline, refused, sent, pulls, flush, life, up, budgets, ghosts>>

DeleteUnanswered ==
  /\ pc = "delete" /\ Fault
  /\ \/ DeleteApplies /\ DeletedRemotely
     \/ UNCHANGED remote
  /\ Keep(Base)
  /\ UNCHANGED <<disk, folder, setup, baseline, refused, sent, pending, pulls, flush, life, up, edits, others,
                 ghosts>>

\* Neither side has the file any more.
GoneOnBothSides ==
  /\ AtPath /\ Item.sha = None /\ Local = None
  /\ Keep(None) /\ Forget
  /\ UNCHANGED <<disk, folder, remote, setup, baseline, refused, sent, pulls, flush, life, up, budgets, ghosts>>

\* The upload of a file, as a sync (which waits for it) or a flush starts it.
StartUpload(o, p, local, item) ==
  up' = [up EXCEPT ![o][p] = [st |-> "read", item |-> item, local |-> local, data |-> None]]

\* A file that the server does not have is pushed, kept back, or was refused.
Push(local) ==
  IF setup.readOnly \/ refused[at] = local
    THEN Keep(None) /\ UNCHANGED up
    ELSE /\ StartUpload("sync", at, local, NoMemory) /\ pc' = "upload"
         /\ UNCHANGED <<final, scan, listed, at, next, attempted>>

\* Deleted remotely: the file goes, if it still is what was synced.
RemoveLocal ==
  /\ AtPath /\ Item.sha = None /\ Local # None /\ Local = Base /\ Seen
  /\ \/ /\ disk[at] \in {None, Base} /\ NoFault
        /\ disk' = [disk EXCEPT ![at] = None]
        /\ removed' = IF disk[at] = None THEN removed ELSE [removed EXCEPT ![at] = "kept"]
        /\ Keep(None) /\ UNCHANGED up
     \/ /\ disk[at] \notin {None, Base} /\ NoFault
        /\ Push(disk[at]) /\ UNCHANGED <<disk, removed>>
     \/ /\ Fault /\ Keep(Base) /\ UNCHANGED <<disk, removed, up>>
  /\ UNCHANGED <<folder, remote, setup, baseline, refused, sent, pulls, flush, life, edits, others, held,
                 overtaken>>

PushNew ==
  /\ AtPath /\ Item.sha = None /\ Local # None /\ Local # Base /\ Seen
  /\ Push(Local)
  /\ UNCHANGED <<disk, folder, remote, setup, baseline, refused, sent, pulls, flush, life, budgets, ghosts>>

RemoteChanged == Item.sha # None /\ Item.sha # Base

\* The server's version wins, whatever the file holds; #pullAll fetches it.
Pull ==
  /\ AtPath /\ RemoteChanged /\ Local # Item.sha
  /\ pulls' = pulls \cup {at} /\ Keep(Base)
  /\ IF Local = None /\ Base # None THEN Forget ELSE Seen
  /\ UNCHANGED <<disk, folder, remote, setup, baseline, refused, sent, flush, life, up, budgets, ghosts>>

Adopt ==
  /\ AtPath /\ RemoteChanged /\ Local = Item.sha
  /\ Keep(Item.sha) /\ Seen
  /\ UNCHANGED <<disk, folder, remote, setup, baseline, refused, sent, pulls, flush, life, up, budgets, ghosts>>

LocalChanged == ~setup.readOnly /\ Local \notin {None, Base}

PushChange ==
  /\ AtPath /\ Item.sha # None /\ ~RemoteChanged /\ LocalChanged /\ refused[at] # Local
  /\ Seen /\ StartUpload("sync", at, Local, Item) /\ pc' = "upload"
  /\ UNCHANGED <<disk, folder, remote, setup, baseline, refused, sent, final, scan, listed, at, next, pulls,
                 attempted, flush, life, budgets, ghosts>>

InStep ==
  /\ AtPath /\ Item.sha # None /\ ~RemoteChanged /\ (~LocalChanged \/ refused[at] = Local)
  /\ ~Deleted /\ Seen
  /\ Keep(Item.sha)
  /\ UNCHANGED <<disk, folder, remote, setup, baseline, refused, sent, pulls, flush, life, up, budgets, ghosts>>

PathsDone ==
  /\ pc = "path" /\ at \notin InUse
  /\ baseline' = next /\ pc' = "pull"
  /\ UNCHANGED <<disk, folder, remote, setup, refused, pending, sent, final, scan, listed, at, next, pulls,
                 attempted, flush, life, up, budgets, ghosts>>

(***************************************************************************)
(* The content pass: fetch by id and write, several at once.               *)
(***************************************************************************)
PullFinds(p) == remote[p].id = listed[p].id /\ remote[p].sha # None

PullWrites(p) ==
  /\ pc = "pull" /\ p \in pulls /\ PullFinds(p) /\ folder # "none"
  /\ pulls' = pulls \ {p}
  /\ disk' = [disk EXCEPT ![p] = remote[p].sha]
  /\ baseline' = [baseline EXCEPT ![p] = remote[p].sha]
  /\ Wrote(p)
  /\ UNCHANGED <<folder, remote, setup, refused, pending, sent, pc, final, scan, listed, at, next, attempted,
                 flush, life, up, budgets>>

\* A memory that is gone, a folder that is gone, a failed fetch or write.
PullSkips(p) ==
  /\ pc = "pull" /\ p \in pulls
  /\ \/ (~PullFinds(p) \/ folder = "none") /\ NoFault
     \/ Fault
  /\ pulls' = pulls \ {p}
  /\ UNCHANGED <<disk, folder, remote, setup, store, pc, final, scan, listed, at, next, attempted, flush, life,
                 up, edits, others, ghosts>>

PullsDone ==
  /\ pc = "pull" /\ pulls = {}
  /\ EndPass
  /\ UNCHANGED <<disk, folder, remote, setup, store, fscan, todo, cut, up, budgets, ghosts>>

(***************************************************************************)
(* #upload.  The record is made before the request goes out, so that an    *)
(* answer that never arrives leaves it for the next listing.               *)
(***************************************************************************)
\* Variant: the sync forgets to take its upload off.
UploadEndsLeftOver(o, p, sha) ==
  IF o = "sync"
    THEN Keep(IF sha # None THEN sha ELSE Item.sha) /\ UNCHANGED <<baseline, up>>
    ELSE /\ up' = [up EXCEPT ![o][p] = NoUpload]
         /\ baseline' = IF sha # None THEN [baseline EXCEPT ![p] = sha] ELSE baseline
         /\ UNCHANGED <<pc, final, scan, listed, at, next, attempted>>

UploadEnds(o, p, sha) ==
  /\ up' = [up EXCEPT ![o][p] = NoUpload]
  /\ IF o = "sync"
       THEN /\ Keep(IF sha # None THEN sha ELSE Item.sha)
            /\ UNCHANGED baseline
       ELSE /\ baseline' = IF sha # None THEN [baseline EXCEPT ![p] = sha] ELSE baseline
            /\ UNCHANGED <<pc, final, scan, listed, at, next, attempted>>

UploadRead(o, p) ==
  /\ up[o][p].st = "read"
  /\ IF disk[p] = None
       THEN UploadEnds(o, p, None) /\ UNCHANGED sent
       ELSE /\ sent' = [sent EXCEPT ![p] = disk[p]]
            /\ up' = [up EXCEPT ![o][p].st = "sent", ![o][p].data = disk[p]]
            /\ UNCHANGED <<baseline, pc, final, scan, listed, at, next, attempted>>
  /\ UNCHANGED <<disk, folder, remote, setup, refused, pending, pulls, flush, life, budgets, ghosts>>

\* The server: an update by id under a precondition on the content, which a
\* memory with the requested content meets too; a create of a free path.
NotFound(p, item) == item.id # 0 /\ (remote[p].id # item.id \/ remote[p].sha = None)
Applies(p, item, data) ==
  /\ data \notin Rejected
  /\ IF item.id = 0 THEN remote[p].sha = None
                    ELSE ~NotFound(p, item) /\ remote[p].sha \in {item.sha, data}
Uploaded(p, data) ==
  remote' = IF remote[p].sha = data THEN remote
            ELSE [remote EXCEPT ![p] =
                   [id |-> IF @.sha = None THEN @.id + 1 ELSE @.id, sha |-> data, by |-> "us"]]

UploadAnswered(o, p) ==
  LET u == up[o][p] IN
  /\ u.st = "sent"
  /\ \/ /\ Applies(p, u.item, u.data) /\ Uploaded(p, u.data)
        /\ refused' = [refused EXCEPT ![p] = None] /\ sent' = [sent EXCEPT ![p] = None]
        /\ UploadEnds(o, p, u.data)
     \/ /\ u.data \in Rejected
        /\ refused' = [refused EXCEPT ![p] = u.local]
        /\ UploadEnds(o, p, None) /\ UNCHANGED <<remote, sent>>
     \/ /\ u.data \notin Rejected /\ NotFound(p, u.item)
        /\ StartUpload(o, p, u.local, NoMemory)
        /\ UNCHANGED <<remote, refused, sent, baseline, pc, final, scan, listed, at, next, attempted>>
     \/ /\ u.data \notin Rejected /\ ~NotFound(p, u.item) /\ ~Applies(p, u.item, u.data)
        /\ UploadEnds(o, p, None) /\ UNCHANGED <<remote, refused, sent>>
  /\ UNCHANGED <<disk, folder, setup, pending, pulls, flush, life, budgets, ghosts>>

\* The request fails for the client, whether or not the server saved it (a
\* retry of the client that is refused after all ends the same way).
\* As UploadEnds(o, p, None); what a flush lost is remembered for its property.
UploadLost(o, p) ==
  /\ up' = [up EXCEPT ![o][p] = [NoUpload EXCEPT !.st = IF o = "flush" THEN "lost" ELSE "none"]]
  /\ UNCHANGED baseline
  /\ IF o = "sync" THEN Keep(Item.sha) ELSE UNCHANGED <<pc, final, scan, listed, at, next, attempted>>

\* Variant: any failure enters refusedShas.
UploadFailureRefuses(o, p) ==
  LET u == up[o][p] IN
  /\ u.st = "sent" /\ Fault
  /\ \/ Applies(p, u.item, u.data) /\ Uploaded(p, u.data)
     \/ UNCHANGED remote
  /\ refused' = [refused EXCEPT ![p] = u.local]
  /\ UploadLost(o, p)
  /\ UNCHANGED <<disk, folder, setup, pending, sent, pulls, flush, life, edits, others, ghosts>>

UploadUnanswered(o, p) ==
  LET u == up[o][p] IN
  /\ u.st = "sent" /\ Fault
  /\ \/ Applies(p, u.item, u.data) /\ Uploaded(p, u.data)
     \/ UNCHANGED remote
  /\ UploadLost(o, p)
  /\ UNCHANGED <<disk, folder, setup, refused, pending, sent, pulls, flush, life, edits, others, ghosts>>

(***************************************************************************)
(* #stampAndPull, for the download and for a folder that was destroyed.    *)
(***************************************************************************)
\* A session whose store cannot be materialised fails; what was made goes.
DownloadFails ==
  /\ life' = "failed" /\ pc' = "idle" /\ scan' = NoFiles /\ listed' = NoMemories /\ at' = 1
  /\ disk' = NoFiles /\ folder' = "none"
  /\ UNCHANGED <<final, next, pulls, attempted, fpc>>
PassFails == EndPass /\ UNCHANGED disk

\* open() refuses a folder that exists: a dead run's, or somebody else's.
RefuseFolder ==
  /\ pc = "open" /\ life = "download" /\ folder # "none"
  /\ life' = "failed" /\ pc' = "idle"
  /\ UNCHANGED <<disk, folder, remote, setup, store, final, scan, listed, at, next, pulls, attempted, flush, up,
                 budgets, ghosts>>

\* The records are cleared first: they no longer tell what the session wrote
\* before from what others wrote.
Stamp ==
  /\ pc = "open" /\ (life = "download" => folder = "none")
  /\ baseline' = NoFiles /\ sent' = NoFiles /\ pending' = [p \in Paths |-> "no"]
  /\ remote' = [p \in Paths |-> [remote[p] EXCEPT !.by = "other"]]
  /\ \/ /\ folder' = "ours" /\ pc' = "full" /\ NoFault
        /\ removed' = [p \in Paths |-> "kept"]
        /\ UNCHANGED <<disk, final, scan, listed, at, next, pulls, attempted, life, fpc>>
     \/ /\ Fault
        /\ IF life = "download" THEN DownloadFails
             ELSE PassFails /\ folder' \in {folder, IF folder = "none" THEN "bare" ELSE folder}
        /\ UNCHANGED removed
  /\ UNCHANGED <<setup, refused, fscan, todo, cut, up, edits, others, held, overtaken>>

FullList ==
  /\ pc = "full"
  /\ \/ /\ NoFault /\ listed' = remote /\ at' = 1 /\ pc' = "fill"
        /\ UNCHANGED <<disk, folder, final, scan, next, pulls, attempted, life, fpc>>
     \/ Fault /\ (IF life = "download" THEN DownloadFails ELSE PassFails /\ UNCHANGED folder)
  /\ UNCHANGED <<remote, setup, store, fscan, todo, cut, up, edits, others, ghosts>>

\* A write fails when the folder is gone: it never makes the folder.
\* Variant: the baseline does not wait for the write.
FillUnwritten ==
  /\ pc = "fill" /\ at \in InUse /\ at' = at + 1
  /\ baseline' = [baseline EXCEPT ![at] = Item.sha]
  /\ \/ /\ Item.sha # None /\ folder # "none" /\ NoFault
        /\ disk' = [disk EXCEPT ![at] = Item.sha] /\ Wrote(at)
     \/ /\ Item.sha = None \/ folder = "none"
        /\ NoFault /\ UNCHANGED <<disk, ghosts>>
     \/ /\ Item.sha # None
        /\ Fault /\ UNCHANGED <<disk, ghosts>>
  /\ UNCHANGED <<folder, remote, setup, refused, pending, sent, pc, final, scan, listed, next, pulls, attempted,
                 flush, life, up, edits, others>>

Fill ==
  /\ pc = "fill" /\ at \in InUse /\ at' = at + 1
  /\ \/ /\ Item.sha # None /\ folder # "none" /\ NoFault
        /\ disk' = [disk EXCEPT ![at] = Item.sha]
        /\ baseline' = [baseline EXCEPT ![at] = Item.sha]
        /\ Wrote(at)
     \/ /\ Item.sha = None \/ folder = "none"
        /\ NoFault /\ UNCHANGED <<disk, baseline, ghosts>>
     \/ /\ Item.sha # None
        /\ Fault /\ UNCHANGED <<disk, baseline, ghosts>>
  /\ UNCHANGED <<folder, remote, setup, refused, pending, sent, pc, final, scan, listed, next, pulls, attempted,
                 flush, life, up, edits, others>>

Filled ==
  /\ pc = "fill" /\ at \notin InUse
  /\ IF life = "download"
       THEN /\ life' = "running" /\ pc' = "idle" /\ listed' = NoMemories /\ at' = 1
            /\ UNCHANGED <<final, scan, next, pulls, attempted, fpc>>
       ELSE EndPass
  /\ UNCHANGED <<disk, folder, remote, setup, store, fscan, todo, cut, up, budgets, ghosts>>

(***************************************************************************)
(* The teardown.                                                           *)
(***************************************************************************)
\* withTimeout: the last sync goes on, nobody waits for it any more.
FinishCutOff ==
  /\ life = "finish" /\ life' = "flush" /\ fpc' = "scan"
  /\ UNCHANGED <<disk, folder, remote, setup, store, pass, fscan, todo, cut, up, budgets, ghosts>>

FlushEnds == fpc' = "done" /\ fscan' = NoFiles /\ life' = IF life = "flush" THEN "dispose" ELSE life

\* Variant: a file that is not on record yet counts for nothing.
DirtyKnownOnly(files) == {p \in Present(files) : baseline[p] # None /\ (files[p] # baseline[p] \/ sent[p] # None)
                                                /\ refused[p] # files[p]}
Dirty(files) == {p \in Present(files) : (files[p] # baseline[p] \/ sent[p] # None) /\ refused[p] # files[p]}

FlushScan ==
  /\ fpc = "scan"
  /\ IF setup.readOnly \/ folder # "ours" \/ Dirty(disk) = {} \/ cut
       THEN FlushEnds /\ UNCHANGED todo
       ELSE /\ fscan' = disk /\ todo' = Dirty(disk) /\ fpc' = "list" /\ UNCHANGED life
  /\ UNCHANGED <<disk, folder, remote, setup, store, pass, cut, up, budgets, ghosts>>

FlushList ==
  /\ fpc = "list"
  /\ \/ /\ ~cut /\ NoFault
        /\ sent' = NoFiles
        /\ baseline' = [p \in Paths |-> IF p \in todo /\ remote[p].sha = fscan[p] THEN fscan[p] ELSE SettleSent[p]]
        /\ up' = [up EXCEPT !["flush"] = [p \in Paths |->
                    IF p \in todo /\ fscan[p] # baseline'[p] /\ remote[p].sha \in {None, baseline'[p]}
                      THEN [NoUpload EXCEPT !.st = "todo", !.item = IF remote[p].sha = None THEN NoMemory
                                                                    ELSE remote[p]]
                      ELSE NoUpload]]
        /\ overtaken' = {p \in Paths : remote[p].by = "other" /\ remote[p].sha \notin {None, baseline'[p]}}
        /\ todo' = {} /\ fpc' = "upload"
        /\ UNCHANGED <<fscan, life>>
     \/ /\ (cut /\ NoFault) \/ Fault
        /\ FlushEnds /\ todo' = {} /\ UNCHANGED <<baseline, sent, up, overtaken>>
  /\ UNCHANGED <<disk, folder, remote, setup, refused, pending, pass, cut, edits, others, held, removed>>

\* No upload starts once the flush is cut off; those in flight go on.
FlushStart(p) ==
  /\ up["flush"][p].st = "todo" /\ ~cut
  /\ StartUpload("flush", p, fscan[p], up["flush"][p].item)
  /\ UNCHANGED <<disk, folder, remote, setup, store, pass, flush, life, budgets, ghosts>>

FlushDone ==
  /\ fpc = "upload" /\ \A p \in Paths : up["flush"][p].st \in {"none", "lost"} \cup (IF cut THEN {"todo"} ELSE {})
  /\ FlushEnds /\ up' = [up EXCEPT !["flush"] = [p \in Paths |-> NoUpload]] /\ overtaken' = {}
  /\ UNCHANGED <<disk, folder, remote, setup, store, pass, todo, cut, budgets, held, removed>>

FlushCutOff ==
  /\ life = "flush" /\ life' = "dispose" /\ cut' = TRUE
  /\ UNCHANGED <<disk, folder, remote, setup, store, pass, fpc, fscan, todo, up, budgets, ghosts>>

Dispose ==
  /\ life = "dispose" /\ life' = "disposed"
  /\ IF folder # "ours" /\ Present(disk) # {}
       THEN UNCHANGED <<disk, folder>>
       ELSE disk' = NoFiles /\ folder' = "none"
  /\ UNCHANGED <<remote, setup, store, pass, flush, up, budgets, ghosts>>

\* DELETE_CORROBORATION_MS after a file was first seen missing; the last sync
\* does not look at it.
Age(p) ==
  /\ life = "running"
  /\ pending[p] = "young" /\ pending' = [pending EXCEPT ![p] = "old"]
  /\ UNCHANGED <<disk, folder, remote, setup, baseline, refused, sent, pass, flush, life, up, budgets, ghosts>>

SyncStep ==
  \/ Scan \/ List \/ ListFails \/ HoldDelete \/ AskDelete \/ Confirm \/ DeleteAnswered \/ DeleteUnanswered
  \/ GoneOnBothSides \/ RemoveLocal \/ PushNew \/ Pull \/ Adopt \/ PushChange \/ InStep \/ PathsDone
  \/ \E p \in Paths : PullWrites(p) \/ PullSkips(p)
  \/ PullsDone \/ RefuseFolder \/ Stamp \/ FullList \/ Fill \/ Filled
UploadStep(o) == \E p \in Paths : UploadRead(o, p) \/ UploadAnswered(o, p) \/ UploadUnanswered(o, p)
Agent == WipeFiles \/ WipeFolder \/ SwapFolder \/ \E p \in InUse : Edit(p) \/ Remove(p)
Teardown ==
  \/ Finish \/ RunFails \/ FinishCutOff \/ FlushScan \/ FlushList \/ FlushDone \/ FlushCutOff \/ Dispose
  \/ \E p \in Paths : FlushStart(p)

Next ==
  \/ SyncIfDue \/ SyncStep \/ Agent \/ Teardown
  \/ \E o \in Owners : UploadStep(o)
  \/ \E p \in InUse : OtherClient(p) \/ Age(p)

Spec == Init /\ [][Next]_vars

\* The agent goes on calling tools, requests are answered one way or another,
\* and time passes; nothing makes a session end.
Fairness ==
  /\ WF_vars(SyncIfDue \/ SyncStep \/ UploadStep("sync"))
  /\ WF_vars(\E p \in Paths : Age(p))
FairSpec == Spec /\ Fairness

-------------------------------------------------------------------------------
TypeOK ==
  /\ disk \in [Paths -> Contents0] /\ folder \in {"ours", "bare", "alien", "none"}
  /\ remote \in [Paths -> [id : Nat, sha : Contents0, by : {"us", "other"}]]
  /\ setup \in Setups
  /\ {baseline, refused, sent, scan, next, fscan} \subseteq [Paths -> Contents0]
  /\ pending \in [Paths -> {"no", "young", "old"}]
  /\ pc \in {"idle", "scan", "list", "path", "confirm", "delete", "upload", "pull", "open", "full", "fill"}
  /\ listed \in [Paths -> [id : Nat, sha : Contents0, by : {"us", "other"}]]
  /\ final \in BOOLEAN /\ at \in 1..NPaths + 1 /\ pulls \subseteq Paths /\ attempted \in 0..NPaths
  /\ fpc \in {"off", "scan", "list", "upload", "done"} /\ todo \subseteq Paths /\ cut \in BOOLEAN
  /\ life \in {"download", "running", "finish", "flush", "dispose", "disposed", "failed"}
  /\ up \in [Owners -> [Paths -> [st : {"none", "todo", "read", "sent", "lost"}, local : Contents0, data : Contents0,
                                  item : [id : Nat, sha : Contents0, by : {"us", "other"}]]]]
  /\ held \in [Paths -> SUBSET Contents] /\ removed \in [Paths -> {"kept", "gone", "midpass"}]
  /\ overtaken \subseteq Paths
  /\ {edits, others, faults} \subseteq Nat
  \* a pass leaves nothing behind, and one upload of a sync is out at a time
  /\ pc = "idle" => scan = NoFiles /\ pulls = {} /\ ~final
  /\ \A p \in Paths : up["sync"][p].st # "none" => pc = "upload" /\ at = p

(* A memory that another client wrote is overwritten or deleted only if the *)
(* folder once held that very content: the preconditions, the baseline and  *)
(* the settled uploads together never let a sync or a flush, not even one   *)
(* that was cut off, push over something the session has not seen.  A       *)
(* read-only store is not written at all.                                   *)
NoBlindWrites ==
  [][others' = others =>
       \A p \in Paths : remote'[p].sha # remote[p].sha =>
         ~setup.readOnly /\ remote[p].sha \in held[p] \cup {None}]_vars

(* "A memory holding exactly that sha is this sync's own upload, not a      *)
(* remote edit, and a newer local edit goes out over it": the content pass  *)
(* never replaces a file by something this session uploaded itself since it *)
(* last stamped its folder, which is as far as its records reach.           *)
NoEditLostToOwnUpload ==
  [][pc = "pull" /\ edits' = edits /\ life' = life =>
       \A p \in Paths : disk'[p] # disk[p] /\ disk[p] # None => remote[p].by = "other"]_vars

(* "A store folder that loses its marker, is emptied, or vanishes is        *)
(* re-downloaded rather than treated as a mass local delete": a delete goes *)
(* out only for a file that was deleted by itself.  (A file written again   *)
(* while its delete is on the way does not call the delete back.)           *)
EmptiedFolderDeletesNothing == [][pc # "delete" /\ pc' = "delete" => removed[at] = "gone"]_vars

(* What holds of it: a folder that was emptied between two passes, lost its *)
(* marker, was swapped, vanished, or is removed by the teardown beside a    *)
(* sync that was cut off, deletes nothing, in whatever pass it is noticed.  *)
WipesDeleteNothing == [][pc # "delete" /\ pc' = "delete" => removed[at] # "kept"]_vars

(* "Only successful writes enter the baseline, so this file was verifiably  *)
(* on disk": what a missing file is compared with was really in the file.   *)
BaselineWasOnDisk == \A p \in Paths : baseline[p] \in held[p] \cup {None}

\* The server refuses the file, or may have refused what an upload read under its
\* scan: #upload reads the file anew and enters the sha that the scan saw.
Refused(p) == disk[p] \in Rejected \/ (Rejected # {} /\ disk[p] = refused[p])

(* A flush that is not cut off and reads its listing leaves no work of the  *)
(* session unsaved, new files and first edits included, whatever the passes *)
(* before it left undone and even when one of them still runs: of every     *)
(* file, what it holds or what the flush read is on the server, is refused  *)
(* or taken for refused, is as it was synced and only others have changed   *)
(* the memory since, was kept back because the listing showed another       *)
(* client's change or one came after it, or its own upload has just failed. *)
(* One case is left out: a file written again as it was synced, after a     *)
(* delete whose answer was lost; no record of such a delete is kept.        *)
Saved(p) ==
  \/ disk[p] \in {None, remote[p].sha} \/ Refused(p)
  \/ fscan[p] # None /\ fscan[p] = remote[p].sha
  \/ disk[p] = baseline[p] /\ (remote[p].by = "other" \/ (faults < setup.faults /\ remote[p].sha = None))
  \/ p \in overtaken
FlushedWorkIsSaved ==
  [][fpc' = "done" /\ fpc \in {"scan", "upload"} /\ ~cut /\ folder = "ours" /\ ~setup.readOnly
       => \A p \in Paths : Saved(p) \/ up["flush"][p].st = "lost"]_vars

(* When the agent and the other clients fall silent, syncing brings both    *)
(* sides together, but for what the server refuses, what a setup does not   *)
(* push, and a folder that is not to be trusted.                            *)
Together(p) ==
  IF setup.readOnly THEN baseline[p] = remote[p].sha
     ELSE disk[p] = remote[p].sha \/ Refused(p) \/ (disk[p] = None /\ setup.mode # "enabled")
Converges ==
  <>[](life # "running" \/ (folder # "ours" /\ Present(disk) # {}) \/ \A p \in Paths : Together(p))

===============================================================================
