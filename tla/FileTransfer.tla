---------------------------- MODULE FileTransfer ----------------------------
(***************************************************************************)
(* run_file_transfer_async (file-transfer-engine.cpp): one batch that sends    *)
(* or receives a tree of files, folders and links, node by node, with retry,    *)
(* skip and abort, over any RemoteFileClient.                                 *)
(*                                                                         *)
(* Every await may fail, and may have taken effect although its answer was     *)
(* lost; cancellation can be requested at any time; somebody else may create    *)
(* an item at a destination while the batch runs.  A node is its path below    *)
(* the selection, a sequence of names.  File sizes are counted in chunks, the   *)
(* same for every file, and sources do not change during the batch.            *)
(***************************************************************************)
EXTENDS Naturals, Sequences, FiniteSets

CONSTANTS Nodes,      \* paths of the items below the selection
          Kind,       \* Kind[n]: "file", "folder" or "link"
          Size,       \* chunks of a file
          MaxFaults,  \* bound: failures of awaited operations in one batch
          MaxForeign  \* bound: items somebody else creates meanwhile

ASSUME NodesAssumption == Nodes \subseteq Seq(STRING) \ {<< >>} /\ IsFiniteSet(Nodes)
ASSUME KindAssumption == Kind \in [Nodes -> {"file", "folder", "link"}]
ASSUME BoundsAssumption == Size \in Nat /\ MaxFaults \in Nat /\ MaxForeign \in Nat

Under(n, m) == Len(n) <= Len(m) /\ SubSeq(m, 1, Len(n)) = n
Subtree(n) == {m \in Nodes : Under(n, m)}
Children(n) == {m \in Subtree(n) : Len(m) = Len(n) + 1}
Roots == {n \in Nodes : Len(n) = 1}

\* The folders on the way to a node are nodes.
ASSUME TreeAssumption ==
  /\ \A m \in Nodes : \A k \in 1..Len(m) : SubSeq(m, 1, k) \in Nodes
  /\ \A n \in Nodes : Kind[n] # "folder" => Children(n) = {}

\* total_bytes and total_items of the nodes of a set of subtrees.
Bytes(set) == Size * Cardinality({m \in set : Kind[m] = "file"})
Items(set) == Cardinality(set)

\* By capabilities(): symbolic links, an explicit commit (SMB too), or neither.
Services == {"sftp", "webdav", "ftp"}

Old == {"oldFile", "oldFolder", "foreign"}      \* not written by this batch
Contents == {"none", "partFolder", "own", "ownFolder"} \cup Old
IsFolder(content) == content \in {"oldFolder", "partFolder", "ownFolder"}

VARIABLES
  direction, service,    \* the request; the service, by its capabilities
  callbacks,             \* which of the two callbacks the request has
  cancelled,             \* the batch's cancellation has been requested
  pc, stack, roots,      \* where the batch is; its open nodes, innermost first
  thrown,                \* the exception on its way
  decision, asks,        \* conflict_action, and how often the user was asked
  seen, over,            \* destination type found by lstat; overwrite
  bytes, items, found,   \* progress; the nodes discovered
  dest,                  \* what is at each destination path
  creation, owner,       \* the temporary file: what is known of it; whose it is
  copied,                \* chunks written to it
  faults, foreign,       \* failures so far; items somebody else has created
  lost, stranded, foreignLost, skipped, initial      \* history, for the properties

request == <<direction, service, callbacks, initial>>
outside == <<request, foreign>>
progress == <<bytes, items, found>>
temporary == <<creation, owner, copied>>
history == <<lost, stranded, foreignLost, skipped>>
conflict == <<decision, asks, seen, over>>
vars == <<request, cancelled, pc, stack, roots, thrown, conflict, progress, dest,
          temporary, faults, foreign, history>>

Frames == [node : Nodes, todo : SUBSET Nodes, bytes : Nat, items : Nat]

TypeOK ==
  /\ direction \in {"send", "receive"} /\ service \in Services /\ cancelled \in BOOLEAN
  /\ callbacks \subseteq {"conflict", "failure"}
  /\ pc \in {"discover", "roots", "top", "stat", "resolve", "ask", "clear", "make",
             "children", "attributes", "open", "copy", "close", "prepare", "commit",
             "cleanup", "recover", "failed", "ended"}
  /\ stack \in Seq(Frames) /\ roots \subseteq Nodes
  /\ thrown \in {"none", "error", "canceled", "abort", "cleanup", "cleanupCanceled"}
  /\ decision \in {"unset", "overwrite", "skip", "cancel"} /\ asks \in Nat
  /\ seen \in {"none", "folder", "other"} /\ over \in BOOLEAN
  /\ bytes \in Nat /\ items \in Nat /\ found \subseteq Nodes
  /\ dest \in [Nodes -> Contents] /\ initial \in [Nodes -> Contents]
  /\ creation \in {"none", "unknown", "not_created", "created"}
  /\ owner \in {"nobody", "ours", "foreign"}
  /\ copied \in 0..Size /\ faults \in 0..MaxFaults /\ foreign \in 0..MaxForeign
  /\ lost \subseteq Nodes /\ skipped \subseteq Nodes
  /\ stranded \in BOOLEAN /\ foreignLost \in BOOLEAN

-----------------------------------------------------------------------------
Node == Head(stack).node

\* capabilities().upload_commit; send_regular_file_async's explicit_commit.
Commits == service = "webdav"
Committing == direction = "send" /\ Commits

\* An awaited operation throws: it failed, or it noticed the cancellation.
Throws(next) ==
  /\ pc' = next
  /\ \/ faults < MaxFaults /\ faults' = faults + 1 /\ thrown' = "error"
     \/ cancelled /\ thrown' = "canceled" /\ UNCHANGED faults

Goes(next) == pc' = next /\ UNCHANGED <<thrown, faults>>

\* The item at n is removed or replaced.
Loses(n) == lost' = IF dest[n] \in Old \cup {"partFolder"} THEN lost \cup {n} ELSE lost
Becomes(n, content) == dest' = [dest EXCEPT ![n] = content] /\ Loses(n)

Enter(n, outer) ==
  /\ stack' = <<[node |-> n, todo |-> Children(n), bytes |-> bytes, items |-> items]>> \o outer
  /\ Goes("top")

\* The node is over: its parent, or the batch, goes on.
Leave == /\ stack' = Tail(stack)
         /\ pc' = IF Tail(stack) = << >> THEN "roots" ELSE "children"

\* complete_subtree: a skipped node counts as complete.
CompleteSubtree ==
  /\ bytes' = bytes + Bytes(Subtree(Node))
  /\ items' = items + Items(Subtree(Node))
  /\ skipped' = skipped \cup Subtree(Node)
  /\ UNCHANGED found

Fulfilled == items' = items + 1 /\ UNCHANGED <<bytes, found>> /\ Leave

Init ==
  /\ direction \in {"send", "receive"} /\ service \in Services /\ cancelled = FALSE
  /\ direction = "receive" /\ (\E n \in Nodes : Kind[n] = "link") => service = "sftp"
  /\ callbacks \in SUBSET {"conflict", "failure"}
  /\ pc = "discover" /\ stack = << >> /\ roots = {} /\ thrown = "none"
  /\ decision = "unset" /\ asks = 0 /\ seen = "none" /\ over = FALSE
  /\ bytes = 0 /\ items = 0 /\ found = {}
  /\ initial \in [Nodes -> {"none", "oldFile", "oldFolder"}]
  /\ \A n \in Nodes, m \in Nodes :
       n \in Children(m) /\ initial[n] # "none" => initial[m] = "oldFolder"
  /\ dest = initial
  /\ creation = "none" /\ owner = "nobody" /\ copied = 0 /\ faults = 0 /\ foreign = 0
  /\ lost = {} /\ stranded = FALSE /\ foreignLost = FALSE /\ skipped = {}

-----------------------------------------------------------------------------
(* The batch: run_file_transfer_async.                                     *)

\* Each selected item is discovered with all it contains; the failure callback
\* can skip one that cannot be, or abort the batch.
Discover ==
  /\ pc = "discover"
  /\ \/ \E chosen \in IF "failure" \in callbacks THEN SUBSET Roots ELSE {Roots} :
          /\ roots' = chosen
          /\ found' = UNION {Subtree(n) : n \in chosen}
          /\ Goes("roots")
     \/ /\ pc' = "ended"
        /\ \/ thrown' = IF "failure" \in callbacks THEN "abort" ELSE "error"
           \/ cancelled /\ thrown' = "canceled"
        /\ UNCHANGED <<roots, found, faults>>
  /\ UNCHANGED <<outside, cancelled, stack, conflict, bytes, items, dest, temporary,
                 history>>

NextRoot ==
  /\ pc = "roots"
  /\ \/ \E n \in roots : roots' = roots \ {n} /\ Enter(n, << >>)
     \/ roots = {} /\ Goes("ended") /\ UNCHANGED <<roots, stack>>
  /\ UNCHANGED <<outside, cancelled, conflict, progress, dest, temporary, history>>

\* Fault: an attempt begins without a look at the cancellation.
NeverStops == FALSE
Stops == cancelled

\* The head of the loop of transfer_node_with_recovery_async.
Top ==
  /\ pc = "top"
  /\ IF Stops THEN pc' = "recover" /\ thrown' = "canceled" /\ UNCHANGED faults
                  ELSE Goes("stat")
  /\ UNCHANGED <<outside, cancelled, stack, roots, conflict, progress, dest, temporary,
                 history>>

\* lstat of the destination.
Stat ==
  /\ pc = "stat"
  /\ \/ /\ seen' = IF dest[Node] = "none" THEN "none"
                   ELSE IF IsFolder(dest[Node]) THEN "folder" ELSE "other"
        /\ Goes("resolve")
     \/ Throws("recover") /\ UNCHANGED seen
  /\ UNCHANGED <<outside, cancelled, stack, roots, decision, asks, over, progress, dest,
                 temporary, history>>

Merges == Kind[Node] = "folder" /\ seen = "folder"
Conflicts == seen # "none" /\ ~Merges

\* An explicit commit replaces no item by one of another type; only SFTP makes
\* links.
Unsupported ==
  \/ Committing /\ seen # "none" /\ (seen = "folder") # (Kind[Node] = "folder")
  \/ direction = "send" /\ Kind[Node] = "link" /\ service # "sftp"

Undecided == decision = "unset"

\* resolve_conflict_async with a decision, or without a conflict; and the first
\* steps of send_node_once_async and receive_node_once_async.
Resolve ==
  /\ pc = "resolve"
  /\ \/ /\ ~Conflicts \/ decision = "overwrite"
        /\ over' = Conflicts
        /\ IF Unsupported THEN pc' = "recover" /\ thrown' = "error" /\ UNCHANGED faults
           ELSE Goes(CASE Kind[Node] = "file" -> "open"
                       [] Kind[Node] # "file" /\ Conflicts -> "clear"
                       [] Merges -> "children"
                       [] OTHER -> "make")
        /\ UNCHANGED <<progress, skipped, stack>>
     \/ /\ Conflicts /\ Undecided /\ Goes("ask")
        /\ UNCHANGED <<over, progress, skipped, stack>>
     \/ /\ Conflicts /\ decision = "skip"
        /\ CompleteSubtree /\ Leave
        /\ UNCHANGED <<over, thrown, faults>>
     \/ /\ Conflicts /\ decision = "cancel"
        /\ pc' = "recover" /\ thrown' = "abort"
        /\ UNCHANGED <<over, faults, progress, skipped, stack>>
  /\ UNCHANGED <<outside, cancelled, roots, decision, asks, seen, dest, temporary,
                 lost, stranded, foreignLost>>

\* The conflict callback answers or is cancelled, or there is none.
Ask ==
  /\ pc = "ask"
  /\ \/ /\ "conflict" \in callbacks /\ asks' = asks + 1
        /\ \/ decision' \in {"overwrite", "skip", "cancel"} /\ Goes("resolve")
           \/ cancelled /\ pc' = "recover" /\ thrown' = "canceled"
              /\ UNCHANGED <<decision, faults>>
     \/ /\ "conflict" \notin callbacks
        /\ pc' = "recover" /\ thrown' = "abort" /\ UNCHANGED <<decision, asks, faults>>
  /\ UNCHANGED <<outside, cancelled, stack, roots, seen, over, progress, dest, temporary,
                 history>>

-----------------------------------------------------------------------------
(* Folders and links, and the removal of what is in the way.                 *)

\* remove_remote_tree_async, remove_local_tree_async: item by item, so a failure
\* can leave a folder with some of its contents gone, or nothing at all.
Clear ==
  /\ pc = "clear"
  /\ \/ Becomes(Node, "none") /\ Goes(IF Kind[Node] = "file" THEN "commit" ELSE "make")
     \/ /\ Throws(IF Kind[Node] = "file" THEN "cleanup" ELSE "recover")
        /\ \/ UNCHANGED <<dest, lost>>
           \/ Becomes(Node, "none")
           \/ IsFolder(dest[Node]) /\ Becomes(Node, "partFolder")
  /\ UNCHANGED <<outside, cancelled, stack, roots, conflict, progress, temporary,
                 stranded, foreignLost, skipped>>

\* make_directory, make_symbolic_link: they never replace an item.  A sent link
\* is then complete; everything else still gets its attributes.
Make ==
  /\ pc = "make"
  /\ LET made == IF Kind[Node] = "folder" THEN "ownFolder" ELSE "own"
     IN \/ /\ dest[Node] = "none" /\ Becomes(Node, made)
           /\ \/ /\ Kind[Node] = "folder" /\ Goes("children")
                 /\ UNCHANGED <<stack, progress>>
              \/ /\ Kind[Node] = "link" /\ direction = "receive" /\ Goes("attributes")
                 /\ UNCHANGED <<stack, progress>>
              \/ /\ Kind[Node] = "link" /\ direction = "send"
                 /\ Fulfilled /\ UNCHANGED <<thrown, faults>>
        \/ /\ dest[Node] = "none" /\ Throws("recover")
           /\ Becomes(Node, made) \/ UNCHANGED <<dest, lost>>
           /\ UNCHANGED <<stack, progress>>
        \/ /\ dest[Node] # "none" /\ pc' = "recover" /\ thrown' = "error"
           /\ UNCHANGED <<faults, dest, lost, stack, progress>>
  /\ UNCHANGED <<outside, cancelled, roots, conflict, temporary, stranded, foreignLost,
                 skipped>>

\* The next child of the innermost folder; the order is the listing's.
NextChild ==
  /\ pc = "children"
  /\ LET frame == Head(stack)
     IN \/ \E n \in frame.todo :
             Enter(n, <<[frame EXCEPT !.todo = @ \ {n}]>> \o Tail(stack))
        \/ frame.todo = {} /\ Goes("attributes") /\ UNCHANGED stack
  /\ UNCHANGED <<outside, cancelled, roots, conflict, progress, dest, temporary, history>>

\* The attributes of an item at its final path come last, before it is counted.
Attributes ==
  /\ pc = "attributes"
  /\ \/ Fulfilled /\ UNCHANGED <<thrown, faults>>
     \/ Throws("recover") /\ UNCHANGED <<stack, progress>>
  /\ UNCHANGED <<outside, cancelled, roots, conflict, dest, temporary, history>>

-----------------------------------------------------------------------------
(* One regular file: send_regular_file_async, receive_regular_file_async.      *)

\* The temporary file is created, or, with an explicit commit, will be by the
\* upload itself.  A remote file whose creation failed may be there all the same.
Open ==
  /\ pc = "open"
  /\ \/ /\ creation' = IF Committing THEN "unknown" ELSE "created"
        /\ owner' = IF Committing THEN owner ELSE "ours"
        /\ copied' = 0
        /\ Goes("copy")
        /\ UNCHANGED stranded
     \/ /\ Throws("recover")
        /\ stranded' \in {stranded} \cup
             (IF direction = "send" /\ ~Commits THEN {TRUE} ELSE {})
        /\ UNCHANGED temporary
  /\ UNCHANGED <<outside, cancelled, stack, roots, conflict, progress, dest, lost,
                 foreignLost, skipped>>

\* An upload with an explicit commit fails: its last answer, if there was one,
\* tells whether the file was created; the path may hold somebody else's file.
UploadFails ==
  IF Committing
  THEN \/ creation' = "unknown" /\ owner' \in {"nobody", "ours", "foreign"}
       \/ creation' = "not_created" /\ owner' \in {"nobody", "foreign"}
       \/ creation' = "created" /\ owner' = "ours"
  ELSE UNCHANGED <<creation, owner>>

MoreToCopy == copied < Size

Copy ==
  /\ pc = "copy"
  /\ \/ /\ ~cancelled /\ MoreToCopy
        /\ copied' = copied + 1 /\ bytes' = bytes + 1
        /\ Goes("copy") /\ UNCHANGED <<creation, owner>>
     \/ /\ ~cancelled /\ copied = Size
        /\ Goes("close") /\ UNCHANGED <<temporary, bytes>>
     \/ Throws("cleanup") /\ UploadFails /\ UNCHANGED <<copied, bytes>>
  /\ UNCHANGED <<outside, cancelled, stack, roots, conflict, items, found, dest, history>>

\* Both streams are closed; the writer's last answer proves the creation.
Close ==
  /\ pc = "close"
  /\ \/ /\ creation' = "created" /\ owner' = "ours"
        /\ Goes(IF direction = "send" THEN "prepare" ELSE "commit")
     \/ Throws("cleanup") /\ UploadFails
  /\ UNCHANGED <<outside, cancelled, stack, roots, conflict, progress, dest, copied,
                 history>>

RemovesFirst == over /\ ~Commits

\* set_attributes on the uploaded file; without a commit operation a replaced
\* destination is then removed.
Prepare ==
  /\ pc = "prepare"
  /\ Goes(IF RemovesFirst THEN "clear" ELSE "commit") \/ Throws("cleanup")
  /\ UNCHANGED <<outside, cancelled, stack, roots, conflict, progress, dest, temporary,
                 history>>

\* Fault: the move replaces without the flag.
Overwrites == (direction = "receive" \/ Commits) /\ ~IsFolder(dest[Node])
Replaces == over /\ (direction = "receive" \/ Commits) /\ ~IsFolder(dest[Node])

\* A move replaces only with the overwrite flag, and a folder never; a plain
\* rename replaces nothing.
MayReplace == dest[Node] = "none" \/ Replaces

Moved == Becomes(Node, "own") /\ owner' = "nobody"

\* The temporary file takes its final name.  A received file then gets its
\* attributes at that name.
Commit ==
  /\ pc = "commit"
  /\ \/ /\ MayReplace /\ Moved /\ creation' = "none" /\ UNCHANGED <<thrown, faults>>
        /\ \/ direction = "send" /\ Fulfilled
           \/ direction = "receive" /\ pc' = "attributes" /\ UNCHANGED <<stack, progress>>
     \/ /\ MayReplace /\ Throws("cleanup")
        /\ \/ direction = "send" /\ Moved
           \/ UNCHANGED <<dest, lost, owner>>
        /\ UNCHANGED <<creation, stack, progress>>
     \/ /\ ~MayReplace /\ pc' = "cleanup" /\ thrown' = "error"
        /\ UNCHANGED <<faults, dest, lost, owner, creation, stack, progress>>
  /\ UNCHANGED <<outside, cancelled, roots, conflict, copied, stranded, foreignLost,
                 skipped>>

\* A cleanup operation can fail, and has to once the session was given up.
MayFail == \/ faults < MaxFaults /\ faults' = faults + 1
           \/ cancelled /\ UNCHANGED faults

ProvenOurs == creation = "created"

\* Fault: a removal that failed is as silent as without an explicit commit.
ReportsUncertain == Committing /\ creation = "unknown"
Reports == Committing /\ creation # "not_created"

\* The failure path of a file: only a file proven ours is removed, once.  With an
\* explicit commit, one that may be left behind is named in the exception; else
\* the failure of the removal is ignored.
Cleanup ==
  /\ pc = "cleanup" /\ pc' = "recover"
  /\ creation' = "none" /\ owner' = "nobody"
  /\ \/ /\ ProvenOurs /\ owner # "nobody"
        /\ foreignLost' = (foreignLost \/ owner = "foreign")
        /\ UNCHANGED <<thrown, faults, stranded>>
     \/ /\ UNCHANGED foreignLost
        /\ IF ProvenOurs /\ owner # "nobody" THEN MayFail ELSE UNCHANGED faults
        /\ IF Reports
           THEN /\ UNCHANGED stranded
                /\ thrown' = IF cancelled THEN "cleanupCanceled" ELSE "cleanup"
           ELSE /\ stranded' = (stranded \/ owner = "ours")
                /\ UNCHANGED thrown
  /\ UNCHANGED <<outside, cancelled, stack, roots, conflict, progress, dest, copied, lost,
                 skipped>>

-----------------------------------------------------------------------------
(* Failures: the end of transfer_node_with_recovery_async.                   *)

\* A cancellation or an abort leaves every open node.
EndBatch == stack' = << >> /\ pc' = "ended"

\* Fault: the bytes of the failed attempt stay counted.
RollBackItems == items' = Head(stack).items /\ UNCHANGED <<bytes, found>>
RollBack == /\ bytes' = Head(stack).bytes
            /\ items' = Head(stack).items
            /\ UNCHANGED found

Unwind ==
  /\ pc = "recover" /\ thrown \in {"canceled", "abort", "cleanupCanceled"}
  /\ EndBatch
  /\ UNCHANGED <<outside, cancelled, roots, thrown, conflict, progress, dest, temporary,
                 faults, history>>

\* The progress goes back to the node's beginning.
Recover ==
  /\ pc = "recover" /\ thrown \in {"error", "cleanup"}
  /\ RollBack
  /\ pc' = "failed"
  /\ UNCHANGED <<outside, cancelled, stack, roots, thrown, conflict, dest, temporary,
                 faults, history>>

\* The failure callback decides; a retry starts the node from its beginning.
Again(frame) == [frame EXCEPT !.todo = Children(frame.node)]

Decide ==
  /\ pc = "failed" /\ "failure" \in callbacks
  /\ \/ /\ pc' = "top" /\ thrown' = "none"
        /\ stack' = <<Again(Head(stack))>> \o Tail(stack)
        /\ UNCHANGED <<progress, skipped>>
     \/ CompleteSubtree /\ Leave /\ thrown' = "none"
     \/ EndBatch /\ thrown' = "abort" /\ UNCHANGED <<progress, skipped>>
     \/ cancelled /\ EndBatch /\ thrown' = "canceled" /\ UNCHANGED <<progress, skipped>>
  /\ UNCHANGED <<outside, cancelled, roots, conflict, dest, temporary, faults, lost,
                 stranded, foreignLost>>

\* Without one the failure is the parent's.
Rethrow ==
  /\ pc = "failed" /\ "failure" \notin callbacks
  /\ stack' = Tail(stack)
  /\ pc' = IF Tail(stack) = << >> THEN "ended" ELSE "recover"
  /\ UNCHANGED <<outside, cancelled, roots, thrown, conflict, progress, dest, temporary,
                 faults, history>>

-----------------------------------------------------------------------------
(* The environment.                                                        *)

RequestCancel ==
  /\ pc # "ended" /\ ~cancelled
  /\ cancelled' = TRUE
  /\ UNCHANGED <<outside, pc, stack, roots, thrown, conflict, progress, dest, temporary,
                 faults, history>>

\* Somebody else creates a file where there is none.
ForeignCreates ==
  /\ pc # "ended" /\ foreign < MaxForeign /\ foreign' = foreign + 1
  /\ \E n \in Nodes :
       /\ dest[n] = "none"
       /\ n \in Roots \/ \E m \in Nodes : n \in Children(m) /\ IsFolder(dest[m])
       /\ dest' = [dest EXCEPT ![n] = "foreign"]
  /\ UNCHANGED <<request, cancelled, pc, stack, roots, thrown, conflict, progress,
                 temporary, faults, history>>

Ended == pc = "ended" /\ UNCHANGED vars

Batch == \/ Discover \/ NextRoot \/ Top \/ Stat \/ Resolve \/ Ask
         \/ Clear \/ Make \/ NextChild \/ Attributes
         \/ Open \/ Copy \/ Close \/ Prepare \/ Commit \/ Cleanup
         \/ Unwind \/ Recover \/ Decide \/ Rethrow

Next == Batch \/ RequestCancel \/ ForeignCreates \/ Ended

Spec == Init /\ [][Next]_vars

\* Every awaited operation and callback answers in the end.
FairSpec == Spec /\ WF_vars(Batch)

-----------------------------------------------------------------------------
(* Properties.                                                             *)

\* Retries, skips and partial failures leave no residue in the progress: it
\* never exceeds what was discovered and is exact when the batch ends well
\* (lines 717-722, 1188-1215).
ProgressExact ==
  /\ items <= Items(found) /\ bytes <= Bytes(found)
  /\ pc = "ended" /\ thrown = "none" => items = Items(found) /\ bytes = Bytes(found)

\* The first conflict decision is reused for the whole batch: the user is asked
\* once, whatever is retried (file-transfer-engine.h:120, 154).
AskedOnce == asks <= 1

\* A batch that ends without an exception has delivered every discovered item
\* that the user did not skip.
SuccessDelivers ==
  pc = "ended" /\ thrown = "none" =>
    \A n \in found \ skipped :
      IF Kind[n] = "folder" THEN IsFolder(dest[n]) ELSE dest[n] = "own"

\* Where the destination has an atomic replacement (a local move, an explicit
\* commit), a file gives way only to the complete new one
\* (lines 1020-1021, 1074-1076).
AtomicReplace ==
  direction = "receive" \/ Commits =>
    \A n \in lost : Kind[n] = "file" => dest[n] = "own"

\* Nothing that was at a destination, or appeared there later, is removed or
\* replaced unless the user decided to overwrite.
ConsentedLoss == lost # {} => decision = "overwrite"

\* With an explicit commit, every temporary file left behind has been named in
\* an error (lines 954-969).
CommitAccounts == Committing => ~stranded

\* A temporary path that may be somebody else's is never deleted (964-966).
ForeignKept == ~foreignLost

\* No step of a batch takes from the destination what the user did not give up.
NothingLost == AtomicReplace /\ ConsentedLoss /\ ForeignKept

\* What the batch tells its user is so: delivered, named, or asked before.
OutcomeTrue == TypeOK /\ SuccessDelivers /\ CommitAccounts /\ AskedOnce

\* A batch whose cancellation is requested ends.
CancelEnds == cancelled ~> pc = "ended"
=============================================================================
