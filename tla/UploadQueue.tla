----------------------------- MODULE UploadQueue -----------------------------
(***************************************************************************)
(* The document queue of the upload page (app/static/document-upload.js).  *)
(* One page runs one event loop: between two awaits its code is one step,  *)
(* so that an answer and the start of the next item of a batch are one     *)
(* step, while the member may edit the queue during every request.         *)
(***************************************************************************)
EXTENDS Naturals, SequencesExt

CONSTANTS
  Files,        \* files of the member's disk (signatureOf)
  Offered,      \* categories the select offers
  Supported,    \* those that compatibility() lets through
  Keepings,     \* retention choices of the form
  MaxFiles      \* config.max_files

VARIABLES
  order,      \* the Map of items, oldest first
  state,      \* file -> the state of its item, or "absent"
  category,   \* file -> item.categoryKey
  mode,       \* what runSerialized runs: "none", "batch" or "single"
  batch,      \* the items of the batch still to come
  retention   \* the choice read when the run began, or "none"

vars == <<order, state, category, mode, batch, retention>>

NoChoice == "none"
States == {"absent", "unsettled", "ready", "processing", "retryable",
           "complete", "failed"}

\* Items whose controls are enabled.
Editable(f) == state[f] \notin {"absent", "processing", "complete"}

Init ==
  /\ order = <<>>
  /\ state = [f \in Files |-> "absent"]
  /\ category = [f \in Files |-> NoChoice]
  /\ mode = "none"
  /\ batch = {}
  /\ retention = NoChoice

AddFile(f) ==
  /\ state[f] = "absent"
  /\ Len(order) < MaxFiles
  /\ order' = Append(order, f)
  /\ state' = [state EXCEPT ![f] = "unsettled"]
  /\ category' = [category EXCEPT ![f] = NoChoice]
  /\ UNCHANGED <<mode, batch, retention>>

Choose(f, c) ==
  /\ Editable(f)
  /\ c # category[f]
  /\ category' = [category EXCEPT ![f] = c]
  /\ state' = [state EXCEPT ![f] =
                 IF c \in Supported THEN "ready" ELSE "unsettled"]
  /\ UNCHANGED <<order, mode, batch, retention>>

\* The id of a removed item is not used again, so a running batch skips it
\* even when its file is added once more.
RemoveItem(f) ==
  /\ Editable(f)
  /\ \E i \in DOMAIN order :
       order[i] = f /\ order' = RemoveAt(order, i)
  /\ batch' = batch \ {f}
  /\ state' = [state EXCEPT ![f] = "absent"]
  /\ category' = [category EXCEPT ![f] = NoChoice]
  /\ UNCHANGED <<mode, retention>>

\* The loop of processQueue: on to the first item of the batch that is still
\* ready, in the order of the queue.
Continue(st, rest, k) ==
  LET ready == {i \in DOMAIN order : order[i] \in rest /\ st[order[i]] = "ready"}
  IN \/ /\ ready = {}
        /\ state' = st
        /\ mode' = "none"
        /\ batch' = {}
        /\ retention' = NoChoice
     \/ \E i \in ready :
          /\ \A j \in ready : i <= j
          /\ state' = [st EXCEPT ![order[i]] = "processing"]
          /\ mode' = "batch"
          /\ batch' = rest \ {order[j] : j \in 1 .. i}
          /\ retention' = k

ReadyItems == {f \in Files : state[f] = "ready"}

\* Mutant: runSerialized does not look at processingQueue.
RunAnyTime == TRUE

NothingRuns == mode = "none"

Submit(k) ==
  /\ NothingRuns
  /\ ReadyItems # {}
  /\ k \in Keepings
  /\ Continue(state, ReadyItems, k)
  /\ UNCHANGED <<order, category>>

Retry(f, k) ==
  /\ NothingRuns
  /\ state[f] = "retryable"
  /\ state' = [state EXCEPT ![f] = "processing"]
  /\ mode' = "single"
  /\ k \in Keepings
  /\ retention' = k
  /\ UNCHANGED <<order, category, batch>>

\* processItem returns "continue" with the item in the given state.
Outcome(f, result) ==
  /\ state[f] = "processing"
  /\ Continue([state EXCEPT ![f] = result], batch, retention)
  /\ UNCHANGED <<order, category>>

\* A redirect to the login, 401 or 403: the item waits and the run ends.
Stop(f) ==
  /\ state[f] = "processing"
  /\ state' = [state EXCEPT ![f] = "ready"]
  /\ mode' = "none"
  /\ batch' = {}
  /\ retention' = NoChoice
  /\ UNCHANGED <<order, category>>

\* The page is left or loaded again: nothing of the queue survives.
Leave ==
  /\ order # <<>>
  /\ order' = <<>>
  /\ state' = [f \in Files |-> "absent"]
  /\ category' = [f \in Files |-> NoChoice]
  /\ mode' = "none"
  /\ batch' = {}
  /\ retention' = NoChoice

Edit ==
  \E f \in Files : AddFile(f) \/ RemoveItem(f) \/ (\E c \in Offered : Choose(f, c))

\* One document is sent at a time, and only while a run is on; a run that has
\* ended, also by a stop, leaves no item behind in "processing".
OneAtATime ==
  \A f \in Files :
    state[f] = "processing" =>
      /\ mode # "none"
      /\ \A g \in Files \ {f} : state[g] # "processing"
=============================================================================
