------------------------------ MODULE Control ------------------------------
(***************************************************************************)
(* How operators' commands find the server that owns a run, and how that   *)
(* server counts who is watching it: the index file all servers of a user  *)
(* rewrite, a command's walk over the servers it names, and the watchers   *)
(* that connections attach.                                                *)
(*                                                                         *)
(* The index is rewritten by reading it, writing a file whose name every   *)
(* server shares, and renaming that: each is a step of its own here, with  *)
(* the file a server has open followed through the renames of others.      *)
(* What an index holds is the set of servers it names; one that does not   *)
(* parse names none.  A process id is not used twice.  What the verbs do   *)
(* is in RunRegistry, Steering, ChangeStore and Panel: here a verb reaches *)
(* the server that owns the run or it does not.                            *)
(***************************************************************************)
EXTENDS Naturals, FiniteSets

CONSTANTS
    Bridge,   \* server processes
    Client,   \* operators' commands, each with one connection at a time
    RunId,    \* runs
    Owner,    \* the server that owns a run
    None      \* no run, no server

ASSUME ControlAssumption ==
    /\ Owner \in [RunId -> Bridge]
    /\ None \notin RunId \cup Bridge
    /\ "no" \notin RunId \cup {None}   \* it marks a connection that watches nothing
    /\ IsFiniteSet(Client)

VARIABLES
    server,     \* where each server is
    held,       \* the entries it has read and is about to write
    open,       \* the file it is writing to: see Handle
    index,      \* what servers.json names
    tmp,        \* what servers.json.tmp names, or Missing
    overlapped, \* history: two servers have been rewriting the index at once
    watchers,   \* Server.byRun, with the pickers under None
    client,     \* where each command is
    dialled,    \* the server it is connected to
    seen,       \* watchState.runID of its connection, if attached
    todo,       \* the servers it has still to try
    wanted,     \* the run it names
    ownerWasUp, \* history: the run's owner was serving when the command began
    slow        \* history: a round trip of the command has timed out

serverVars == <<server, held, open>>
fileVars == <<index, tmp>>
watchVars == <<dialled, seen>>
callVars == <<todo, wanted, ownerWasUp, slow>>
controlVars == <<serverVars, fileVars, overlapped, watchers, client, watchVars, callVars>>

-----------------------------------------------------------------------------
(* Types *)

(* Entering and leaving the index are the same three steps. *)
Entering == {"enterOpen", "enterWrite", "enterRename"}
Leaving == {"leaveOpen", "leaveWrite", "leaveRename"}

ServerStep == {"new", "listening", "up", "closing", "closed", "failed", "gone"} \cup Entering \cup Leaving

(* No file of that name. *)
Missing == {None}

(* The file behind a handle: the shared temporary one, the index it has    *)
(* become through a rename, or one that no name leads to any more.         *)
Handle == {"none", "tmp", "index", "unlinked"}

ControlTypeOK ==
    /\ server \in [Bridge -> ServerStep]
    /\ held \in [Bridge -> SUBSET Bridge]
    /\ open \in [Bridge -> Handle]
    /\ index \in SUBSET Bridge
    /\ tmp \in (SUBSET Bridge) \cup {Missing}
    /\ overlapped \in BOOLEAN
    /\ watchers \in [Bridge -> [RunId \cup {None} -> Nat]]
    /\ client \in [Client -> {"idle", "walking", "asking", "connected", "switching",
                              "dropped", "reached", "notFound"}]
    /\ dialled \in [Client -> Bridge \cup {None}]
    /\ seen \in [Client -> {"no"} \cup RunId \cup {None}]
    /\ todo \in [Client -> SUBSET Bridge]
    /\ wanted \in [Client -> RunId \cup {None}]
    /\ ownerWasUp \in [Client -> BOOLEAN] /\ slow \in [Client -> BOOLEAN]

ControlInit ==
    /\ server = [b \in Bridge |-> "new"]
    /\ held = [b \in Bridge |-> {}]
    /\ open = [b \in Bridge |-> "none"]
    /\ index = {} /\ tmp = Missing
    /\ overlapped = FALSE
    /\ watchers = [b \in Bridge |-> [r \in RunId \cup {None} |-> 0]]
    /\ client = [c \in Client |-> "idle"]
    /\ dialled = [c \in Client |-> None]
    /\ seen = [c \in Client |-> "no"]
    /\ todo = [c \in Client |-> {}]
    /\ wanted = [c \in Client |-> None]
    /\ ownerWasUp = [c \in Client |-> FALSE]
    /\ slow = [c \in Client |-> FALSE]

-----------------------------------------------------------------------------
(* The index *)

Alive(b) == server[b] \notin {"new", "gone"}

(* LiveEntries: an entry whose process is gone is dropped when it is read. *)
LiveEntries == {b \in index : Alive(b)}

Rewriting(b) == server[b] \in Entering \cup Leaving

Becomes(b, s) == server' = [server EXCEPT ![b] = s]

(* The listener accepts before the server is in the index. *)
Listen(b) ==
    /\ server[b] = "new"
    /\ Becomes(b, "listening")
    /\ UNCHANGED <<held, open, fileVars, overlapped, watchers, client, watchVars, callVars>>

(* register: what is in the index and alive, and this server. *)
Register(b) ==
    /\ server[b] = "listening"
    /\ held' = [held EXCEPT ![b] = LiveEntries \cup {b}]
    /\ Becomes(b, "enterOpen")
    /\ overlapped' = (overlapped \/ \E o \in Bridge \ {b} : Rewriting(o))
    /\ UNCHANGED <<open, fileVars, watchers, client, watchVars, callVars>>

(* deregister: what is in it without this server. *)
Deregister(b) ==
    /\ server[b] = "closing"
    /\ held' = [held EXCEPT ![b] = LiveEntries \ {b}]
    /\ Becomes(b, "leaveOpen")
    /\ overlapped' = (overlapped \/ \E o \in Bridge \ {b} : Rewriting(o))
    /\ UNCHANGED <<open, fileVars, watchers, client, watchVars, callVars>>

(* os.WriteFile truncates the file of that name, or creates one. *)
OpenTmp(b) ==
    /\ \/ server[b] = "enterOpen" /\ Becomes(b, "enterWrite")
       \/ server[b] = "leaveOpen" /\ Becomes(b, "leaveWrite")
    /\ tmp' = {}
    /\ open' = [open EXCEPT ![b] = "tmp"]
    /\ UNCHANGED <<held, index, overlapped, watchers, client, watchVars, callVars>>

(* Over the bytes of somebody else the result may not parse. *)
Overwrite(old, new) == IF old = {} THEN {new} ELSE {new, {}}

WriteTmp(b) ==
    /\ \/ server[b] = "enterWrite" /\ Becomes(b, "enterRename")
       \/ server[b] = "leaveWrite" /\ Becomes(b, "leaveRename")
    /\ \/ /\ open[b] = "tmp"
          /\ tmp' \in Overwrite(tmp, held[b]) /\ UNCHANGED index
       \/ /\ open[b] = "index"
          /\ index' \in Overwrite(index, held[b]) /\ UNCHANGED tmp
       \/ /\ open[b] = "unlinked" /\ UNCHANGED fileVars
    /\ open' = [open EXCEPT ![b] = "none"]
    /\ held' = [held EXCEPT ![b] = {}]
    /\ UNCHANGED <<overlapped, watchers, client, watchVars, callVars>>

(* The rename; handles follow the file. *)
RenameTmp(b) ==
    /\ server[b] \in {"enterRename", "leaveRename"} /\ tmp # Missing
    /\ Becomes(b, IF server[b] = "enterRename" THEN "up" ELSE "closed")
    /\ index' = tmp /\ tmp' = Missing
    /\ open' = [o \in Bridge |-> CASE open[o] = "tmp" -> "index"
                                   [] open[o] = "index" -> "unlinked"
                                   [] OTHER -> open[o]]
    /\ UNCHANGED <<held, overlapped, watchers, client, watchVars, callVars>>

(* Another server has renamed it away: a server that was starting gives    *)
(* up, never having accepted, and one that was stopping goes on.           *)
RenameFails(b) ==
    /\ tmp = Missing
    /\ \/ server[b] = "enterRename" /\ Becomes(b, "failed")
       \/ server[b] = "leaveRename" /\ Becomes(b, "closed")
    /\ UNCHANGED <<held, open, fileVars, overlapped, watchers, client, watchVars, callVars>>

Close(b) ==
    /\ server[b] = "up"
    /\ Becomes(b, "closing")
    /\ UNCHANGED <<held, open, fileVars, overlapped, watchers, client, watchVars, callVars>>

(* The process ends, in order or not: connections and handles go with it. *)
Exit(b) ==
    /\ Alive(b)
    /\ Becomes(b, "gone")
    /\ open' = [open EXCEPT ![b] = "none"]
    /\ watchers' = [watchers EXCEPT ![b] = [r \in RunId \cup {None} |-> 0]]
    /\ seen' = [c \in Client |-> IF dialled[c] = b THEN "no" ELSE seen[c]]
    /\ UNCHANGED <<held, fileVars, overlapped, client, dialled, callVars>>

-----------------------------------------------------------------------------
(* Commands *)

(* A dial works from Listen until the listener is closed; requests are     *)
(* served once the server is registered, and on connections that are there *)
(* already until the process ends.                                         *)
Accepts(b) == Alive(b) /\ server[b] \notin {"closed", "failed"}
Answers(b) == server[b] \in {"up", "closing", "closed"} \cup Leaving

Moves(c, s) == client' = [client EXCEPT ![c] = s]

(* A command reads the index once; ownerWasUp is for CommandArrives. *)
ReadIndex(c, r) ==
    /\ client[c] = "idle"
    /\ Moves(c, "walking")
    /\ todo' = [todo EXCEPT ![c] = LiveEntries]
    /\ wanted' = [wanted EXCEPT ![c] = r]
    /\ ownerWasUp' = [ownerWasUp EXCEPT ![c] = server[Owner[r]] = "up"]
    /\ UNCHANGED <<serverVars, fileVars, overlapped, watchers, watchVars, slow>>

DialWorks(c, b) ==
    /\ client[c] = "walking" /\ b \in todo[c] /\ Accepts(b)
    /\ Moves(c, "asking")
    /\ dialled' = [dialled EXCEPT ![c] = b]
    /\ todo' = [todo EXCEPT ![c] = @ \ {b}]
    /\ UNCHANGED <<serverVars, fileVars, overlapped, watchers, seen, wanted, ownerWasUp, slow>>

(* A server that has died since the index was read is passed over. *)
DialFails(c, b) ==
    /\ client[c] = "walking" /\ b \in todo[c] /\ ~Accepts(b)
    /\ todo' = [todo EXCEPT ![c] = @ \ {b}]
    /\ UNCHANGED <<serverVars, fileVars, overlapped, watchers, client, watchVars,
                   wanted, ownerWasUp, slow>>

(* No such run, or the connection is gone. *)
SaysNo(b, r) ==
    \/ Answers(b) /\ Owner[r] # b
    \/ server[b] \in {"failed", "gone"}

Bug_FirstOnly(c) ==
    /\ client[c] = "asking" /\ SaysNo(dialled[c], wanted[c])
    /\ Moves(c, "notFound")
    /\ dialled' = [dialled EXCEPT ![c] = None]
    /\ UNCHANGED <<serverVars, fileVars, overlapped, watchers, seen, callVars>>

(* On to the next server. *)
AskNext(c) ==
    /\ client[c] = "asking" /\ SaysNo(dialled[c], wanted[c])
    /\ Moves(c, "walking")
    /\ dialled' = [dialled EXCEPT ![c] = None]
    /\ UNCHANGED <<serverVars, fileVars, overlapped, watchers, seen, callVars>>

(* The walk is over: what it was about is forgotten. *)
Forget(c) ==
    /\ todo' = [todo EXCEPT ![c] = {}]
    /\ wanted' = [wanted EXCEPT ![c] = None]
    /\ ownerWasUp' = [ownerWasUp EXCEPT ![c] = FALSE]
    /\ slow' = [slow EXCEPT ![c] = FALSE]

(* The one round trip of a verb is over; a watcher keeps its connection. *)
AskArrives(c) ==
    /\ client[c] = "asking" /\ Answers(dialled[c]) /\ Owner[wanted[c]] = dialled[c]
    /\ \/ Moves(c, "reached") /\ dialled' = [dialled EXCEPT ![c] = None]
       \/ Moves(c, "connected") /\ UNCHANGED dialled
    /\ Forget(c)
    /\ UNCHANGED <<serverVars, fileVars, overlapped, watchers, seen>>

(* doDeadline: the owner's late reply counts for nothing either. *)
AskTimesOut(c) ==
    /\ client[c] = "asking"
    /\ Moves(c, "walking")
    /\ dialled' = [dialled EXCEPT ![c] = None]
    /\ slow' = [slow EXCEPT ![c] = TRUE]
    /\ UNCHANGED <<serverVars, fileVars, overlapped, watchers, seen, todo, wanted, ownerWasUp>>

GiveUp(c) ==
    /\ client[c] = "walking" /\ todo[c] = {}
    /\ Moves(c, "notFound")
    /\ UNCHANGED <<serverVars, fileVars, overlapped, watchers, watchVars, callVars>>

-----------------------------------------------------------------------------
(* Watchers *)

Serves(c) == dialled[c] # None /\ Answers(dialled[c])

(* Server.attach and Server.detach, each under the server's mutex. *)
Attach(b, r) == watchers' = [watchers EXCEPT ![b][r] = @ + 1]

Detach(b, r) == watchers' = [watchers EXCEPT ![b][r] = IF @ > 0 THEN @ - 1 ELSE @]

Sees(c, r) == seen' = [seen EXCEPT ![c] = r]

Bug_AttachAgain(c, r) ==
    /\ client[c] = "connected" /\ Serves(c)
    /\ Attach(dialled[c], r) /\ Sees(c, r)
    /\ UNCHANGED <<serverVars, fileVars, overlapped, client, dialled, callVars>>

(* attach for a connection that watches nothing; for the same target again *)
(* it changes nothing.                                                     *)
AttachFirst(c, r) ==
    /\ client[c] = "connected" /\ Serves(c) /\ seen[c] = "no"
    /\ Attach(dialled[c], r) /\ Sees(c, r)
    /\ UNCHANGED <<serverVars, fileVars, overlapped, client, dialled, callVars>>

(* attach for another target: the first of two critical sections, ... *)
SwitchFrom(c, r) ==
    /\ client[c] = "connected" /\ Serves(c) /\ seen[c] \notin {"no", r}
    /\ Detach(dialled[c], seen[c])
    /\ Moves(c, "switching")
    /\ wanted' = [wanted EXCEPT ![c] = r]
    /\ UNCHANGED <<serverVars, fileVars, overlapped, watchVars, todo, ownerWasUp, slow>>

(* ... and the second. *)
SwitchTo(c) ==
    /\ client[c] = "switching" /\ Serves(c)
    /\ Attach(dialled[c], wanted[c]) /\ Sees(c, wanted[c])
    /\ Moves(c, "connected")
    /\ wanted' = [wanted EXCEPT ![c] = None]
    /\ UNCHANGED <<serverVars, fileVars, overlapped, dialled, todo, ownerWasUp, slow>>

DetachVerb(c) ==
    /\ client[c] = "connected" /\ Serves(c) /\ seen[c] # "no"
    /\ Detach(dialled[c], seen[c]) /\ Sees(c, "no")
    /\ UNCHANGED <<serverVars, fileVars, overlapped, client, dialled, callVars>>

(* The client goes, with or without having detached. *)
Drop(c) ==
    /\ client[c] = "connected"
    /\ Moves(c, "dropped")
    /\ UNCHANGED <<serverVars, fileVars, overlapped, watchers, watchVars, callVars>>

(* serve notices, and its deferred detach runs. *)
Noticed(c) ==
    /\ client[c] = "dropped"
    /\ IF Serves(c) /\ seen[c] # "no" THEN Detach(dialled[c], seen[c]) ELSE UNCHANGED watchers
    /\ Sees(c, "no")
    /\ dialled' = [dialled EXCEPT ![c] = None]
    /\ Moves(c, "reached")
    /\ UNCHANGED <<serverVars, fileVars, overlapped, callVars>>

-----------------------------------------------------------------------------
ControlNext ==
    \/ \E b \in Bridge :
        \/ Listen(b) \/ Register(b) \/ Close(b) \/ Deregister(b)
        \/ OpenTmp(b) \/ WriteTmp(b) \/ RenameTmp(b) \/ RenameFails(b) \/ Exit(b)
    \/ \E c \in Client :
        \/ \E r \in RunId : ReadIndex(c, r)
        \/ \E b \in Bridge : DialWorks(c, b) \/ DialFails(c, b)
        \/ AskNext(c) \/ AskArrives(c) \/ AskTimesOut(c) \/ GiveUp(c)
        \/ \E r \in RunId \cup {None} : AttachFirst(c, r) \/ SwitchFrom(c, r)
        \/ SwitchTo(c) \/ DetachVerb(c) \/ Drop(c) \/ Noticed(c)

ControlSpec == ControlInit /\ [][ControlNext]_controlVars

-----------------------------------------------------------------------------
(* Properties *)

(* The connections whose attachment to r server b has to count: one that   *)
(* is switching has left the old target and is not yet at the new one.     *)
Attached(b, r) ==
    {c \in Client : dialled[c] = b /\ seen[c] = r /\ client[c] # "switching"}

(* A server's counts are its connections' attachments, through repeated    *)
(* attaches, switches, detaches and connections that drop: none is lost,   *)
(* and none stays behind to claim a question that no watcher shows         *)
(* (server.go:124-171).                                                    *)
WatchersExact ==
    \A b \in Bridge, r \in RunId \cup {None} : watchers[b][r] = Cardinality(Attached(b, r))

(* A command for a run whose server is up from its beginning to its end    *)
(* arrives, unless a round trip timed out or the index was rewritten by    *)
(* two servers at once (watch.go:233-255, accept.go:174-204).              *)
CommandArrives ==
    \A c \in Client :
        client[c] = "notFound" /\ ownerWasUp[c] /\ ~overlapped /\ ~slow[c]
            => server[Owner[wanted[c]]] # "up"

=============================================================================
