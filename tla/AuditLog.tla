------------------------------ MODULE AuditLog ------------------------------
(***************************************************************************)
(* The audit log: every server of a user appends to one file, counts its   *)
(* size for itself, and rotates it by renaming.  A handle follows its file *)
(* through the renames of others, and through its removal.                 *)
(*                                                                         *)
(* A line is one unit of size.  Each server writes under its own mutex, so *)
(* its steps are in order; between servers nothing is.  The clock does not *)
(* go backwards.  Callers ignore what Write returns.                       *)
(***************************************************************************)
EXTENDS Argv, FiniteSets

CONSTANTS
    Process,      \* the servers that share the log
    Template,     \* args templates an agent may be configured with
    RotateLines,  \* rotate_bytes, in lines
    RetainFiles,  \* retain_files
    MaxEntry,     \* bound: lines written
    MaxSecond     \* bound: the clock

ASSUME AuditAssumption ==
    /\ RotateLines \in Nat \ {0}
    /\ RetainFiles \in Nat \ {0}
    /\ IsFiniteSet(Process) /\ Process # {}
    /\ Template \subseteq Seq(Element)
    /\ MaxEntry \in Nat /\ MaxSecond \in Nat

VARIABLES
    template,  \* the args of the agent that is asked
    clock,     \* the time, in seconds: a rotated file's name ends in it
    live,      \* the file at path
    rotated,   \* rotated[t]: the file at path.t
    files,     \* every file there ever was, in the order of creation
    server,    \* server[p]: where server p is
    handle,    \* handle[p]: the file it has open
    size,      \* size[p]: what it takes the size of its file to be
    stamp,     \* stamp[p]: the second its rotation is to put in the file's new name
    doomed,    \* doomed[p]: the names it has still to remove
    key,       \* key[p]: the key it signs digests with
    keyFile,   \* what hmac_key_file has
    begun,     \* how many lines were ever begun; it numbers them
    kept,      \* entries whose Write returned nil
    collided,  \* servers whose rotation found that another had just renamed path
    faulted,   \* servers whose rotation met an I/O error
    twoKeys    \* whether a key was made where another was, or was being made

dirVars == <<live, rotated, files>>
rotateVars == <<stamp, doomed>>
keyVars == <<key, keyFile, twoKeys>>
ghostVars == <<begun, kept, collided, faulted>>
auditVars == <<template, clock, dirVars, server, handle, size, rotateVars, keyVars,
               ghostVars>>

-----------------------------------------------------------------------------
(* What an entry shows *)

(* What an ask's entry shows: run.admitted has the argv, and the digest of *)
(* the prompt.  audit.bodies is off.                                       *)
Prompt == "the prompt"
Values == [ph \in Single \cup Lists |->
              IF ph \in Lists THEN <<"--sandbox">>
              ELSE IF ph = "prompt" THEN Prompt ELSE "other"]

(* How many of its arguments show the prompt, ... *)
Shown(t) ==
    LET argv == RedactArgv(BuildArgs(t, Values), Prompt)
    IN  Cardinality({i \in DOMAIN argv : argv[i].value = Prompt})

(* ... and where its template binds the prompt to a flag. *)
Bound(t) == {i \in DOMAIN t : t[i] = Binding(t[i].flag, "prompt")}

-----------------------------------------------------------------------------
(* Types *)

Entry == 1..MaxEntry
Second == 0..MaxSecond
NoFile == 0
NoKey == 0
Key == 1..(Cardinality(Process) + MaxEntry + 2)   \* enough for a fresh one
Partial == -1          \* a key file that is truncated, or not yet whole

(* The templates that load and that an agent is started with. *)
Runnable == {t \in Template : Loads(t) /\ Builds(t)}

(* An entry says its number, with which key it is digested, and how many   *)
(* of its arguments show the prompt; a torn line lacks its end.            *)
Torn == [n |-> 0, key |-> NoKey, shown |-> 0]
Line == [n : Entry, key : Key, shown : {Shown(t) : t \in Runnable}] \cup {Torn}

(* age: how often path was renamed since this file was at it; ahead: how   *)
(* many names were later than its own when it got it; clobbered: another   *)
(* file was renamed to the same name.                                      *)
LogFile == [lines : Seq(Line), age : Nat, ahead : Nat, clobbered : BOOLEAN]
NewFile == [lines |-> <<>>, age |-> 0, ahead |-> 0, clobbered |-> FALSE]

(* "minting" has a new key to store; "storing" has truncated the file;     *)
(* "rotating", "renamed" and "pruning" are between the calls of rotate;    *)
(* "writing" has rotated; "dead" has a closed file, and every Write fails. *)
ServerStep == {"down", "minting", "storing", "opening", "up", "rotating", "renamed",
               "pruning", "writing", "dead"}

AuditTypeOK ==
    /\ template \in {t \in Template : Loads(t)}
    /\ clock \in Second
    /\ files \in Seq(LogFile)
    /\ live \in 0..Len(files)
    /\ rotated \in [Second -> 0..Len(files)]
    /\ server \in [Process -> ServerStep]
    /\ handle \in [Process -> 0..Len(files)]
    /\ size \in [Process -> Nat]
    /\ stamp \in [Process -> Second] /\ doomed \in [Process -> SUBSET Second]
    /\ key \in [Process -> {NoKey} \cup Key] /\ keyFile \in {NoKey, Partial} \cup Key
    /\ \A p \in Process : server[p] # "down" => key[p] # NoKey
    /\ begun \in 0..MaxEntry /\ kept \in SUBSET (1..begun)
    /\ collided \in SUBSET Process /\ faulted \in SUBSET Process
    /\ twoKeys \in BOOLEAN

AuditInit ==
    /\ template \in {t \in Template : Loads(t)}
    /\ clock = 0
    /\ live = NoFile
    /\ rotated = [t \in Second |-> NoFile]
    /\ files = <<>>
    /\ server = [p \in Process |-> "down"]
    /\ handle = [p \in Process |-> NoFile]
    /\ size = [p \in Process |-> 0]
    /\ stamp = [p \in Process |-> 0] /\ doomed = [p \in Process |-> {}]
    /\ key = [p \in Process |-> NoKey] /\ keyFile = NoKey
    /\ begun = 0 /\ kept = {} /\ collided = {} /\ faulted = {}
    /\ twoKeys = FALSE

-----------------------------------------------------------------------------
(* Helpers *)

At(p, from, to) == server[p] = from /\ server' = [server EXCEPT ![p] = to]

(* OpenFile with O_CREATE and O_APPEND. *)
OpenPath(p) ==
    IF live # NoFile
    THEN handle' = [handle EXCEPT ![p] = live] /\ UNCHANGED dirVars
    ELSE /\ files' = Append(files, NewFile)  \* created, empty
         /\ live' = Len(files) + 1
         /\ handle' = [handle EXCEPT ![p] = Len(files) + 1]
         /\ UNCHANGED rotated

(* Every line there ever was, with those of files that are gone.           *)
Lines == UNION {ToSet(files[f].lines) : f \in DOMAIN files}
LineKeys == {line.key : line \in Lines}
KeysInUse == {keyFile} \cup {key[p] : p \in Process} \cup LineKeys

(* Random bytes: a key that was never used. *)
NewKey == CHOOSE k \in Key : k \notin KeysInUse

EntryOf(p) == [n |-> begun + 1, key |-> key[p], shown |-> Shown(template)]

(* O_APPEND: the line goes to the end of the file, wherever it is now.     *)
AppendLine(p, line) ==
    /\ files' = [files EXCEPT ![handle[p]].lines = Append(@, line)]
    /\ begun' = begun + 1

(* An ask whose arguments cannot be built is refused before its entry.     *)
MayWrite(p) ==
    /\ Builds(template)
    /\ begun < MaxEntry
    /\ handle[p] # NoFile
    /\ \/ server[p] = "writing"
       \/ server[p] = "up" /\ size[p] + 1 <= RotateLines

-----------------------------------------------------------------------------
(* New *)

(* Bound: of a whole key, reads fail until there are two keys; from then   *)
(* on nothing is said of keys, and one more makes no difference.           *)
MayMisread == keyFile \in Key => ~twoKeys

(* loadOrCreateKey reads a whole key, or makes one.  It also makes one if  *)
(* the read fails, and that one is to replace the key it could not read.   *)
Start(p) ==
    /\ server[p] = "down"
    /\ \/ /\ keyFile \in Key
          /\ server' = [server EXCEPT ![p] = "opening"]
          /\ key' = [key EXCEPT ![p] = keyFile]
          /\ twoKeys' = twoKeys
       \/ /\ MayMisread
          /\ server' = [server EXCEPT ![p] = "minting"]
          /\ key' = [key EXCEPT ![p] = NewKey]
          /\ twoKeys' = \/ twoKeys
                        \/ keyFile \in Key
                        \/ \E q \in Process : server[q] \in {"minting", "storing"}
    /\ UNCHANGED <<template, clock, dirVars, handle, size, rotateVars, keyFile, ghostVars>>

(* WriteFile truncates the key file, then writes to it.                    *)
Truncate(p) ==
    /\ At(p, "minting", "storing")
    /\ keyFile' = Partial
    /\ UNCHANGED <<template, clock, dirVars, handle, size, rotateVars, key, twoKeys,
                   ghostVars>>

Store(p) ==
    /\ At(p, "storing", "opening")
    /\ keyFile' = key[p]
    /\ UNCHANGED <<template, clock, dirVars, handle, size, rotateVars, key, twoKeys,
                   ghostVars>>

(* Open takes the size of the file as it is now.                           *)
Open(p) ==
    /\ At(p, "opening", "up")
    /\ OpenPath(p)
    /\ size' = [size EXCEPT ![p] = IF live = NoFile THEN 0 ELSE Len(files[live].lines)]
    /\ UNCHANGED <<template, clock, rotateVars, keyVars, ghostVars>>

-----------------------------------------------------------------------------
(* Write *)

(* The line is written and synced, and Write returns nil.                  *)
WriteEntry(p) ==
    /\ MayWrite(p)
    /\ AppendLine(p, EntryOf(p))
    /\ kept' = kept \cup {begun + 1}
    /\ size' = [size EXCEPT ![p] = @ + 1]
    /\ server' = [server EXCEPT ![p] = "up"]
    /\ UNCHANGED <<template, clock, live, rotated, handle, rotateVars, keyVars, collided,
                   faulted>>

(* The write stops half-way, or the sync fails: Write returns the error.   *)
EntryFails(p) ==
    /\ MayWrite(p)
    /\ \E line \in {Torn, EntryOf(p)} : AppendLine(p, line)
    /\ size' = [size EXCEPT ![p] = @ + 1]
    /\ server' = [server EXCEPT ![p] = "up"]
    /\ UNCHANGED <<template, clock, live, rotated, handle, rotateVars, keyVars, kept,
                   collided, faulted>>

-----------------------------------------------------------------------------
(* rotate *)

(* The file is closed, of which no other server knows, and the clock read. *)
(* (At the bound, a Write may rotate and then has no line left to write.)  *)
CloseFull(p) ==
    /\ Builds(template)
    /\ size[p] + 1 > RotateLines /\ handle[p] # NoFile
    /\ At(p, "up", "rotating")
    /\ handle' = [handle EXCEPT ![p] = NoFile]
    /\ stamp' = [stamp EXCEPT ![p] = clock]
    /\ UNCHANGED <<template, clock, dirVars, size, doomed, keyVars, ghostVars>>

Newer(t) == {u \in Second : u > t /\ rotated[u] # NoFile}

(* The name has the second that was read, and there may be later ones by   *)
(* now.  A file of that name is replaced.                                  *)
Rename(p) ==
    /\ live # NoFile
    /\ At(p, "rotating", "renamed")
    /\ rotated' = [rotated EXCEPT ![stamp[p]] = live]
    /\ live' = NoFile
    /\ files' = [f \in DOMAIN files |->
                    [files[f] EXCEPT
                        !.age = IF f = live \/ files[f].age > 0 THEN @ + 1 ELSE @,
                        !.ahead = IF f = live THEN Cardinality(Newer(stamp[p])) ELSE @,
                        !.clobbered = @ \/ f = rotated[stamp[p]]]]
    /\ stamp' = [stamp EXCEPT ![p] = 0]
    /\ UNCHANGED <<template, clock, handle, size, doomed, keyVars, ghostVars>>

(* Another server has renamed path and not yet opened it again: the rename *)
(* fails, with the file closed.                                            *)
RenameCollides(p) ==
    /\ live = NoFile
    /\ At(p, "rotating", "dead")
    /\ collided' = collided \cup {p}
    /\ stamp' = [stamp EXCEPT ![p] = 0]
    /\ UNCHANGED <<template, clock, dirVars, handle, size, doomed, keyVars, begun,
                   kept, faulted>>

Bug_PruneToo ==
    {t \in Second : rotated[t] # NoFile /\ Cardinality(Newer(t)) + 1 >= RetainFiles}

(* pruneOldFiles goes by the names: the latest RetainFiles of them stay.   *)
Old == {t \in Second : rotated[t] # NoFile /\ Cardinality(Newer(t)) >= RetainFiles}

(* Glob lists the names, ...                                               *)
List(p) ==
    /\ At(p, "renamed", "pruning")
    /\ doomed' = [doomed EXCEPT ![p] = Old]
    /\ UNCHANGED <<template, clock, dirVars, handle, size, stamp, keyVars, ghostVars>>

(* ... and each old one is removed, the earliest first, whatever file has  *)
(* it by now.  A removal that fails is ignored; a directory that cannot be *)
(* listed is as if all of them failed.                                     *)
RemoveOld(p) ==
    /\ server[p] = "pruning"
    /\ \E t \in doomed[p] :
          /\ \A u \in doomed[p] : t <= u
          /\ doomed' = [doomed EXCEPT ![p] = @ \ {t}]
          /\ \E f \in {NoFile, rotated[t]} : rotated' = [rotated EXCEPT ![t] = f]
    /\ UNCHANGED <<template, clock, live, files, server, handle, size, stamp, keyVars,
                   ghostVars>>

Bug_KeepClosed(p) ==
    /\ At(p, "pruning", "dead")
    /\ UNCHANGED <<template, clock, dirVars, handle, size, rotateVars, keyVars, ghostVars>>

(* The new size is zero, whatever another server has written there by now. *)
Reopen(p) ==
    /\ doomed[p] = {}
    /\ At(p, "pruning", "writing")
    /\ OpenPath(p)
    /\ size' = [size EXCEPT ![p] = 0]
    /\ UNCHANGED <<template, clock, rotateVars, keyVars, ghostVars>>

(* Close, Rename or OpenFile fails: rotate returns with the file closed.   *)
RotateFails(p) ==
    /\ server[p] \in {"rotating", "pruning"} /\ doomed[p] = {}
    /\ server' = [server EXCEPT ![p] = "dead"]
    /\ faulted' = faulted \cup {p}
    /\ stamp' = [stamp EXCEPT ![p] = 0]
    /\ UNCHANGED <<template, clock, dirVars, handle, size, doomed, keyVars, begun, kept,
                   collided>>

-----------------------------------------------------------------------------
(* The end of a server *)

Gone(p) ==
    /\ server' = [server EXCEPT ![p] = "down"]
    /\ handle' = [handle EXCEPT ![p] = NoFile]
    /\ key' = [key EXCEPT ![p] = NoKey]
    /\ size' = [size EXCEPT ![p] = 0]
    /\ stamp' = [stamp EXCEPT ![p] = 0] /\ doomed' = [doomed EXCEPT ![p] = {}]
    /\ collided' = collided \ {p} /\ faulted' = faulted \ {p}
    /\ UNCHANGED <<template, clock, live, rotated, keyFile, twoKeys, kept>>

(* Close waits for a Write; a kill comes anywhere, also within the writing *)
(* of a line.                                                              *)
Stop(p) == server[p] # "down" /\ Gone(p) /\ UNCHANGED <<files, begun>>

StopInWrite(p) == MayWrite(p) /\ Gone(p) /\ AppendLine(p, Torn)

Tick ==
    /\ clock < MaxSecond
    /\ clock' = clock + 1
    /\ UNCHANGED <<template, dirVars, server, handle, size, rotateVars, keyVars, ghostVars>>

AuditNext ==
    \/ \E p \in Process :
          \/ Start(p) \/ Truncate(p) \/ Store(p) \/ Open(p)
          \/ WriteEntry(p) \/ EntryFails(p)
          \/ CloseFull(p) \/ Rename(p) \/ RenameCollides(p)
          \/ List(p) \/ RemoveOld(p) \/ Reopen(p) \/ RotateFails(p)
          \/ Stop(p) \/ StopInWrite(p)
    \/ Tick

AuditSpec == AuditInit /\ [][AuditNext]_auditVars

-----------------------------------------------------------------------------
(* Properties *)

OnDisk(f) == f = live \/ \E t \in Second : rotated[t] = f

(* An entry whose Write returned nil is in a file of the log from then on, *)
(* until more than retain_files rotations have come after it.  This is so  *)
(* with any number of servers that write, rotate and prune without a lock  *)
(* between them, with handles to files that were renamed and removed, with *)
(* kills and with failing calls.  Two exceptions are in the code: a file   *)
(* is lost when another is renamed to the same name, and a file that was   *)
(* renamed late, under an earlier second than names already there, goes as *)
(* many rotations sooner as there are such names ("the timestamp format    *)
(* sorts chronologically" says pruneOldFiles, but by when rotations began, *)
(* not by when the files were renamed).  (An entry that follows a torn     *)
(* line is glued to it, and is in the file all the same.)                  *)
AckedKept ==
    \A n \in kept : \E f \in DOMAIN files :
        /\ \E line \in ToSet(files[f].lines) : line.n = n
        /\ OnDisk(f) \/ files[f].age + files[f].ahead > RetainFiles \/ files[f].clobbered

(* A server stops auditing only for an I/O error, or because its rotation  *)
(* ran into another's, after which it never writes again; and however the  *)
(* rotations meet, they do not silence every server at once.               *)
AuditsOn ==
    /\ \A p \in Process : server[p] = "dead" => p \in faulted \cup collided
    /\ collided # Process

(* The log names a prompt by its digest alone, and by one digest: only the *)
(* arguments where the template binds the prompt to a flag show it, and    *)
(* all entries are digested with one key, over restarts and with kills     *)
(* between the truncation and the writing of the key file.  Two exceptions *)
(* are in the code: two servers make a key at once, and a server that      *)
(* cannot read the key file replaces the key in it ("It is created if      *)
(* absent", says Options of KeyFile).                                      *)
DigestsSound ==
    \A line \in Lines \ {Torn} :
        /\ line.shown <= Cardinality(Bound(template))
        /\ \A other \in Lines \ {Torn} : twoKeys \/ line.key = other.key

=============================================================================
