-------------------------------- MODULE Daemon --------------------------------
(***************************************************************************)
(* The k8netd process around the control plane: main() from its flags and  *)
(* environment to the accept loop, the state file it loads, migrates and   *)
(* saves, and the clients of the control socket, over crashes, power       *)
(* failures and failing system calls.                                      *)
(*                                                                         *)
(* The control plane is reduced to what the file must not lose: the        *)
(* allocations of the publish table, the one part try_new restores.  What  *)
(* each handler does to the rest is module ControlPlane.                   *)
(***************************************************************************)
EXTENDS Naturals, FiniteSets, Sequences

CONSTANTS Clients,       \* connections a client may open, one at a time each
          Keys,          \* (port, vm_port) pairs
          None,
          Torn,          \* a file whose text is not the JSON document
          MaxCrashes,    \* bound on crashes and power failures
          MaxFaults      \* bound on failing system calls

ASSUME DaemonAssumption ==
  /\ IsFiniteSet(Keys)
  /\ MaxCrashes \in Nat /\ MaxFaults \in Nat
  /\ None \notin Clients /\ Torn # None

VARIABLES
  setup,      \* what main() makes of its arguments and environment
  pc,         \* where the server thread is
  mem,        \* the publish table in memory
  missed,     \* history: a file taken for missing ("yes"), and then saved over
  file,       \* state.json: the text read back, and the texts power loss may leave
  old,        \* texts a lost rename may bring back as state.json
  tmp,        \* .state.json.tmp, in the same form
  sock,       \* control.sock exists in the directory
  conn,       \* each client's connection: "none", "open", or "closed" by the client
  line,       \* the line each client sent, or None
  backlog,    \* connections waiting to be accepted
  serving,    \* the connection being handled, or None
  answer,     \* the reply about to be written
  acked,      \* per pair: the last answered outcome, None while in doubt
  crashes, faults

disk   == <<file, old, tmp>>
memory == <<mem, missed>>
socket == <<conn, line, backlog, serving>>
vars   == <<setup, pc, memory, disk, sock, socket, answer, acked, crashes, faults>>

-------------------------------------------------------------------------------
(* Configuration: every setting is unset, well formed or malformed.        *)

Given == {"unset", "good", "bad"}

\* Config::resolve for one setting: flag over environment over default.
Setting(flag, env) ==
  IF flag # "unset" THEN flag ELSE IF env # "unset" THEN env ELSE "good"

\* A flag is unknown or lacks its value (`known`), or --mtu is no number.
FlagsParse(flags) == flags.known /\ flags.mtu # "bad"

\* Any text names a directory or a binary; the resolvers, the MTU and the
\* publish range (environment only) must be well formed.
Resolves(flags, env) ==
  "bad" \notin { Setting(flags.dns, env.dns), Setting(flags.mtu, env.mtu),
                 Setting("unset", env.range) }

\* main() up to the dataplane: the banner, exit status 2, or on to try_new.
Main(version, flags, env) ==
  CASE version -> "banner"
    [] ~version /\ FlagsParse(flags) /\ Resolves(flags, env) -> "run"
    [] OTHER -> "usage"

Setups ==
  { Main(version, flags, env) :
      version \in BOOLEAN,
      flags \in [known: BOOLEAN, mtu: Given, dns: Given],
      env \in [mtu: Given, dns: Given, range: Given] }

-------------------------------------------------------------------------------
(* The state file.                                                         *)

STATE_FORMAT_VERSION == 2

Documents == [version: 1..3, table: SUBSET Keys]

\* A file is its text as the process reads it and the texts that a power
\* failure may leave of it, until its data is synced.
Files == [seen: Documents \cup {None, Torn}, images: SUBSET (Documents \cup {None, Torn})]

Synced(text) == [seen |-> text, images |-> {text}]

\* deserialize_snapshot: version 1 is read as version 2, another is refused.
Loads(text) ==
  \/ text = None
  \/ text \notin {None, Torn} /\ text.version \in {1, STATE_FORMAT_VERSION}

Table(text) == IF text \in {None, Torn} THEN {} ELSE text.table

\* All a power failure may leave as state.json.
Images == file.images \cup old

-------------------------------------------------------------------------------
(* Requests.                                                               *)

Methods == {"PublishPort", "UnpublishPort", "GetPort", "CreateNetwork", "Nope"}

Requests == [method: Methods, key: Keys]

\* A line may also be no text, or text that is no request.
BadLines == [bad: {"binary", "refused"}]

Binary == [bad |-> "binary"]

RpcErrors == {"ParseError", "InvalidRequest", "InvalidParams", "MethodNotFound",
              "NotFound", "Conflict", "Internal"}

\* A response is a result or one of the errors, never both.
Responses == RpcErrors \cup {"Ok"}

ASSUME MarksAssumption ==
  /\ None \notin Documents /\ Torn \notin Documents
  /\ None \notin Requests
  /\ None \notin Responses \cup {"in", "out"}

\* Request::parse: no JSON, no envelope, another protocol version.
ParseErrors == {"ParseError", "InvalidRequest", "InvalidParams"}

\* Every end of the process: its memory and its connections are gone, its
\* files and its socket's name stay.
Exit ==
  /\ pc' = "down"
  /\ mem' = {}
  /\ missed' = IF missed = "yes" THEN "no" ELSE missed
  /\ conn' = [c \in Clients |-> "none"]
  /\ line' = [c \in Clients |-> None]
  /\ backlog' = <<>>
  /\ serving' = None
  /\ answer' = None

\* A failing system call, while the bound allows one.
Fault == faults < MaxFaults /\ faults' = faults + 1

-------------------------------------------------------------------------------
(* Starting.                                                               *)

\* The service manager starts the process (Restart=always).
Start ==
  /\ pc = "down" /\ setup = "run"
  /\ pc' = "loading"
  /\ UNCHANGED <<setup, memory, disk, sock, socket, answer, acked, crashes, faults>>

\* Mutant: a file that does not load counts as an empty one.
TryNewOrEmpty ==
  /\ pc = "loading"
  /\ mem' = Table(file.seen) /\ pc' = "unlink"
  /\ UNCHANGED <<setup, missed, disk, sock, socket, answer, acked, crashes, faults>>

\* try_new: a file that does not load ends the process with status 1; a
\* version 1 file is saved in the new format before anything else.  A failing
\* read ends the process; a failing stat is taken by exists() for a missing
\* file, and the process goes on with an empty table.
TryNew ==
  /\ pc = "loading"
  /\ UNCHANGED <<setup, disk, sock, acked, crashes>>
  /\ \/ /\ Loads(file.seen)
        /\ mem' = Table(file.seen)
        /\ pc' = IF file.seen # None /\ file.seen.version = 1 THEN "write" ELSE "unlink"
        /\ UNCHANGED <<missed, socket, answer, faults>>
     \/ ~Loads(file.seen) /\ Exit /\ UNCHANGED faults
     \/ Fault /\ Exit
     \/ /\ file.seen # None
        /\ Fault
        /\ mem' = {} /\ pc' = "unlink"
        /\ missed' = IF missed = "no" THEN "yes" ELSE missed
        /\ UNCHANGED <<socket, answer>>

\* Mutant: the stale socket stays.
UnlinkForgotten ==
  /\ pc = "unlink" /\ pc' = "bind"
  /\ UNCHANGED <<setup, memory, disk, sock, socket, answer, acked, crashes, faults>>

\* serve: the directory is made and a stale socket of an earlier run unlinked.
Unlink ==
  /\ pc = "unlink"
  /\ UNCHANGED <<setup, disk, acked, crashes>>
  /\ \/ pc' = "bind" /\ sock' = FALSE /\ UNCHANGED <<memory, socket, answer, faults>>
     \/ Fault /\ Exit /\ UNCHANGED sock

\* bind(2) creates the path and fails on one that exists.
Bind ==
  /\ pc = "bind"
  /\ UNCHANGED <<setup, disk, acked, crashes>>
  /\ \/ ~sock /\ pc' = "accept" /\ sock' = TRUE /\ UNCHANGED <<memory, socket, answer, faults>>
     \/ (IF sock THEN UNCHANGED faults ELSE Fault) /\ Exit /\ UNCHANGED sock

-------------------------------------------------------------------------------
(* save_to_disk, for a handler (`serving` is set) or for the migration.    *)

\* Mutant: a failed migration is treated like a failed request.
SaveFailsAnswering ==
  Fault /\ pc' = "reply" /\ answer' = "Internal" /\ UNCHANGED <<memory, socket>>

\* An error: the handler answers Internal, the migration ends the process.
SaveFails ==
  /\ Fault
  /\ IF serving = None THEN Exit
     ELSE pc' = "reply" /\ answer' = "Internal" /\ UNCHANGED <<memory, socket>>

Saves(step, next) == pc = step /\ pc' = next /\ UNCHANGED <<memory, socket, answer, faults>>

WriteTmp ==
  /\ \/ /\ Saves("write", "sync")
        /\ LET text == [version |-> STATE_FORMAT_VERSION, table |-> mem]
           IN  tmp' = [seen |-> text, images |-> {text, Torn}]
     \/ /\ pc = "write" /\ SaveFails
        /\ tmp' = Synced(Torn)
  /\ UNCHANGED <<setup, file, old, sock, acked, crashes>>

\* Mutant: the temporary file is renamed without syncing its data.
SyncTmpForgotten ==
  Saves("sync", "rename") /\ UNCHANGED <<setup, disk, sock, acked, crashes>>

SyncTmp ==
  /\ \/ Saves("sync", "rename") /\ tmp' = Synced(tmp.seen)
     \/ pc = "sync" /\ SaveFails /\ UNCHANGED tmp
  /\ UNCHANGED <<setup, file, old, sock, acked, crashes>>

Rename ==
  /\ \/ /\ pc = "rename" /\ pc' = "syncdir"
        /\ missed' = IF missed = "yes" THEN "saved" ELSE missed
        /\ UNCHANGED <<mem, socket, answer, faults>>
        /\ file' = tmp /\ old' = Images
        /\ tmp' = Synced(None)
     \/ pc = "rename" /\ SaveFails /\ UNCHANGED disk
  /\ UNCHANGED <<setup, sock, acked, crashes>>

\* The directory is synced; then a handler goes on to passt, which may fail or
\* find the port's reservation gone.
SyncDir ==
  /\ \/ /\ pc = "syncdir"
        /\ old' = {}
        /\ IF serving = None THEN pc' = "unlink" /\ UNCHANGED answer
           ELSE pc' = "reply" /\ answer' \in {"Ok", "NotFound", "Internal"}
        /\ UNCHANGED <<memory, socket, faults>>
     \/ pc = "syncdir" /\ SaveFails /\ UNCHANGED old
  /\ UNCHANGED <<setup, file, tmp, sock, acked, crashes>>

-------------------------------------------------------------------------------
(* The clients.                                                            *)

Listening == {"accept", "read", "write", "sync", "rename", "syncdir", "reply"}

Connect(c) ==
  /\ sock /\ pc \in Listening /\ (serving = None => pc = "accept")
  /\ conn[c] = "none"
  /\ conn' = [conn EXCEPT ![c] = "open"]
  /\ backlog' = Append(backlog, c)
  /\ UNCHANGED <<setup, pc, memory, disk, sock, line, serving, answer, acked, crashes, faults>>

Send(c, text) ==
  /\ conn[c] = "open" /\ line[c] = None
  /\ line' = [line EXCEPT ![c] = text]
  /\ UNCHANGED <<setup, pc, memory, disk, sock, conn, backlog, serving, answer, acked, crashes,
                 faults>>

\* The client gives up: what it sent is still read, the answer is lost.
Close(c) ==
  /\ conn[c] = "open"
  /\ conn' = [conn EXCEPT ![c] = "closed"]
  /\ UNCHANGED <<setup, pc, memory, disk, sock, line, backlog, serving, answer, acked, crashes,
                 faults>>

-------------------------------------------------------------------------------
(* The accept loop, one connection at a time.                              *)

\* An error of accept (`stream?`) ends serve, and main with status 1.
Accept ==
  /\ pc = "accept"
  /\ UNCHANGED <<setup, disk, sock, acked, crashes>>
  /\ \/ /\ backlog # <<>>
        /\ pc' = "read"
        /\ serving' = Head(backlog) /\ backlog' = Tail(backlog)
        /\ UNCHANGED <<memory, conn, line, answer, faults>>
     \/ Fault /\ Exit

\* The stream is dropped and the loop goes on.
Drop ==
  /\ pc' = "accept"
  /\ conn' = [conn EXCEPT ![serving] = "none"]
  /\ line' = [line EXCEPT ![serving] = None]
  /\ serving' = None
  /\ UNCHANGED backlog

\* Mutant: the end of the stream is not noticed.
DropUnreadNotAtEnd ==
  /\ pc = "read" /\ line[serving] = Binary /\ Drop
  /\ UNCHANGED <<setup, memory, disk, sock, answer, acked, crashes, faults>>

\* handle_connection: a peer that closed without sending, or a line that is
\* not text, is dropped without an answer.
DropUnread ==
  /\ pc = "read"
  /\ \/ line[serving] = None /\ conn[serving] = "closed"
     \/ line[serving] = Binary
  /\ Drop
  /\ UNCHANGED <<setup, memory, disk, sock, answer, acked, crashes, faults>>

\* Request::parse refuses the line.
Refuse ==
  /\ pc = "read" /\ line[serving] \in BadLines \ {Binary}
  /\ pc' = "reply" /\ answer' \in ParseErrors
  /\ UNCHANGED <<setup, memory, disk, sock, socket, acked, crashes, faults>>

\* What a handler makes of the table; every mutating handler then persists.
Applied(req) ==
  CASE req.method = "PublishPort" -> mem \cup {req.key}
    [] req.method = "UnpublishPort" -> mem \ {req.key}
    [] OTHER -> mem

\* Handlers that change nothing: a query, an unknown method, a refusal.
Answers(req) ==
  CASE req.method = "Nope" -> {"MethodNotFound"}
    [] req.method = "GetPort" -> {"Ok", "NotFound"}
    [] req.method = "UnpublishPort" /\ req.key \notin mem -> {"NotFound"}
    [] OTHER -> {"InvalidParams", "NotFound", "Conflict"}

Persists(req) ==
  \/ req.method \in {"PublishPort", "CreateNetwork"}
  \/ req.method = "UnpublishPort" /\ req.key \in mem

\* Router::dispatch of a parsed request.
Dispatch ==
  /\ pc = "read" /\ line[serving] \in Requests
  /\ UNCHANGED <<setup, disk, sock, socket, crashes, faults>>
  /\ LET req == line[serving]
     IN \/ /\ answer' \in Answers(req) /\ pc' = "reply"
           /\ UNCHANGED <<memory, acked>>
        \/ /\ Persists(req)
           /\ mem' = Applied(req) /\ pc' = "write"
           /\ UNCHANGED missed
           /\ acked' = IF mem' # mem THEN [acked EXCEPT ![req.key] = None] ELSE acked
           /\ UNCHANGED answer

\* The response is written, or lost on a closed connection.
Reply ==
  /\ pc = "reply"
  /\ acked' =
       LET req == line[serving]
       IN  IF conn[serving] = "closed" \/ answer # "Ok" THEN acked
           ELSE CASE req.method = "PublishPort" -> [acked EXCEPT ![req.key] = "in"]
                  [] req.method = "UnpublishPort" -> [acked EXCEPT ![req.key] = "out"]
                  [] OTHER -> acked
  /\ Drop
  /\ answer' = None
  /\ UNCHANGED <<setup, memory, disk, sock, crashes, faults>>

-------------------------------------------------------------------------------
(* Failures of the host.                                                   *)

MayCrash == crashes < MaxCrashes /\ crashes' = crashes + 1

\* The process is killed.
Crash ==
  /\ pc # "down" /\ MayCrash /\ Exit
  /\ UNCHANGED <<setup, disk, sock, acked, faults>>

\* The host loses power and starts again.  Of a directory on a disk, unsynced data
\* and renames may be gone.
PowerLoss ==
  /\ MayCrash /\ Exit
  /\ \E text \in Images : file' = Synced(text)
  /\ old' = {}
  /\ tmp' = Synced(None)
  /\ UNCHANGED <<setup, sock, acked, faults>>

\* A directory on a tmpfs, as k8netd.container has it, "vanishes across reboots"
\* with all that is in it; so have the VMs the answers were for, and nothing that
\* was answered counts any more.
TmpfsLoss ==
  /\ MayCrash /\ Exit
  /\ file' = Synced(None) /\ old' = {} /\ tmp' = Synced(None)
  /\ sock' = FALSE
  /\ acked' = [k \in Keys |-> None]
  /\ UNCHANGED <<setup, faults>>

-------------------------------------------------------------------------------
\* The directory may be new, or hold a file of this or another version.
Init ==
  /\ setup \in Setups
  /\ pc = "down" /\ mem = {} /\ missed = "no"
  /\ \E text \in Documents \cup {None, Torn} :
       /\ file = Synced(text)
       /\ acked = [k \in Keys |-> IF Loads(text) /\ k \in Table(text) THEN "in" ELSE None]
  /\ old = {} /\ tmp = Synced(None) /\ sock = FALSE
  /\ conn = [c \in Clients |-> "none"] /\ line = [c \in Clients |-> None]
  /\ backlog = <<>> /\ serving = None /\ answer = None
  /\ crashes = 0 /\ faults = 0

\* One step of the process: its main thread runs all of this in sequence.
Process ==
  \/ Start \/ TryNew \/ Unlink \/ Bind
  \/ WriteTmp \/ SyncTmp \/ Rename \/ SyncDir
  \/ Accept \/ DropUnread \/ Refuse \/ Dispatch \/ Reply

Next ==
  \/ Process
  \/ \E c \in Clients :
       Connect(c) \/ Close(c) \/ \E text \in Requests \cup BadLines : Send(c, text)
  \/ Crash \/ PowerLoss \/ TmpfsLoss

\* The service manager restarts the process, and the process is scheduled.
Spec == Init /\ [][Next]_vars /\ WF_vars(Process)

-------------------------------------------------------------------------------
\* Every variable keeps to its values; a connection is handled exactly while
\* the thread is past accept for it, and waits at most once.
TypeOK ==
  /\ setup \in {"banner", "usage", "run"}
  /\ missed \in {"no", "yes", "saved"}
  /\ pc \in Listening \cup {"down", "loading", "unlink", "bind"}
  /\ mem \subseteq Keys
  /\ file \in Files /\ tmp \in Files /\ sock \in BOOLEAN
  /\ old \subseteq Documents \cup {None, Torn}
  /\ conn \in [Clients -> {"none", "open", "closed"}]
  /\ line \in [Clients -> Requests \cup BadLines \cup {None}]
  /\ serving \in Clients \cup {None} /\ answer \in Responses \cup {None}
  /\ \A i \in DOMAIN backlog : conn[backlog[i]] # "none" /\ backlog[i] # serving
  /\ \A i, j \in DOMAIN backlog : backlog[i] = backlog[j] => i = j
  /\ serving # None => pc \in Listening \ {"accept"}
  /\ pc \in {"read", "reply"} => serving # None
  /\ answer # None <=> pc = "reply"

\* Whenever the process dies, or the power of a host with its state on a disk
\* fails, the file that comes back loads (unless another program's file never did)
\* and says of every pair what its client was last told: save_to_disk syncs the
\* new text, renames it, syncs the directory, and only then is the request
\* answered; a version 1 file keeps its allocations through the migration.  Of a
\* file that a failing stat hides nothing is lost either, until a save of the
\* process that did not see it.
AnswersSurvivePowerLoss ==
  missed # "saved" =>
    /\ Loads(file.seen) => \A text \in Images : Loads(text)
    /\ \A text \in Images, k \in Keys :
         /\ acked[k] = "in" => k \in Table(text)
         /\ acked[k] = "out" => k \notin Table(text)

\* A state file that cannot be read is never replaced and never served from:
\* try_new fails closed on a torn file and on one of another version, however
\* often the service manager tries again, unless a stat hid the file from it.
\* Only a reboot takes it, with the tmpfs it is on.
FailsClosed ==
  [][~Loads(file.seen) /\ missed' = "no" =>
       /\ pc' \notin Listening
       /\ UNCHANGED <<file, sock>> \/ TmpfsLoss]_vars

\* try_new (dataplane.rs): it "fails closed when persisted state is corrupt or
\* incompatible".  Whatever fails during the start, the control socket is not
\* served over a file that does not load.
StartFailsClosed == Loads(file.seen) \/ pc \notin Listening

\* The connection being handled is one whose client says nothing.
Silent == pc = "read" /\ conn[serving] = "open" /\ line[serving] = None

\* A client whose line is sent is dealt with (answered, dropped, or cut off by
\* the end of the process), whatever the clients before it sent and even if
\* they left, unless one of them keeps the loop waiting for its line for ever.
SendersAreServed ==
  \A c \in Clients :
    (line[c] # None ~> line[c] = None) \/ <>[]Silent

\* A daemon whose configuration is valid and whose state file loads comes back
\* to its control socket after every crash, power failure and failed start:
\* nothing it leaves behind (socket, temporary file, half a migration) stops it.
ComesBack ==
  setup = "run" /\ Loads(file.seen) => [](pc = "down" => <>(pc = "accept"))
===============================================================================
