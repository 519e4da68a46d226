----------------------------- MODULE DaemonProofs -----------------------------
(***************************************************************************)
(* What the state file keeps over crashes, power failures and failing      *)
(* system calls, for any clients, pairs and number of faults.              *)
(***************************************************************************)
EXTENDS Daemon, TLAPS

Texts == Documents \cup {None, Torn}

\* What a save of the present table writes.
Text == [version |-> STATE_FORMAT_VERSION, table |-> mem]

\* A table that says of every pair what its client was last told.
Agrees(table) ==
  \A k \in Keys : (acked[k] = "in" => k \in table) /\ (acked[k] = "out" => k \notin table)

Typed ==
  /\ mem \subseteq Keys /\ missed \in {"no", "yes", "saved"}
  /\ file \in Files /\ tmp \in Files /\ old \subseteq Texts
  /\ acked \in [Keys -> {"in", "out", None}]
  /\ serving \in Clients \cup {None}
  /\ backlog \in Seq(Clients)
  /\ line \in [Clients -> Requests \cup BadLines \cup {None}]

\* Whatever comes back after a power failure loads and agrees, and a file that
\* does not load is on disk as it is; until a save over a file that was missed.
Kept ==
  missed # "saved" =>
    /\ file.seen \in file.images
    /\ \A text \in Images : Agrees(Table(text))
    /\ Loads(file.seen) => \A text \in Images : Loads(text)
    /\ ~Loads(file.seen) => file = Synced(file.seen) /\ old = {}

\* Nothing is served from a file that does not load, by a process that saw it.
Closed == missed = "no" /\ ~Loads(file.seen) => pc \in {"down", "loading"}

\* Once it has been loaded, the table in memory agrees too.
Loaded == missed = "no" /\ pc \notin {"down", "loading"} => Agrees(mem)

\* A process that missed the file has not renamed over it yet.
Unsaved == missed = "yes" => pc # "syncdir"

\* How far a save has come.
Saved ==
  /\ pc \in {"sync", "rename"} => tmp.seen = Text
  /\ pc = "rename" => tmp.images = {Text}
  /\ pc = "syncdir" => file = Synced(Text)

\* The table has what the request asked for.
Does(req, table) ==
  /\ req.method = "PublishPort" => req.key \in table
  /\ req.method = "UnpublishPort" => req.key \notin table

\* A request is served from memory and answered from the disk.
Asked ==
  /\ pc \in {"read", "reply"} => serving # None
  /\ pc \in {"down", "loading"} => serving = None
  /\ pc \in {"write", "sync", "rename", "syncdir"} /\ serving # None =>
       line[serving] \in Requests /\ Does(line[serving], mem)
  /\ pc = "reply" /\ answer = "Ok" =>
       /\ line[serving] \in Requests /\ Does(line[serving], mem)
       /\ \A text \in Images : Does(line[serving], Table(text))

DaemonInv == Typed /\ Kept /\ Closed /\ Loaded /\ Unsaved /\ Saved /\ Asked

-------------------------------------------------------------------------------
\* The text of a save is a document of the present version, and loads.
LEMMA TextLoads ==
  ASSUME mem \subseteq Keys
  PROVE  Text \in Documents /\ Loads(Text) /\ Table(Text) = mem
<1>1. Text \in Documents
  BY DEF Text, Documents, STATE_FORMAT_VERSION
<1> QED
  BY <1>1, MarksAssumption DEF Text, Loads, Table, STATE_FORMAT_VERSION

\* The initial states satisfy the invariant.
LEMMA InitInv == Init => DaemonInv
<1> SUFFICES ASSUME Init PROVE DaemonInv
  OBVIOUS
<1>1. PICK text \in Texts :
        /\ file = Synced(text)
        /\ acked = [k \in Keys |-> IF Loads(text) /\ k \in Table(text) THEN "in" ELSE None]
  BY DEF Init, Texts
<1>2. file \in Files /\ tmp \in Files
  BY <1>1 DEF Init, Synced, Files, Texts
<1>3. Images = {text} /\ file.seen = text /\ file.seen \in file.images
  BY <1>1 DEF Init, Synced, Images
<1>4. Typed
  BY <1>1, <1>2 DEF Init, Typed
<1>5. Agrees(Table(text))
  BY <1>1, MarksAssumption DEF Agrees
<1> QED
  BY <1>1, <1>3, <1>4, <1>5 DEF Init, DaemonInv, Kept, Closed, Loaded, Unsaved, Saved, Asked, Synced

\* Steps that leave the tables, the files and what was answered alone.
LEMMA QuietStep ==
  ASSUME DaemonInv, Typed', Asked', Saved',
         UNCHANGED <<mem, missed, file, old, acked>>, pc' # "syncdir",
         pc' \in {"down", "loading"} \/ pc \notin {"down", "loading"}
  PROVE  DaemonInv'
<1>1. Images' = Images
  BY DEF Images
<1>2. Kept'
  BY <1>1 DEF DaemonInv, Kept, Agrees, Table, Loads, Synced
<1>3. Closed' /\ Loaded' /\ Unsaved'
  BY DEF DaemonInv, Closed, Loaded, Unsaved, Agrees, Loads
<1> QED
  BY <1>2, <1>3 DEF DaemonInv

\* Steps of the clients: the thread stays where it is as well.
LEMMA SameStep ==
  ASSUME DaemonInv, Typed', Asked', Saved',
         UNCHANGED <<mem, missed, file, old, acked, pc>>
  PROVE  DaemonInv'
<1>1. Images' = Images
  BY DEF Images
<1>2. Kept'
  BY <1>1 DEF DaemonInv, Kept, Agrees, Table, Loads, Synced
<1>3. Closed' /\ Loaded' /\ Unsaved'
  BY DEF DaemonInv, Closed, Loaded, Unsaved, Agrees, Loads
<1> QED
  BY <1>2, <1>3 DEF DaemonInv

\* The process ends; its files stay.
LEMMA ExitStep ==
  ASSUME DaemonInv, Exit, UNCHANGED <<file, old, acked>>, tmp' \in Files
  PROVE  DaemonInv'
<1>1. Images' = Images
  BY DEF Images
<1>2. Typed' /\ (missed' # "saved" => missed # "saved") /\ pc' = "down" /\ serving' = None
  BY DEF DaemonInv, Typed, Exit
<1>3. Kept'
  BY <1>1, <1>2 DEF DaemonInv, Kept, Agrees, Table, Loads, Synced
<1>4. Closed' /\ Loaded' /\ Unsaved' /\ Saved' /\ Asked'
  BY <1>2 DEF Closed, Loaded, Unsaved, Saved, Asked
<1> QED
  BY <1>2, <1>3, <1>4 DEF DaemonInv

\* Starting, binding and accepting.
LEMMA StartSteps ==
  ASSUME DaemonInv, Start \/ Unlink \/ Bind \/ Accept
  PROVE  DaemonInv'
<1>1. UNCHANGED <<file, old, tmp, acked>> /\ tmp' \in Files
  BY DEF DaemonInv, Typed, Start, Unlink, Bind, Accept, disk
<1>2. CASE Exit
  BY <1>1, <1>2, ExitStep
<1>3. CASE ~Exit
  <2>1. /\ UNCHANGED <<mem, missed, line>>
        /\ \/ pc' = "loading" /\ pc = "down" /\ UNCHANGED <<backlog, serving, answer>>
           \/ /\ pc' \in {"bind", "accept"} /\ pc \in {"unlink", "bind"}
              /\ UNCHANGED <<backlog, serving, answer>>
           \/ /\ pc' = "read" /\ pc = "accept"
              /\ backlog # <<>> /\ serving' = Head(backlog) /\ backlog' = Tail(backlog)
    BY <1>3 DEF Start, Unlink, Bind, Accept, socket, memory
  <2>2. Typed' /\ (pc' = "read" => serving' # None)
    BY <1>1, <2>1, DaemonAssumption DEF DaemonInv, Typed
  <2>3. Asked' /\ Saved'
    BY <2>1, <2>2 DEF DaemonInv, Asked, Saved
  <2> QED
    BY <1>1, <2>1, <2>2, <2>3, QuietStep
<1> QED
  BY <1>2, <1>3

\* The clients, and the connections the loop drops or refuses.
LEMMA ClientSteps ==
  ASSUME DaemonInv,
         \/ DropUnread \/ Refuse
         \/ \E c \in Clients :
              Connect(c) \/ Close(c) \/ \E text \in Requests \cup BadLines : Send(c, text)
  PROVE  DaemonInv'
<1>1. UNCHANGED <<mem, missed, file, old, tmp, acked>>
  BY DEF DropUnread, Drop, Refuse, Connect, Close, Send, disk, memory
<1>2. CASE DropUnread
  <2>1. Typed' /\ pc' = "accept" /\ pc = "read"
    BY <1>1, <1>2 DEF DaemonInv, Typed, DropUnread, Drop
  <2>2. Asked' /\ Saved'
    BY <2>1 DEF Asked, Saved
  <2> QED
    BY <1>1, <2>1, <2>2, QuietStep
<1>3. CASE Refuse
  <2>1. Typed' /\ pc' = "reply" /\ pc = "read" /\ answer' # "Ok" /\ serving' # None
    BY <1>1, <1>3 DEF DaemonInv, Typed, Asked, Refuse, ParseErrors, socket
  <2>2. Asked' /\ Saved'
    BY <2>1 DEF Asked, Saved
  <2> QED
    BY <1>1, <2>1, <2>2, QuietStep
<1>4. ASSUME NEW c \in Clients,
             Connect(c) \/ Close(c) \/ \E text \in Requests \cup BadLines : Send(c, text)
      PROVE  DaemonInv'
  <2>1. /\ UNCHANGED <<pc, serving, answer>>
        /\ line[serving] \in Requests /\ serving # None => line'[serving] = line[serving]
        /\ Typed'
    BY <1>1, <1>4, MarksAssumption DEF DaemonInv, Typed, Connect, Close, Send
  <2>2. Asked' /\ Saved'
    BY <1>1, <2>1 DEF DaemonInv, Asked, Saved, Images, Does, Table, Text, Synced
  <2> QED
    BY <1>1, <2>1, <2>2, SameStep
<1> QED
  BY <1>2, <1>3, <1>4

\* Loading: the table in memory is what the file says, unless the file is missed.
LEMMA TryNewStep ==
  ASSUME DaemonInv, TryNew
  PROVE  DaemonInv'
<1>1. UNCHANGED <<file, old, tmp, acked>> /\ tmp' \in Files /\ pc = "loading"
  BY DEF DaemonInv, Typed, TryNew, disk
<1>2. CASE Exit
  BY <1>1, <1>2, ExitStep
<1>3. CASE ~Exit
  <2>1. /\ pc' \in {"write", "unlink"}
        /\ UNCHANGED <<line, backlog, serving, answer>>
        /\ \/ Loads(file.seen) /\ mem' = Table(file.seen) /\ UNCHANGED missed
           \/ mem' = {} /\ missed' = IF missed = "no" THEN "yes" ELSE missed
    BY <1>3 DEF TryNew, socket
  <2>2. Images' = Images /\ file.seen \in Texts
    BY <1>1 DEF Images, DaemonInv, Typed, Files, Texts
  <2>3. Table(file.seen) \subseteq Keys
    BY <2>2 DEF Table, Texts, Documents
  <2>4. Typed' /\ (missed' # "saved" => missed # "saved")
    BY <1>1, <2>1, <2>3 DEF DaemonInv, Typed
  <2>5. missed' = "no" => /\ Loads(file.seen) /\ mem' = Table(file.seen)
                          /\ Agrees(Table(file.seen))
    BY <2>1, <2>2 DEF DaemonInv, Kept, Images
  <2>6. Closed' /\ Loaded' /\ Unsaved'
    BY <1>1, <2>1, <2>5 DEF Closed, Loaded, Unsaved, Agrees, Loads
  <2>7. Kept'
    BY <1>1, <2>2, <2>4 DEF DaemonInv, Kept, Agrees, Loads, Table, Synced
  <2>8. serving = None
    BY <1>1 DEF DaemonInv, Asked
  <2>9. Saved' /\ Asked'
    BY <1>1, <2>1, <2>8 DEF Saved, Asked
  <2> QED
    BY <2>4, <2>6, <2>7, <2>9 DEF DaemonInv
<1> QED
  BY <1>2, <1>3

\* A save that fails: the handler answers Internal, the migration ends.
LEMMA SaveFailsStep ==
  ASSUME DaemonInv, SaveFails, pc \in {"write", "sync", "rename", "syncdir"},
         UNCHANGED <<file, old, acked>>, tmp' \in Files
  PROVE  DaemonInv'
<1>1. CASE serving = None
  BY <1>1, ExitStep DEF SaveFails
<1>2. CASE serving # None
  <2>1. /\ pc' = "reply" /\ answer' = "Internal"
        /\ UNCHANGED <<mem, missed, line, backlog, serving>>
    BY <1>2 DEF SaveFails, socket, memory
  <2>2. Typed' /\ Saved' /\ Asked'
    BY <1>2, <2>1 DEF DaemonInv, Typed, Saved, Asked
  <2> QED
    BY <2>1, <2>2, QuietStep
<1> QED
  BY <1>1, <1>2

\* Writing and syncing the temporary file leaves state.json alone.
LEMMA TmpSteps ==
  ASSUME DaemonInv, WriteTmp \/ SyncTmp
  PROVE  DaemonInv'
<1>1. UNCHANGED <<file, old, acked>> /\ pc \in {"write", "sync"}
  BY DEF WriteTmp, SyncTmp, Saves
<1>2. Text \in Texts /\ Torn \in Texts
  BY TextLoads DEF DaemonInv, Typed, Texts
<1>3. CASE SaveFails /\ (tmp' = tmp \/ tmp' = Synced(Torn))
  <2>1. tmp' \in Files
    BY <1>2, <1>3 DEF DaemonInv, Typed, Files, Synced, Texts
  <2> QED
    BY <1>1, <1>3, <2>1, SaveFailsStep
<1>4. CASE Saves("write", "sync") /\ tmp' = [seen |-> Text, images |-> {Text, Torn}]
  <2>1. tmp' \in Files
    BY <1>2, <1>4 DEF Files, Texts
  <2>2. UNCHANGED <<mem, missed, line, backlog, serving, answer>> /\ pc = "write" /\ pc' = "sync"
    BY <1>4 DEF Saves, socket, memory
  <2>3. Typed'
    BY <1>1, <2>1, <2>2 DEF DaemonInv, Typed
  <2>4. Saved' /\ Asked'
    BY <1>4, <2>2 DEF DaemonInv, Saved, Asked, Text, Does
  <2> QED
    BY <1>1, <2>2, <2>3, <2>4, QuietStep
<1>5. CASE Saves("sync", "rename") /\ tmp' = Synced(tmp.seen)
  <2>1. UNCHANGED <<mem, missed, line, backlog, serving, answer>> /\ pc = "sync" /\ pc' = "rename"
    BY <1>5 DEF Saves, socket, memory
  <2>2. tmp.seen = Text /\ tmp' = [seen |-> Text, images |-> {Text}]
    BY <1>5, <2>1 DEF DaemonInv, Saved, Synced
  <2>3. tmp' \in Files
    BY <1>2, <2>2 DEF Files, Texts
  <2>4. Typed'
    BY <1>1, <2>1, <2>3 DEF DaemonInv, Typed
  <2>5. Saved' /\ Asked'
    BY <2>1, <2>2 DEF DaemonInv, Saved, Asked, Text, Does
  <2> QED
    BY <1>1, <2>1, <2>4, <2>5, QuietStep
<1> QED
  BY <1>3, <1>4, <1>5 DEF WriteTmp, SyncTmp, Text

\* The rename: state.json is the new text, and a power failure may still
\* bring back what was there.
LEMMA RenameStep ==
  ASSUME DaemonInv, Rename
  PROVE  DaemonInv'
<1>1. pc = "rename" /\ acked' = acked
  BY DEF Rename
<1>2. CASE SaveFails /\ UNCHANGED disk
  BY <1>1, <1>2, SaveFailsStep DEF DaemonInv, Typed, disk
<1>3. CASE ~(SaveFails /\ UNCHANGED disk)
  <2>1. /\ UNCHANGED <<mem, line, backlog, serving, answer>> /\ pc' = "syncdir"
        /\ missed' = IF missed = "yes" THEN "saved" ELSE missed
        /\ file' = tmp /\ old' = Images /\ tmp' = Synced(None)
    BY <1>3 DEF Rename, socket
  <2>2. Text \in Documents /\ Loads(Text) /\ Table(Text) = mem
    BY TextLoads DEF DaemonInv, Typed
  <2>3. tmp.seen = Text /\ tmp.images = {Text}
    BY <1>1 DEF DaemonInv, Saved
  <2>4. file' = Synced(Text) /\ file'.seen = Text /\ file'.images = {Text}
    BY <2>1, <2>3 DEF DaemonInv, Typed, Files, Synced
  <2>5. Images' = Images \cup {Text}
    BY <2>1, <2>4 DEF Images
  <2>6. Images \subseteq Texts
    BY DEF DaemonInv, Typed, Images, Files, Texts
  <2>7. file' \in Files /\ tmp' \in Files
    BY <2>1, <2>2, <2>4 DEF DaemonInv, Typed, Files, Synced
  <2>8. Typed'
    BY <1>1, <2>1, <2>6, <2>7 DEF DaemonInv, Typed
  <2>9. missed' # "saved" => missed = "no" /\ Loads(file.seen)
    BY <1>1, <2>1 DEF DaemonInv, Typed, Closed
  <2>10. missed' # "saved" => \A text \in Images' : Loads(text) /\ Agrees(Table(text))
    BY <1>1, <2>2, <2>5, <2>9 DEF DaemonInv, Kept, Loaded
  <2>11. Kept' /\ Closed' /\ Loaded' /\ Unsaved'
    <3>1. Kept'
      BY <1>1, <2>2, <2>4, <2>5, <2>10 DEF Kept, Agrees, Loads, Table
    <3>2. Closed'
      BY <2>2, <2>4 DEF Closed, Loads
    <3>3. Loaded' /\ Unsaved'
      BY <1>1, <2>1 DEF DaemonInv, Typed, Loaded, Unsaved, Agrees
    <3> QED
      BY <3>1, <3>2, <3>3
  <2>12. Saved' /\ Asked'
    BY <1>1, <2>1, <2>4 DEF DaemonInv, Saved, Asked, Text, Does, Synced
  <2> QED
    BY <2>8, <2>11, <2>12 DEF DaemonInv
<1> QED
  BY <1>2, <1>3

\* The directory is synced: only the new text can come back.
LEMMA SyncDirStep ==
  ASSUME DaemonInv, SyncDir
  PROVE  DaemonInv'
<1>1. pc = "syncdir" /\ UNCHANGED <<file, tmp, acked>>
  BY DEF SyncDir
<1>2. CASE SaveFails /\ UNCHANGED old
  BY <1>1, <1>2, SaveFailsStep DEF DaemonInv, Typed
<1>3. CASE ~(SaveFails /\ UNCHANGED old)
  <2>1. /\ old' = {} /\ UNCHANGED <<mem, missed, line, backlog, serving>>
        /\ IF serving = None THEN pc' = "unlink" ELSE pc' = "reply"
    BY <1>3 DEF SyncDir, socket, memory
  <2>2. Text \in Documents /\ Loads(Text) /\ Table(Text) = mem
    BY TextLoads DEF DaemonInv, Typed
  <2>3. file.seen = Text /\ file.images = {Text}
    BY <1>1 DEF DaemonInv, Saved, Synced
  <2>4. Images' = {Text}
    BY <1>1, <2>1, <2>3 DEF Images
  <2>5. Typed'
    BY <1>1, <2>1 DEF DaemonInv, Typed
  <2>6. missed # "saved" => Agrees(mem)
    BY <1>1 DEF DaemonInv, Typed, Unsaved, Loaded
  <2>7. Kept'
    BY <1>1, <2>1, <2>2, <2>3, <2>4, <2>6 DEF Kept, Agrees, Loads, Table
  <2>8. Closed' /\ Loaded' /\ Unsaved' /\ Saved'
    BY <1>1, <2>1, <2>2, <2>3, <2>6 DEF Closed, Loaded, Unsaved, Saved, Agrees, Loads
  <2>9. Asked'
    <3>1. CASE serving = None
      BY <2>1, <3>1 DEF Asked
    <3>2. CASE serving # None
      <4>1. line[serving] \in Requests /\ Does(line[serving], mem)
        BY <1>1, <3>2 DEF DaemonInv, Asked
      <4> QED
        BY <2>1, <2>2, <2>4, <3>2, <4>1 DEF Asked, Does, Table
    <3> QED
      BY <3>1, <3>2
  <2> QED
    BY <2>5, <2>7, <2>8, <2>9 DEF DaemonInv
<1> QED
  BY <1>2, <1>3

\* A request: while its pair is changed only in memory, what its client was
\* told before no longer counts.
LEMMA DispatchStep ==
  ASSUME DaemonInv, Dispatch
  PROVE  DaemonInv'
<1> DEFINE req == line[serving]
<1>1. /\ pc = "read" /\ req \in Requests /\ serving # None
      /\ UNCHANGED <<missed, file, old, tmp, line, backlog, serving>>
      /\ req.key \in Keys
  BY DEF DaemonInv, Asked, Dispatch, disk, socket, memory, Requests
<1>2. Images' = Images
  BY <1>1 DEF Images
<1>3. CASE answer' \in Answers(req) /\ pc' = "reply" /\ UNCHANGED <<mem, acked>>
  <2>1. Typed' /\ Saved'
    BY <1>1, <1>3 DEF DaemonInv, Typed, Saved
  <2>2. answer' = "Ok" => req.method = "GetPort"
    BY <1>3 DEF Answers
  <2>3. Asked'
    BY <1>1, <1>3, <2>2 DEF Asked, Does
  <2> QED
    BY <1>1, <1>3, <2>1, <2>3, QuietStep
<1>4. CASE /\ Persists(req) /\ mem' = Applied(req) /\ pc' = "write"
           /\ acked' = IF mem' # mem THEN [acked EXCEPT ![req.key] = None] ELSE acked
  <2>1. mem' \subseteq Keys /\ Does(req, mem')
    BY <1>1, <1>4 DEF DaemonInv, Typed, Applied, Does
  <2>2. acked' \in [Keys -> {"in", "out", None}]
    BY <1>4 DEF DaemonInv, Typed
  <2>3. Typed'
    BY <1>1, <2>1, <2>2 DEF DaemonInv, Typed
  <2>4. \A k \in Keys : acked'[k] \in {"in", "out"} =>
          acked'[k] = acked[k] /\ (k \in mem' <=> k \in mem)
    BY <1>1, <1>4, MarksAssumption DEF DaemonInv, Typed, Applied
  <2>5. \A t : Agrees(t) =>
          \A k \in Keys : (acked'[k] = "in" => k \in t) /\ (acked'[k] = "out" => k \notin t)
    BY <2>4 DEF Agrees
  <2>6. Kept'
    BY <1>1, <1>2, <2>5 DEF DaemonInv, Kept, Agrees, Loads, Table, Synced
  <2>7. Loaded'
    BY <1>1, <2>4 DEF DaemonInv, Loaded, Agrees
  <2>8. Closed' /\ Unsaved'
    BY <1>1, <1>4 DEF DaemonInv, Closed, Unsaved, Loads
  <2>9. Saved' /\ Asked'
    BY <1>1, <1>4, <2>1 DEF Saved, Asked, Does
  <2> QED
    BY <2>3, <2>6, <2>7, <2>8, <2>9 DEF DaemonInv
<1> QED
  BY <1>3, <1>4 DEF Dispatch, memory

\* The reply: what the client is told now is on disk already.
LEMMA ReplyStep ==
  ASSUME DaemonInv, Reply
  PROVE  DaemonInv'
<1> DEFINE req == line[serving]
<1>1. /\ pc = "reply" /\ pc' = "accept" /\ serving # None
      /\ UNCHANGED <<mem, missed, file, old, tmp, backlog>> /\ serving' = None
      /\ line' = [line EXCEPT ![serving] = None]
  BY DEF DaemonInv, Asked, Reply, Drop, disk, memory
<1>2. Images' = Images
  BY <1>1 DEF Images
<1>3. \/ acked' = acked
      \/ /\ answer = "Ok" /\ req.method = "PublishPort"
         /\ acked' = [acked EXCEPT ![req.key] = "in"]
      \/ /\ answer = "Ok" /\ req.method = "UnpublishPort"
         /\ acked' = [acked EXCEPT ![req.key] = "out"]
  BY DEF Reply
<1>4. answer = "Ok" => /\ Does(req, mem)
                       /\ \A text \in Images : Does(req, Table(text))
  BY <1>1 DEF DaemonInv, Asked
<1>5. Typed'
  BY <1>1, <1>3 DEF DaemonInv, Typed
<1>6. ASSUME NEW t, Agrees(t), answer = "Ok" => Does(req, t)
      PROVE  \A k \in Keys : (acked'[k] = "in" => k \in t) /\ (acked'[k] = "out" => k \notin t)
  BY <1>3, <1>6 DEF Agrees, Does, DaemonInv, Typed
<1>7. Kept'
  BY <1>1, <1>2, <1>4, <1>6 DEF DaemonInv, Kept, Agrees, Loads, Table, Synced
<1>8. Loaded'
  BY <1>1, <1>4, <1>6 DEF DaemonInv, Loaded, Agrees
<1>9. Closed' /\ Unsaved'
  BY <1>1 DEF DaemonInv, Closed, Unsaved, Loads
<1>10. Saved' /\ Asked'
  BY <1>1 DEF Saved, Asked
<1> QED
  BY <1>5, <1>7, <1>8, <1>9, <1>10 DEF DaemonInv

\* The power fails: one of the texts that may come back does.
LEMMA PowerLossStep ==
  ASSUME DaemonInv, PowerLoss
  PROVE  DaemonInv'
<1>1. PICK text \in Images : file' = Synced(text)
  BY DEF PowerLoss
<1>2. /\ old' = {} /\ tmp' = Synced(None) /\ UNCHANGED acked
      /\ Exit
  BY DEF PowerLoss
<1>3. file'.seen = text /\ file'.images = {text} /\ Images' = {text}
  BY <1>1, <1>2 DEF Synced, Images
<1>4. text \in Texts
  BY DEF DaemonInv, Typed, Images, Files, Texts
<1>5. file' \in Files /\ tmp' \in Files
  BY <1>1, <1>2, <1>4 DEF Files, Synced, Texts
<1>6. Typed' /\ (missed' # "saved" => missed # "saved")
  BY <1>2, <1>5 DEF DaemonInv, Typed, Exit
<1>7. Kept'
  BY <1>1, <1>2, <1>3, <1>6 DEF DaemonInv, Kept, Agrees, Table, Loads, Synced
<1>8. Closed' /\ Loaded' /\ Unsaved' /\ Saved' /\ Asked'
  BY <1>1, <1>2, <1>3 DEF Closed, Loaded, Unsaved, Saved, Asked, Exit, Synced
<1> QED
  BY <1>6, <1>7, <1>8 DEF DaemonInv

\* A reboot takes the directory, and what was answered no longer counts.
LEMMA TmpfsLossStep ==
  ASSUME DaemonInv, TmpfsLoss
  PROVE  DaemonInv'
<1>1. /\ file' = Synced(None) /\ old' = {} /\ tmp' = Synced(None)
      /\ acked' = [k \in Keys |-> None] /\ Exit
  BY DEF TmpfsLoss
<1>2. file'.seen = None /\ file'.images = {None} /\ Images' = {None}
  BY <1>1 DEF Synced, Images
<1>3. file' \in Files /\ tmp' \in Files
  BY <1>1 DEF Files, Synced
<1>4. Typed'
  BY <1>1, <1>3 DEF DaemonInv, Typed, Exit
<1>5. Kept'
  BY <1>1, <1>2, MarksAssumption DEF Kept, Agrees, Loads
<1>6. Closed' /\ Loaded' /\ Unsaved' /\ Saved' /\ Asked'
  BY <1>1, <1>2 DEF Closed, Loaded, Unsaved, Saved, Asked, Exit
<1> QED
  BY <1>4, <1>5, <1>6 DEF DaemonInv

\* Every step keeps the invariant.
LEMMA StepInv == DaemonInv /\ [Next]_vars => DaemonInv'
<1> SUFFICES ASSUME DaemonInv, [Next]_vars PROVE DaemonInv'
  OBVIOUS
<1>1. CASE Process
  BY <1>1, StartSteps, TryNewStep, TmpSteps, RenameStep, SyncDirStep, ClientSteps,
     DispatchStep, ReplyStep DEF Process
<1>2. CASE \E c \in Clients :
             Connect(c) \/ Close(c) \/ \E text \in Requests \cup BadLines : Send(c, text)
  BY <1>2, ClientSteps
<1>3. CASE Crash
  BY <1>3, ExitStep DEF Crash, disk, DaemonInv, Typed
<1>4. CASE PowerLoss
  BY <1>4, PowerLossStep
<1>5. CASE TmpfsLoss
  BY <1>5, TmpfsLossStep
<1>6. CASE UNCHANGED vars
  BY <1>6 DEF vars, disk, memory, socket, DaemonInv, Typed, Kept, Closed, Loaded, Unsaved,
     Saved, Asked, Images, Agrees, Text, Does, Table, Loads, Synced
<1> QED
  BY <1>1, <1>2, <1>3, <1>4, <1>5, <1>6 DEF Next

\* Whenever the process dies or the power of a host with its state on a disk
\* fails, state.json loads and says of every pair what its client was last told
\* (save_to_disk before the answer, migration before serving), for any number of
\* clients, pairs, crashes, failing calls and reboots that take a tmpfs; until a
\* process from which a failing stat hid the file has saved over it.
THEOREM AnswersAlwaysSurvive == Spec => []AnswersSurvivePowerLoss
<1>1. DaemonInv => AnswersSurvivePowerLoss
  BY DEF DaemonInv, Kept, AnswersSurvivePowerLoss, Agrees
<1> QED
  BY <1>1, InitInv, StepInv, PTL DEF Spec

\* A state file that does not load is never replaced and never served from by a
\* process that saw it (try_new fails closed), for any number of restarts, crashes
\* and failing calls; only a reboot takes it, with the tmpfs it is on.
THEOREM UnreadableStaysClosed == Spec => FailsClosed
<1>1. DaemonInv /\ [Next]_vars =>
        [~Loads(file.seen) /\ missed' = "no" =>
           /\ pc' \notin Listening
           /\ UNCHANGED <<file, sock>> \/ TmpfsLoss]_vars
  <2> SUFFICES ASSUME DaemonInv, Next, ~Loads(file.seen), missed' = "no"
               PROVE  pc' \notin Listening /\ (UNCHANGED <<file, sock>> \/ TmpfsLoss)
    OBVIOUS
  <2>1. CASE TmpfsLoss
    BY <2>1 DEF TmpfsLoss, Exit, Listening
  <2>2. CASE PowerLoss
    <3>1. missed # "saved"
      BY <2>2 DEF PowerLoss, Exit
    <3>2. file = Synced(file.seen) /\ old = {}
      BY <3>1 DEF DaemonInv, Kept
    <3>3. Images = {file.seen}
      BY <3>2 DEF Images, Synced
    <3> QED
      BY <2>2, <3>2, <3>3 DEF PowerLoss, Exit, Listening
  <2>3. CASE Exit /\ UNCHANGED <<file, sock>>
    BY <2>3 DEF Exit, Listening
  <2>4. CASE ~TmpfsLoss /\ ~PowerLoss /\ ~(Exit /\ UNCHANGED <<file, sock>>)
    <3>1. ~Exit
      BY <2>4 DEF Next, Process, Start, TryNew, Unlink, Bind, WriteTmp, SyncTmp, Rename,
         SyncDir, Accept, DropUnread, Drop, Refuse, Dispatch, Reply, Saves, Connect,
         Close, Send, Crash, disk, Exit
    <3>2. missed = "no"
      BY <2>4, <3>1 DEF Next, Process, Start, TryNew, Unlink, Bind, WriteTmp, SyncTmp,
         Rename, SyncDir, Accept, DropUnread, Refuse, Dispatch, Reply, Saves, SaveFails,
         Connect, Close, Send, Crash, memory
    <3>3. pc \in {"down", "loading"}
      BY <3>2 DEF DaemonInv, Closed
    <3> QED
      BY <2>4, <3>1, <3>3 DEF Next, Process, Start, TryNew, Unlink, Bind, WriteTmp, SyncTmp,
         Rename, SyncDir, Accept, DropUnread, Refuse, Dispatch, Reply, Saves, Connect,
         Close, Send, Crash, disk, Listening
  <2> QED
    BY <2>1, <2>2, <2>3, <2>4
<1> QED
  BY <1>1, InitInv, StepInv, PTL DEF Spec, FailsClosed

-------------------------------------------------------------------------------
(* Type correctness: the thread, the connections and the backlog.          *)

\* The connection being handled is open or closed by its client, never gone:
\* what keeps a client from waiting in the backlog while it is served.
Waiting ==
  /\ conn \in [Clients -> {"none", "open", "closed"}]
  /\ \A i \in DOMAIN backlog : conn[backlog[i]] # "none" /\ backlog[i] # serving
  /\ \A i, j \in DOMAIN backlog : backlog[i] = backlog[j] => i = j
  /\ serving # None => conn[serving] # "none"

\* Where the thread is says whether it serves and whether it has an answer.
Threaded ==
  /\ setup \in {"banner", "usage", "run"}
  /\ pc \in Listening \cup {"down", "loading", "unlink", "bind"}
  /\ sock \in BOOLEAN
  /\ answer \in Responses \cup {None}
  /\ serving # None => pc \in Listening \ {"accept"}
  /\ answer # None <=> pc = "reply"

TypeInv == DaemonInv /\ Waiting /\ Threaded

LEMMA SetupsType == Setups \subseteq {"banner", "usage", "run"}
<1> SUFFICES ASSUME NEW version, NEW flags, NEW env
             PROVE  Main(version, flags, env) \in {"banner", "usage", "run"}
  BY DEF Setups
<1> DEFINE ok == FlagsParse(flags) /\ Resolves(flags, env)
<1>1. CASE version
  BY <1>1 DEF Main
<1>2. CASE ~version /\ ok
  BY <1>2 DEF Main
<1>3. CASE ~version /\ ~ok
  BY <1>3 DEF Main
<1> QED
  BY <1>1, <1>2, <1>3

LEMMA ExitTypes ==
  ASSUME TypeInv, Exit, setup' = setup, sock' \in BOOLEAN
  PROVE  Waiting' /\ Threaded'
BY DEF TypeInv, Waiting, Threaded, Exit

\* Steps that leave the connections alone.
LEMMA SameWaiting ==
  ASSUME TypeInv, UNCHANGED <<conn, backlog, serving>>
  PROVE  Waiting'
BY DEF TypeInv, Waiting

\* The stream of the connection being handled is dropped.
LEMMA DropWaiting ==
  ASSUME TypeInv, Drop, serving # None
  PROVE  Waiting'
<1>1. serving \in Clients /\ backlog \in Seq(Clients)
  BY DEF TypeInv, DaemonInv, Typed
<1>2. \A i \in DOMAIN backlog : backlog[i] \in Clients
  BY <1>1
<1> QED
  BY <1>1, <1>2, DaemonAssumption DEF TypeInv, Waiting, Drop

LEMMA ConnectWaiting ==
  ASSUME TypeInv, NEW c \in Clients, Connect(c)
  PROVE  Waiting'
<1>1. /\ backlog \in Seq(Clients)
      /\ conn' = [conn EXCEPT ![c] = "open"] /\ conn[c] = "none"
      /\ backlog' = Append(backlog, c) /\ serving' = serving
  BY DEF TypeInv, DaemonInv, Typed, Connect
<1>2. /\ conn' \in [Clients -> {"none", "open", "closed"}] /\ conn'[c] = "open"
      /\ \A d \in Clients : conn[d] # "none" => d # c /\ conn'[d] = conn[d]
  BY <1>1 DEF TypeInv, Waiting
<1>3. \A i \in DOMAIN backlog : backlog[i] \in Clients /\ backlog[i] # c
  BY <1>1 DEF TypeInv, Waiting
<1>4. /\ serving # c
      /\ serving # None => conn'[serving] # "none"
  BY <1>1, <1>2, DaemonAssumption DEF TypeInv, DaemonInv, Typed, Waiting
<1>5. ASSUME NEW i \in DOMAIN backlog'
      PROVE  \/ i \in DOMAIN backlog /\ backlog'[i] = backlog[i]
             \/ i = Len(backlog) + 1 /\ backlog'[i] = c
  BY <1>1, <1>5
<1>6. \A i \in DOMAIN backlog' : conn'[backlog'[i]] # "none" /\ backlog'[i] # serving'
  BY <1>1, <1>2, <1>3, <1>4, <1>5 DEF TypeInv, Waiting
<1>7. \A i, j \in DOMAIN backlog' : backlog'[i] = backlog'[j] => i = j
  BY <1>3, <1>5 DEF TypeInv, Waiting
<1> QED
  BY <1>1, <1>2, <1>4, <1>6, <1>7 DEF Waiting

LEMMA AcceptWaiting ==
  ASSUME TypeInv, backlog # <<>>, serving' = Head(backlog), backlog' = Tail(backlog),
         conn' = conn
  PROVE  Waiting'
<1>1. backlog \in Seq(Clients)
  BY DEF TypeInv, DaemonInv, Typed
<1>2. 1 \in DOMAIN backlog /\ serving' = backlog[1]
  BY <1>1
<1>3. ASSUME NEW i \in DOMAIN backlog'
      PROVE  /\ i \in Nat \ {0}
             /\ i + 1 \in DOMAIN backlog /\ backlog'[i] = backlog[i + 1] /\ i + 1 # 1
  BY <1>1, <1>3
<1>4. \A i \in DOMAIN backlog' : conn'[backlog'[i]] # "none" /\ backlog'[i] # serving'
  BY <1>2, <1>3 DEF TypeInv, Waiting
<1>5. \A i, j \in DOMAIN backlog' : backlog'[i] = backlog'[j] => i = j
  BY <1>3 DEF TypeInv, Waiting
<1> QED
  BY <1>2, <1>4, <1>5 DEF TypeInv, Waiting

\* A save's steps, a failing one included.
LEMMA SaveTypes ==
  ASSUME TypeInv, WriteTmp \/ SyncTmp \/ Rename \/ SyncDir
  PROVE  Waiting' /\ Threaded'
<1>1. setup' = setup /\ sock' = sock /\ sock' \in BOOLEAN
  BY DEF TypeInv, Threaded, WriteTmp, SyncTmp, Rename, SyncDir
<1>2. pc \in {"write", "sync", "rename", "syncdir"}
  BY DEF WriteTmp, SyncTmp, Rename, SyncDir, Saves
<1>3. CASE Exit
  BY <1>1, <1>3, ExitTypes
<1>4. CASE ~Exit
  <2>1. /\ UNCHANGED socket
        /\ \/ pc' \in {"sync", "rename", "syncdir"} /\ UNCHANGED answer
           \/ pc' = "unlink" /\ serving = None /\ UNCHANGED answer
           \/ /\ pc' = "reply" /\ serving # None
              /\ answer' \in {"Ok", "NotFound", "Internal"}
    BY <1>4 DEF WriteTmp, SyncTmp, Rename, SyncDir, Saves, SaveFails
  <2>2. Waiting'
    BY <2>1, SameWaiting DEF socket
  <2>3. answer = None
    BY <1>2 DEF TypeInv, Threaded
  <2>4. Threaded'
    BY <1>1, <2>1, <2>3, MarksAssumption
       DEF TypeInv, Threaded, socket, Listening, Responses, RpcErrors
  <2> QED
    BY <2>2, <2>4
<1> QED
  BY <1>3, <1>4

LEMMA ProcessTypes ==
  ASSUME TypeInv, Process
  PROVE  Waiting' /\ Threaded'
<1>1. CASE Start \/ TryNew \/ Unlink \/ Bind \/ Accept
  <2>1. /\ setup' = setup /\ sock' \in BOOLEAN
        /\ pc \in {"down", "loading", "unlink", "bind", "accept"}
    BY <1>1 DEF TypeInv, Threaded, Start, TryNew, Unlink, Bind, Accept
  <2>2. CASE Exit
    BY <2>1, <2>2, ExitTypes
  <2>3. CASE ~Exit
    <3>1. /\ UNCHANGED answer
          /\ \/ UNCHANGED socket /\ pc' \in {"loading", "write", "unlink", "bind", "accept"}
             \/ /\ pc' = "read" /\ backlog # <<>> /\ conn' = conn
                /\ serving' = Head(backlog) /\ backlog' = Tail(backlog)
      BY <1>1, <2>3 DEF Start, TryNew, Unlink, Bind, Accept
    <3>2. Waiting'
      BY <3>1, SameWaiting, AcceptWaiting DEF socket
    <3>3. answer = None /\ serving = None
      BY <2>1 DEF TypeInv, Threaded, Listening
    <3>4. Threaded'
      BY <2>1, <3>1, <3>3 DEF TypeInv, Threaded, socket, Listening
    <3> QED
      BY <3>2, <3>4
  <2> QED
    BY <2>2, <2>3
<1>2. CASE WriteTmp \/ SyncTmp \/ Rename \/ SyncDir
  BY <1>2, SaveTypes
<1>3. CASE DropUnread \/ Reply
  <2>1. /\ Drop /\ setup' = setup /\ sock' = sock
        /\ serving # None
        /\ answer' = None
    BY <1>3 DEF TypeInv, DaemonInv, Asked, Threaded, DropUnread, Reply
  <2>2. Threaded'
    BY <2>1 DEF TypeInv, Threaded, Drop, Listening
  <2> QED
    BY <2>1, <2>2, DropWaiting
<1>4. CASE Refuse
  <2>1. /\ UNCHANGED <<socket, setup, sock>> /\ pc' = "reply"
        /\ answer' \in Responses /\ answer' # None
    BY <1>4, MarksAssumption DEF Refuse, ParseErrors, Responses, RpcErrors
  <2>2. Waiting'
    BY <2>1, SameWaiting DEF socket
  <2>3. Threaded'
    BY <2>1 DEF TypeInv, Threaded, Listening
  <2> QED
    BY <2>2, <2>3
<1>5. CASE Dispatch
  <2>1. /\ UNCHANGED <<socket, setup, sock>> /\ pc = "read"
        /\ \/ pc' = "reply" /\ answer' \in Answers(line[serving])
           \/ pc' = "write" /\ UNCHANGED answer
    BY <1>5 DEF Dispatch
  <2>2. Answers(line[serving]) \subseteq Responses
    BY DEF Answers, Responses, RpcErrors
  <2>3. Waiting'
    BY <2>1, SameWaiting DEF socket
  <2>4. Threaded'
    BY <2>1, <2>2, MarksAssumption DEF TypeInv, Threaded, Listening
  <2> QED
    BY <2>3, <2>4
<1> QED
  BY <1>1, <1>2, <1>3, <1>4, <1>5 DEF Process

LEMMA StepTypes ==
  ASSUME TypeInv, [Next]_vars
  PROVE  Waiting' /\ Threaded'
<1>1. CASE Process
  BY <1>1, ProcessTypes
<1>2. ASSUME NEW c \in Clients, Connect(c)
      PROVE  Waiting' /\ Threaded'
  BY <1>2, ConnectWaiting DEF Connect, TypeInv, Threaded
<1>3. ASSUME NEW c \in Clients, Close(c)
      PROVE  Waiting' /\ Threaded'
  <2>1. Waiting'
    BY <1>3 DEF Close, TypeInv, Waiting, DaemonInv, Typed
  <2> QED
    BY <1>3, <2>1 DEF Close, TypeInv, Threaded
<1>4. ASSUME NEW c \in Clients, NEW text, Send(c, text)
      PROVE  Waiting' /\ Threaded'
  BY <1>4, SameWaiting DEF Send, TypeInv, Threaded
<1>5. CASE Crash \/ PowerLoss \/ TmpfsLoss
  <2>1. Exit /\ setup' = setup /\ sock' \in BOOLEAN
    BY <1>5 DEF Crash, PowerLoss, TmpfsLoss, TypeInv, Threaded
  <2> QED
    BY <2>1, ExitTypes
<1>6. CASE UNCHANGED vars
  BY <1>6, SameWaiting DEF vars, socket, TypeInv, Threaded
<1> QED
  BY <1>1, <1>2, <1>3, <1>4, <1>5, <1>6 DEF Next

\* Every reachable state of the daemon is well-typed: the thread handles exactly
\* the connection it accepted, and a client waits in the backlog at most once
\* and never while it is served.
THEOREM DaemonTypeCorrect == Spec => []TypeOK
<1>1. Init => TypeInv
  <2> SUFFICES ASSUME Init PROVE TypeInv
    OBVIOUS
  <2>1. Waiting
    BY DEF Init, Waiting
  <2>2. Threaded
    BY SetupsType DEF Init, Threaded
  <2> QED
    BY <2>1, <2>2, InitInv DEF TypeInv
<1>2. TypeInv /\ [Next]_vars => TypeInv'
  BY StepInv, StepTypes DEF TypeInv
<1>3. TypeInv => TypeOK
  BY DEF TypeInv, DaemonInv, Typed, Asked, Waiting, Threaded, TypeOK, Texts
<1> QED
  BY <1>1, <1>2, <1>3, PTL DEF Spec
===============================================================================
