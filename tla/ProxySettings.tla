---------------------------- MODULE ProxySettings ----------------------------
(***************************************************************************)
(* The outbound proxies between the console, the settings and the route:    *)
(* pkg/webadmin/proxy_pool.go and settings.go over outbound/proxy.go and    *)
(* atomicfile.go.  Handlers change the route, and write the settings to a   *)
(* file, a step at a time; each lock is held for one step only.  Writes     *)
(* fail, and the process dies and starts again.                             *)
(*                                                                          *)
(* A list of proxies is the set of them (NewPool drops repetitions); other  *)
(* stands for all the other settings.                                       *)
(***************************************************************************)
EXTENDS FiniteSets

CONSTANTS
  Proxy,
  Bad,       \* a link that New refuses
  NoPool,    \* proxyPool = nil: connections are direct
  Other,     \* bound: contents of the other settings
  Unset,     \* the one they start with
  Handler,   \* goroutines of the console's API
  Inode,     \* bound: files on the disk at a time
  NoInode,
  Torn       \* what a file holds that is not completely written

ASSUME BadAssumption == Bad \notin Proxy
ASSUME NoPoolAssumption == \A S \in SUBSET Proxy : S # NoPool
ASSUME UnsetAssumption == Unset \in Other
ASSUME InodeAssumption == NoInode \notin Inode /\ Inode # {}

Settings == [pool: SUBSET Proxy, enabled: BOOLEAN, other: Other]
ASSUME TornAssumption == \A s \in Settings : s # Torn

\* The requests of the console; singBoxNodes adds its one proxy like a link.
Add == [op: {"add"}, links: SUBSET (Proxy \cup {Bad}) \ {{}}]
Remove == [op: {"remove"}, proxy: Proxy]
Clear == [op: {"clear"}]
Toggle == [op: {"toggle"}, enabled: BOOLEAN]
PutPool == [op: {"putPool"}, pool: SUBSET Proxy]
PutOther == [op: {"putOther"}, other: Other]
Request == Add \cup Remove \cup Clear \cup Toggle \cup PutPool \cup PutOther

VARIABLES
  route,     \* proxyPool
  memory,    \* settingsStore.v
  content,   \* the files on the disk
  file, tmp, \* settings.json and settings.json.tmp
  pc, req,   \* each handler's program counter and request
  todo,      \* the links it has not come to
  list,      \* the proxies it will configure
  v,         \* the settings it will save
  fd,        \* the file it writes
  alone,     \* history: handlers that no other has overlapped
  calm,      \* history: the last handler ran alone and succeeded
  clean,     \* history: the save under way, if no other has overlapped it
  overlap,   \* history: whether saves overlapped since the last clean one
  acked      \* history: the last value other was given

disk == <<content, file, tmp>>
locals == <<req, todo, list, v, fd>>
saves == <<clean, overlap>>
history == <<alone, calm, saves, acked>>
vars == <<route, memory, disk, pc, locals, history>>

Default == [pool |-> {}, enabled |-> TRUE, other |-> Unset]
Idle == [op |-> "clear"]
Quiet == \A h \in Handler : pc[h] = "idle"

\* openSettingsStore with an empty directory; the first save makes the file.
Init ==
  /\ route = NoPool
  /\ memory = Default
  /\ file = NoInode /\ tmp = NoInode
  /\ content = [i \in Inode |-> Torn]
  /\ pc = [h \in Handler |-> "idle"]
  /\ req = [h \in Handler |-> Idle]
  /\ todo = [h \in Handler |-> {}]
  /\ list = [h \in Handler |-> {}]
  /\ v = [h \in Handler |-> Default]
  /\ fd = [h \in Handler |-> NoInode]
  /\ alone = {} /\ calm = FALSE /\ clean = {} /\ overlap = FALSE /\ acked = Unset

\* What a start finds; a file that cannot be parsed leaves the defaults.
Stored == IF file = NoInode \/ content[file] = Torn THEN Default ELSE content[file]

\* proxyPool.List, as far as the addresses go.
Listed == IF route = NoPool THEN {} ELSE route

At(h, here, there) == pc[h] = here /\ pc' = [pc EXCEPT ![h] = there]

\* The handler answers, and its locals are gone.
End(h, ok) ==
  /\ pc' = [pc EXCEPT ![h] = "idle"]
  /\ req' = [req EXCEPT ![h] = Idle]
  /\ todo' = [todo EXCEPT ![h] = {}]
  /\ list' = [list EXCEPT ![h] = {}]
  /\ v' = [v EXCEPT ![h] = Default]
  /\ fd' = [fd EXCEPT ![h] = NoInode]
  /\ calm' = (ok /\ h \in alone)
  /\ clean' = clean \ {h}
  /\ UNCHANGED <<alone, overlap>>

-----------------------------------------------------------------------------
(* The change of the route *)

Begin(h, r) ==
  /\ pc[h] = "idle"
  /\ pc' = [pc EXCEPT ![h] = IF r \in Add \cup Remove THEN "list"
                             ELSE IF r \in Clear THEN "configure" ELSE "settings"]
  /\ req' = [req EXCEPT ![h] = r]
  /\ todo' = [todo EXCEPT ![h] = IF r \in Add THEN r.links ELSE {}]
  /\ alone' = IF Quiet THEN {h} ELSE {}
  /\ calm' = FALSE
  /\ UNCHANGED <<route, memory, disk, list, v, fd, saves, acked>>

\* AddProxy: the list is copied, to be configured with one more.
ListToAdd(h) ==
  /\ req[h].op = "add"
  /\ At(h, "list", "configure")
  /\ \E p \in todo[h] \cap Proxy :
       /\ todo' = [todo EXCEPT ![h] = @ \ {p}]
       /\ list' = [list EXCEPT ![h] = Listed \cup {p}]
  /\ UNCHANGED <<route, memory, disk, req, v, fd, history>>

\* A link that New refuses ends the request; those before it are configured.
Refuse(h) ==
  /\ pc[h] = "list" /\ Bad \in todo[h]
  /\ End(h, FALSE)
  /\ UNCHANGED <<route, memory, disk, acked>>

\* RemoveProxy of a proxy that is listed, and without a pool.
ListToRemove(h) ==
  /\ req[h].op = "remove"
  /\ \/ /\ route # NoPool /\ req[h].proxy \in route
        /\ At(h, "list", "configure")
        /\ list' = [list EXCEPT ![h] = route \ {req[h].proxy}]
     \/ /\ route = NoPool
        /\ At(h, "list", "settings")
        /\ UNCHANGED list
  /\ UNCHANGED <<route, memory, disk, req, todo, v, fd, history>>

NotListed(h) ==
  /\ pc[h] = "list" /\ req[h].op = "remove"
  /\ route # NoPool /\ req[h].proxy \notin route
  /\ End(h, FALSE)
  /\ UNCHANGED <<route, memory, disk, acked>>

\* ConfigurePool.
Configure(h) ==
  /\ At(h, "configure", IF todo[h] = {} THEN "settings" ELSE "list")
  /\ route' = list[h]
  /\ UNCHANGED <<memory, disk, locals, history>>

-----------------------------------------------------------------------------
(* The settings *)

\* settings.get, and what adminSettings merges into it.
Merged(r) ==
  IF r.op = "putPool" THEN [memory EXCEPT !.pool = r.pool]
  ELSE IF r.op = "putOther" THEN [memory EXCEPT !.other = r.other]
  ELSE memory

GetSettings(h) ==
  /\ At(h, "settings", IF req[h].op \in {"putPool", "putOther"} THEN "save"
                       ELSE IF req[h].op = "toggle" THEN "switch" ELSE "status")
  /\ v' = [v EXCEPT ![h] = Merged(req[h])]
  /\ UNCHANGED <<route, memory, disk, req, todo, list, fd, history>>

\* persistProxyPool puts the list of the route into them ...
ReadStatus(h) ==
  /\ At(h, "status", "save")
  /\ v' = [v EXCEPT ![h].pool = Listed]
  /\ UNCHANGED <<route, memory, disk, req, todo, list, fd, history>>

\* ... and setProxyEnabled theirs into the route.
Switch(h) ==
  /\ At(h, "switch", "save")
  /\ route' = IF req[h].enabled THEN v[h].pool ELSE NoPool
  /\ v' = [v EXCEPT ![h].enabled = req[h].enabled]
  /\ UNCHANGED <<memory, disk, req, todo, list, fd, history>>

\* Files that have a name or are open.
Used == ({file, tmp} \cup {fd[h] : h \in Handler}) \ {NoInode}

\* Handlers between opening the temporary file and renaming it.
Writing == {h \in Handler : pc[h] \in {"write", "rename"}}

\* writeFileAtomic opens and truncates the temporary file, which all handlers
\* call the same.
Open(h) ==
  /\ At(h, "save", "write")
  /\ \E i \in IF tmp = NoInode THEN Inode \ Used ELSE {tmp} :
       /\ fd' = [fd EXCEPT ![h] = i]
       /\ content' = [content EXCEPT ![i] = Torn]
       /\ tmp' = i
  /\ clean' = IF Writing = {} THEN {h} ELSE {}
  /\ overlap' = (overlap \/ Writing # {})
  /\ UNCHANGED <<route, memory, file, req, todo, list, v, alone, calm, acked>>

\* What is written over the text of another handler may leave the end of it.
Write(h) ==
  /\ At(h, "write", "rename")
  /\ \E s \in {v[h]} \cup (IF content[fd[h]] = Torn THEN {} ELSE {Torn}) :
       content' = [content EXCEPT ![fd[h]] = s]
  /\ fd' = [fd EXCEPT ![h] = NoInode]
  /\ UNCHANGED <<route, memory, file, tmp, req, todo, list, v, history>>

\* The old file is gone, whoever has it open.
Rename(h) ==
  /\ tmp # NoInode
  /\ At(h, "rename", "adopt")
  /\ file' = tmp
  /\ tmp' = NoInode
  /\ content' = IF file = NoInode THEN content ELSE [content EXCEPT ![file] = Torn]
  /\ clean' = clean \ {h}
  /\ overlap' = (overlap /\ h \notin clean)
  /\ UNCHANGED <<route, memory, locals, alone, calm, acked>>

\* Mutant: the file is renamed even if writing it failed.
SaveFailsLate(h) ==
  /\ At(h, "write", "rename")
  /\ fd' = [fd EXCEPT ![h] = NoInode]
  /\ UNCHANGED <<route, memory, disk, req, todo, list, v, history>>

\* The disk refuses, or the temporary file is no longer there to be renamed.
SaveFails(h) ==
  /\ \/ pc[h] \in {"save", "write"}
     \/ pc[h] = "rename" /\ tmp = NoInode
  /\ End(h, FALSE)
  /\ UNCHANGED <<route, memory, disk, acked>>

\* save takes the settings over; adminSettings goes on to the route.
Adopt(h) ==
  /\ pc[h] = "adopt"
  /\ memory' = v[h]
  /\ acked' = IF req[h].op = "putOther" THEN v[h].other ELSE acked
  /\ IF req[h].op \in {"putPool", "putOther"}
     THEN /\ At(h, "adopt", "apply")
          /\ UNCHANGED <<locals, alone, calm, saves>>
     ELSE End(h, TRUE)
  /\ UNCHANGED <<route, disk>>

\* Mutant: adminSettings leaves the route as it is.
ApplyNothing(h) ==
  /\ pc[h] = "apply"
  /\ End(h, TRUE)
  /\ UNCHANGED <<route, memory, disk, acked>>

Apply(h) ==
  /\ pc[h] = "apply"
  /\ route' = v[h].pool
  /\ End(h, TRUE)
  /\ UNCHANGED <<memory, disk, acked>>

-----------------------------------------------------------------------------
\* The process dies and starts.  Nothing calls ConfigureFromEnv or
\* ApplyStartupSettingsEnv, so that connections are direct.
Restart ==
  /\ route' = NoPool
  /\ memory' = Stored
  /\ acked' = Stored.other
  /\ pc' = [h \in Handler |-> "idle"]
  /\ req' = [h \in Handler |-> Idle]
  /\ todo' = [h \in Handler |-> {}]
  /\ list' = [h \in Handler |-> {}]
  /\ v' = [h \in Handler |-> Default]
  /\ fd' = [h \in Handler |-> NoInode]
  /\ clean' = {}
  /\ UNCHANGED <<disk, alone, calm, overlap>>

Next ==
  \/ \E h \in Handler :
       \/ \E r \in Request : Begin(h, r)
       \/ ListToAdd(h) \/ Refuse(h) \/ ListToRemove(h) \/ NotListed(h) \/ Configure(h)
       \/ GetSettings(h) \/ ReadStatus(h) \/ Switch(h)
       \/ Open(h) \/ Write(h) \/ Rename(h) \/ SaveFails(h) \/ Adopt(h) \/ Apply(h)
  \/ Restart

Spec == Init /\ [][Next]_vars

-----------------------------------------------------------------------------
(* Properties *)

TypeOK ==
  /\ route \in {NoPool} \cup SUBSET Proxy
  /\ memory \in Settings
  /\ content \in [Inode -> Settings \cup {Torn}]
  /\ file \in Inode \cup {NoInode} /\ tmp \in Inode \cup {NoInode}
  /\ file = tmp => file = NoInode
  /\ pc \in [Handler -> {"idle", "list", "configure", "settings", "status", "switch",
                         "save", "write", "rename", "adopt", "apply"}]
  /\ req \in [Handler -> Request]
  /\ todo \in [Handler -> SUBSET (Proxy \cup {Bad})]
  /\ list \in [Handler -> SUBSET Proxy]
  /\ v \in [Handler -> Settings]
  /\ fd \in [Handler -> Inode \cup {NoInode}]
  /\ alone \subseteq Handler /\ clean \subseteq Handler
  /\ {overlap, calm} \subseteq BOOLEAN /\ acked \in Other

\* A request of the console that runs alone and is answered with success sets
\* right whatever failed and overlapping ones have left behind: the file has the
\* settings of the memory, and the route is direct or their list of proxies.
\* This goes for every kind of request, before and after a restart.
LoneChangeSettles ==
  calm /\ Quiet => Stored = memory /\ route \in {NoPool, memory.pool}

\* Wherever the process dies, it finds a whole file again (writeFileAtomic), unless
\* two saves were at the temporary file at once and none since has had it for itself
\* and renamed it: handlers may overlap in all else, and saves may fail.
WholeUnlessOverlapped ==
  ~overlap /\ file # NoInode => content[file] # Torn

\* "a crash mid-write can never leave a truncated store file that fails to load"
\* (atomicfile.go:5).  Overlapping saves write one temporary file: one renames it
\* while the other has just truncated it.
FileIsWhole == file # NoInode => content[file] # Torn

\* The patch of adminSettings is merged into the current settings so that
\* changing one field does not lose the others (settings.go:230-231).  All save what
\* they have read before.
OtherFieldsKept == Quiet => memory.other = acked

\* M365_PROXY_POOL is the "list of outbound proxies" (repository README.md:271),
\* and ApplyStartupSettingsEnv "loads persisted restart-required fields before the
\* rest of the application initializes" (settings.go:327).  Nothing calls it.
ConfiguredIsUsed ==
  Quiet /\ calm /\ memory.enabled /\ memory.pool # {} => route = memory.pool

\* "Proxy disabled; using direct connection" (web/index.html:1867).  Adding a
\* proxy, or saving any setting, makes a pool again.
DisabledIsDirect == Quiet /\ calm /\ ~memory.enabled => route = NoPool
=============================================================================
