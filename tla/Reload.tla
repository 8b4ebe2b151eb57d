-------------------------------- MODULE Reload --------------------------------
(***************************************************************************)
(* opts.reload: how the proxies of a client and the services of a server   *)
(* follow the files they are made from, while those change.                *)
(*                                                                         *)
(* A path is a directory, a file of it the module of the service of that   *)
(* name; what matters of a module are its methods.  Both sides read the    *)
(* same directories, as on a machine where the code is developed, and the  *)
(* servers meant are of one type.  A namespace may have several paths.     *)
(* pofresh-loader and fs.watch() are external: Loader.load() reads every   *)
(* module of a directory anew and returns nothing if there is none; an     *)
(* event arrives some time after its cause, and says "change" for a write  *)
(* in place and "rename" for a file that appears or goes away.             *)
(***************************************************************************)
EXTENDS Integers, Sequences, FiniteSets, FiniteSetsExt, Functions, TLC

CONSTANTS Paths,       \* opts.paths, and the paths of the client's records, in order
          NamespaceOf, \* the namespace of each
          Files,       \* the files <<path, service>> that may be there
          AtFirst,     \* those that are there at first
          Methods,     \* names of methods
          Null,        \* what Proxy.create() returns without an origin
          MaxChanges,  \* bound: number of changes to the files
          MaxCalls     \* bound: number of calls under way at a time

PathSet == Range(Paths)

ASSUME ReloadAssumption ==
  /\ DOMAIN NamespaceOf = PathSet
  /\ \A f \in Files : f[1] \in PathSet
  /\ AtFirst \subseteq Files
  /\ MaxChanges \in Nat /\ MaxCalls \in Nat

VARIABLES
  disk,          \* the methods in each file that is there
  changes,       \* number of changes to the files
  proxies,       \* client: by namespace, the methods of each service, or Null
  watchers,      \* client: paths watched, and whether the object their watcher
                 \* updates is the one that was made the namespace's
  clientEvents,  \* files with an event on its way to the client's watchers
  services,      \* server: by namespace, the methods of each service
  created,       \* the server has been created
  serverEvents,  \* paths with a "change" on its way to the server's watchers
  unseen,        \* files that appeared since the server last loaded their path,
                 \* without a "change"
  calls,         \* calls under way
  refused        \* the call last routed, if the dispatcher answered with an error

vars == <<disk, changes, proxies, watchers, clientEvents, services, created,
          serverEvents, unseen, calls, refused>>
diskVars == <<disk, changes>>
clientVars == <<proxies, watchers, clientEvents>>
serverVars == <<services, created, serverEvents, unseen>>
callVars == <<calls, refused>>

Ns(p) == NamespaceOf[p]

\* Loader.load(): the methods of each service of p.
Load(p) == [s \in {f[2] : f \in {f \in DOMAIN disk : f[1] = p}} |-> disk[<<p, s>>]]
Loads(p) == DOMAIN Load(p) # {}

\* The value of a registry at a key, or an empty one.
At(registry, k) == IF k \in DOMAIN registry THEN registry[k] ELSE <<>>

Init ==
  /\ disk = [f \in AtFirst |-> Methods]
  /\ changes = 0
  /\ proxies = <<>> /\ watchers = <<>> /\ clientEvents = {}
  /\ services = <<>> /\ created = FALSE /\ serverEvents = {} /\ unseen = {}
  /\ calls = {} /\ refused = {}

-----------------------------------------------------------------------------
(* What is known to be in step, by the code alone.                         *)

\* No other path has a service of that name to offer in the namespace.
OwnName(f) == \A g \in Files : g[2] = f[2] /\ Ns(g[1]) = Ns(f[1]) => g = f

\* No other path has the namespace: on the server only one of them has it.
OwnNamespace(p) == \A q \in PathSet : Ns(q) = Ns(p) => q = p

\* A watcher updates the proxies users find, and none of its events waits.
ClientUpToDate(f) ==
  f[1] \in DOMAIN watchers /\ watchers[f[1]] /\ OwnName(f) /\ f \notin clientEvents

\* The server was told of everything that happened to the file.
ServerUpToDate(f) ==
  OwnNamespace(f[1]) /\ f[1] \notin serverEvents /\ f \notin unseen

Settled(n, s) ==
  \E f \in DOMAIN disk : Ns(f[1]) = n /\ f[2] = s /\ ClientUpToDate(f) /\ ServerUpToDate(f)

-----------------------------------------------------------------------------
(* The files. *)

\* File f changes, with the kinds of events that makes.  A call under way to
\* its service is marked: where it ends depends on who is first.
Changed(f, kinds) ==
  /\ changes < MaxChanges
  /\ changes' = changes + 1
  /\ clientEvents' = clientEvents \cup {g \in {f} : g[1] \in DOMAIN watchers}
  /\ serverEvents' = serverEvents \cup {p \in {f[1]} : created /\ "change" \in kinds}
  /\ unseen' = unseen \cup {g \in {f} : created /\ "change" \notin kinds}
  /\ calls' = {[c EXCEPT !.touched = @ \/ (c.namespace = Ns(f[1]) /\ c.service = f[2])] : c \in calls}
  /\ UNCHANGED <<proxies, watchers, services, created, refused>>

\* A file is written in place; one that was not there appears first.
Write(f, ms) ==
  /\ disk' = (f :> ms) @@ disk
  /\ Changed(f, IF f \in DOMAIN disk THEN {"change"} ELSE {"rename", "change"})

\* A file is moved to its place, as editors and deployments do.
Move(f, ms) ==
  /\ disk' = (f :> ms) @@ disk
  /\ Changed(f, {"rename"})

Remove(f) ==
  /\ f \in DOMAIN disk
  /\ disk' = Restrict(disk, DOMAIN disk \ {f})
  /\ Changed(f, {"rename"})

-----------------------------------------------------------------------------
(* The client. *)

\* addProxy(): the first record of a namespace brings the object users find,
\* the proxies of a later one are copied into it.  A watcher, installed once a
\* path, goes on updating the object of its record.  (Operators named Bug...
\* are the definition below them with a plausible mistake.)
AddProxy(p) ==
  /\ Loads(p)
  /\ proxies' = (Ns(p) :> (Load(p) @@ At(proxies, Ns(p)))) @@ proxies
  /\ watchers' = watchers @@ (p :> (Ns(p) \notin DOMAIN proxies))
  /\ UNCHANGED <<diskVars, clientEvents, serverVars, callVars>>

\* Proxy.create() for a service of what was loaded.
Created(modules, s) == IF s \in DOMAIN modules THEN modules[s] ELSE Null

\* The callback of the client's watchers, whatever the event says.
BugClientWatchKnown(f) ==
  /\ f \in clientEvents
  /\ clientEvents' = clientEvents \ {f}
  /\ proxies' = IF Loads(f[1]) /\ watchers[f[1]] /\ f[2] \in DOMAIN proxies[Ns(f[1])]
                THEN [proxies EXCEPT ![Ns(f[1])][f[2]] = Created(Load(f[1]), f[2])]
                ELSE proxies
  /\ UNCHANGED <<diskVars, watchers, serverVars, callVars>>

ClientWatch(f) ==
  /\ f \in clientEvents
  /\ clientEvents' = clientEvents \ {f}
  /\ proxies' = IF Loads(f[1]) /\ watchers[f[1]]
                THEN [proxies EXCEPT ![Ns(f[1])] = (f[2] :> Created(Load(f[1]), f[2])) @@ @]
                ELSE proxies
  /\ UNCHANGED <<diskVars, watchers, serverVars, callVars>>

\* A user calls through a proxy, and the message is sent.
Call(n, s, m) ==
  /\ Cardinality(calls) < MaxCalls
  /\ s \in DOMAIN At(proxies, n)
  /\ proxies[n][s] # Null /\ m \in proxies[n][s]
  /\ calls' = calls \cup {[namespace |-> n, service |-> s, method |-> m,
                           touched |-> ~Settled(n, s)]}
  /\ UNCHANGED <<diskVars, clientVars, serverVars, refused>>

-----------------------------------------------------------------------------
(* The server. *)

\* loadRemoteServices(): of the paths of a namespace, the last.
Loaded ==
  LET Of(n) == {i \in DOMAIN Paths : Ns(Paths[i]) = n /\ Loads(Paths[i])}
  IN  [n \in {Ns(p) : p \in {q \in PathSet : Loads(q)}} |-> Load(Paths[Max(Of(n))])]

\* create(): the services are loaded and their paths watched in one go.
CreateServer ==
  /\ ~created
  /\ created' = TRUE
  /\ services' = Loaded
  /\ UNCHANGED <<diskVars, clientVars, serverEvents, unseen, callVars>>

\* The dispatcher on 'reload': the namespace of the path is replaced.
BugReloadedAll(p) == IF Loads(p) THEN Ns(p) :> Load(p) ELSE <<>>
BugReloadedUnder(p) ==
  IF Loads(p) THEN (Ns(p) :> (At(services, Ns(p)) @@ Load(p))) @@ services ELSE services
Reloaded(p) == IF Loads(p) THEN (Ns(p) :> Load(p)) @@ services ELSE services

\* The callback of the server's watchers, which does nothing for a "rename".
ServerWatch(p) ==
  /\ p \in serverEvents
  /\ serverEvents' = serverEvents \ {p}
  /\ services' = Reloaded(p)
  /\ unseen' = {f \in unseen : f[1] # p}
  /\ UNCHANGED <<diskVars, clientVars, created, callVars>>

\* route(): the call reaches its method, or is answered with an error.
Routed(c) ==
  c.service \in DOMAIN At(services, c.namespace)
    /\ c.method \in services[c.namespace][c.service]

Route(c) ==
  /\ created
  /\ c \in calls
  /\ calls' = calls \ {c}
  /\ refused' = {d \in {c} : ~Routed(d)}
  /\ UNCHANGED <<diskVars, clientVars, serverVars>>

-----------------------------------------------------------------------------
Next ==
  \/ \E f \in Files :
       \/ \E ms \in SUBSET Methods : Write(f, ms) \/ Move(f, ms)
       \/ Remove(f)
       \/ ClientWatch(f)
       \/ \E m \in Methods : Call(Ns(f[1]), f[2], m)
  \/ \E p \in PathSet : AddProxy(p) \/ ServerWatch(p)
  \/ CreateServer
  \/ \E c \in calls : Route(c)

Spec == Init /\ [][Next]_vars

-----------------------------------------------------------------------------
(* Properties. *)

\* Whatever happens to the files, and in whichever order the events arrive, the
\* proxies of a file the client watches are those of what is in it, once no
\* event is on its way: addProxy() again or for another path of the namespace,
\* files that come back and emptied directories do not spoil that.
ProxiesFollowFiles ==
  \A f \in DOMAIN disk :
    ClientUpToDate(f) =>
      f[2] \in DOMAIN proxies[Ns(f[1])] /\ proxies[Ns(f[1])][f[2]] = disk[f]

\* So do the services of the server, but for files it was never told of: a
\* reload of one path neither loses nor mixes up what others brought.
ServicesFollowFiles ==
  \A f \in DOMAIN disk :
    created /\ ServerUpToDate(f) =>
      f[2] \in DOMAIN At(services, Ns(f[1])) /\ services[Ns(f[1])][f[2]] = disk[f]

\* A call is refused for an unknown namespace, service or method only if its
\* file changed while it was under way, or an event was under way when it was
\* made, or its service is one of those that may be out of step for good.
\* Whatever else is reloaded meanwhile does not reach it.
UntouchedCallsServed == \A c \in refused : c.touched

=============================================================================
