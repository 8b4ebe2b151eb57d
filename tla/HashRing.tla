------------------------------ MODULE HashRing ------------------------------
(***************************************************************************)
(* The consistent-hash router: chRoute() of lib/rpc-client/router.js and   *)
(* the ring of lib/util/consistentHash.js, for one server type of one      *)
(* client.  The first routed call builds the ring from                     *)
(* serversMap[serverType]; from then on the ring follows the events        *)
(* 'addServer' and 'removeServer' of the station, which do not say what    *)
(* type the server has.                                                    *)
(*                                                                         *)
(* Only the order of hashes matters: they are numbers, and hash() is an    *)
(* injective map that Init chooses from a given set.  The array nodes of the ring is never  *)
(* read and left out.  The servers of the type are the list of Routers.    *)
(***************************************************************************)
EXTENDS Integers, Sequences, Functions, FiniteSetsExt, SequencesExt

CONSTANTS Servers,   \* ids of servers of this type
          Others,    \* ids of servers of other types
          Replicas,  \* opts.replicas
          Hashes,    \* the hash functions considered: a number for each spot
          Fields,    \* hashes of the fields calls are routed by
          NoServer   \* what getNode() returns on an empty ring: 0

VARIABLES
  place,   \* hash() of each id and replica
  servers, \* serversMap[serverType], as a set
  others,  \* servers of other types
  created, \* chParam[serverType] holds a ring
  keys,    \* hashes on the ring in ascending order
  ring,    \* server of each hash
  strayed  \* since the ring was created, a server of another type was added, or
           \* replaceServers() was called

ringVars == <<place, others, created, keys, ring, strayed>>

Ids == Servers \cup Others
Spots == Ids \X (1..Replicas)
PointsOf(s) == {place[<<s, i>>] : i \in 1..Replicas}

Init ==
  /\ place \in Hashes
  /\ servers = {}
  /\ others = {}
  /\ created = FALSE
  /\ keys = <<>>
  /\ ring = <<>>
  /\ strayed = FALSE

-----------------------------------------------------------------------------
(* The ring. *)

MaxKeys == Cardinality(Spots) + Replicas  \* bound: hashes on the ring

\* The values of f, a function on integers, in ascending order.
Rank(f, i) == Cardinality({j \in DOMAIN f : f[j] < f[i] \/ (f[j] = f[i] /\ j <= i)})
Sorted(f) ==
  LET rank == [i \in DOMAIN f |-> Rank(f, i)]
  IN [n \in 1..Cardinality(DOMAIN f) |-> f[CHOOSE i \in DOMAIN f : rank[i] = n]]
\* q without the values in S, with gaps where they were.
Without(q, S) == Restrict(q, {i \in DOMAIN q : q[i] \notin S})

\* addNode() and removeNode(), for each server of S.  Nothing looks at whether
\* the server is on the ring already; its hashes are then there twice.
\* (Operators named Bug... are the definition below them with a plausible
\* mistake, see Mailbox.)
AddNodes(S) ==
  LET new == UNION {PointsOf(s) : s \in S} IN
  /\ Len(keys) <= MaxKeys - Cardinality(new)
  /\ keys' = Sorted(keys \o SetToSeq(new))
  /\ ring' = [k \in DOMAIN ring \cup new |->
                IF k \in new THEN CHOOSE s \in S : k \in PointsOf(s) ELSE ring[k]]

BugRemoveFirstReplica(s) ==
  LET old == {place[<<s, 1>>]} IN
  /\ keys' = Sorted(Without(keys, old))
  /\ ring' = Restrict(ring, DOMAIN ring \ old)
RemoveNode(s) ==
  /\ keys' = Sorted(Without(keys, PointsOf(s)))
  /\ ring' = Restrict(ring, DOMAIN ring \ PointsOf(s))

\* getNodePosition(): positions count from 0, and the search looks at as many
\* of the keys as the ring has servers' hashes.
Size == Cardinality(DOMAIN ring)
BugPosition(h) ==
  LET search[bounds \in (0..Size) \X (-1..(Size - 1))] ==
        LET lower == bounds[1]
            upper == bounds[2]
            idx == (lower + upper) \div 2
        IN IF lower >= upper THEN IF upper < 0 THEN Size - 1 ELSE upper
           ELSE IF keys[idx + 1] = h THEN idx
           ELSE search[IF keys[idx + 1] > h THEN <<lower, idx - 1>> ELSE <<idx + 1, upper>>]
  IN search[<<0, Size - 1>>]
Position(h) ==
  LET search[bounds \in (0..Size) \X (-1..(Size - 1))] ==
        LET lower == bounds[1]
            upper == bounds[2]
            idx == (lower + upper) \div 2
        IN IF lower > upper THEN IF upper < 0 THEN Size - 1 ELSE upper
           ELSE IF keys[idx + 1] = h THEN idx
           ELSE search[IF keys[idx + 1] > h THEN <<lower, idx - 1>> ELSE <<idx + 1, upper>>]
  IN search[<<0, Size - 1>>]

\* getNode() of a field with hash h.
NodeOf(h) == IF DOMAIN ring = {} THEN NoServer ELSE ring[keys[Position(h) + 1]]

-----------------------------------------------------------------------------
\* The first call of chRoute() with a server in the list.
Create ==
  /\ ~created /\ servers # {}
  /\ created' = TRUE
  /\ AddNodes(servers)
  /\ UNCHANGED <<place, servers, others, strayed>>

\* addServer() and removeServer() of the station, of a server of any type.
AddServer(s) ==
  /\ servers' = servers \cup ({s} \cap Servers)
  /\ others' = others \cup ({s} \cap Others)
  /\ IF created THEN AddNodes({s}) ELSE UNCHANGED <<keys, ring>>
  /\ strayed' = (strayed \/ (created /\ s \in Others))
  /\ UNCHANGED <<place, created>>

RemoveServer(s) ==
  /\ servers' = servers \ {s}
  /\ others' = others \ {s}
  /\ IF created THEN RemoveNode(s) ELSE UNCHANGED <<keys, ring>>
  /\ UNCHANGED <<place, created, strayed>>

\* replaceServers() emits no event.
ReplaceServers(S) ==
  /\ servers' = S \cap Servers
  /\ others' = S \cap Others
  /\ strayed' = (strayed \/ created)
  /\ UNCHANGED <<place, created, keys, ring>>

-----------------------------------------------------------------------------
(* Properties. *)

\* The variables have the types their comments give.
TypeOK ==
  /\ place \in Hashes
  /\ servers \subseteq Servers /\ others \subseteq Others /\ created \in BOOLEAN
  /\ keys \in Seq(DOMAIN ring) /\ ring \in [DOMAIN ring -> Ids]
  /\ \A i, j \in DOMAIN keys : i <= j => keys[i] <= keys[j]

\* A call is routed to a server of its own type that the station knows, also
\* when servers are added that are on the ring already.
RoutedIsKnown ==
  created /\ servers # {} /\ ~strayed => \A h \in Fields : NodeOf(h) \in servers

\* The binary search finds the last key that is not above the hash, or the last
\* of all: for every ring that additions and removals can leave behind, unless
\* a server is on the ring twice.
Below(h) == {k \in DOMAIN ring : k <= h}
SearchCorrect ==
  created /\ ring # <<>> /\ IsInjective(keys) =>
    \A h \in Fields :
      NodeOf(h) = ring[Max(IF Below(h) = {} THEN DOMAIN ring ELSE Below(h))]

\* Consistent hashing: a change of the list moves calls only to servers that are
\* new and away from servers that are gone (as long as no server is on the ring
\* twice and the ring was told of every change).
MovesAreNeeded ==
  [][created /\ IsInjective(keys) /\ IsInjective(keys') /\ ~strayed' =>
       \A h \in Fields :
         NodeOf(h)' = NodeOf(h) \/ NodeOf(h)' \in servers' \ servers
                                \/ NodeOf(h) \in servers \ servers']_<<servers, ringVars>>

=============================================================================
