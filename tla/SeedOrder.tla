------------------------------ MODULE SeedOrder ------------------------------
(***************************************************************************)
(* The seed-ordering policy of cluster bootstrap: prioritizeSeedServers    *)
(* (src/app/members.go), which InitMemberList calls before joining the     *)
(* gossip cluster.  Addresses are abstracted to naturals whose order is    *)
(* the lexicographic order sort.Strings uses.  The state is the input: the *)
(* node's own name and the configured seed list; it never changes.         *)
(***************************************************************************)
EXTENDS Naturals, Sequences, SequencesExt, TLC

CONSTANTS
    Addrs,   \* seed addresses, ordered as sort.Strings orders them
    Fatal    \* model value: logrus.Fatal ends the process

VARIABLES self, seeds
seedVars == <<self, seeds>>

(* The loop "for i, elem := range seedServers { if elem == name { myPos =  *)
(* i } }": the last position of name, or the first slot (Go index 0) when *)
(* name is absent.  Positions here are 1-based.                            *)
SeedPosition(sorted, name) ==
    LET at == {i \in 1 .. Len(sorted) : sorted[i] = name}
    IN IF at = {} THEN 1 ELSE Max(at)

(* Mutation: the tail slice starting at myPos instead of myPos+1.         *)
prioritizeSeedServersKeepSelf(name, seedServers) ==
    IF Len(seedServers) = 0 THEN Fatal
    ELSE IF Len(seedServers) = 1
         THEN IF seedServers[1] = name THEN Fatal ELSE seedServers
    ELSE LET sorted == SortSeq(seedServers, <)
             myPos  == SeedPosition(sorted, name)
         IN SubSeq(sorted, myPos, Len(sorted)) \o SubSeq(sorted, 1, myPos - 1)

(* prioritizeSeedServers(name, seedServers): an empty list, or a list      *)
(* holding only name, is fatal; any other one-entry list is used as is;    *)
(* otherwise the sorted list is rotated to start after name's position,    *)
(* and the entry at that position is left out.                             *)
prioritizeSeedServers(name, seedServers) ==
    IF Len(seedServers) = 0 THEN Fatal
    ELSE IF Len(seedServers) = 1
         THEN IF seedServers[1] = name THEN Fatal ELSE seedServers
    ELSE LET sorted == SortSeq(seedServers, <)
             myPos  == SeedPosition(sorted, name)
         IN SubSeq(sorted, myPos + 1, Len(sorted)) \o SubSeq(sorted, 1, myPos - 1)

Init ==
    /\ self \in Addrs
    /\ seeds \in SetToAllKPermutations(Addrs)

Next == UNCHANGED seedVars

Spec == Init /\ [][Next]_seedVars
-----------------------------------------------------------------------------
Result == prioritizeSeedServers(self, seeds)

(* The order spec 4.6 asks for: the other seeds after this node's address, *)
(* ascending, then those before it, ascending.                             *)
RotationAfter(name, S) ==
    SetToSortSeq({a \in S : a > name}, <) \o SetToSortSeq({a \in S : a < name}, <)

(* RotationWhenListed (spec 4.6 and 8): when the node's own address is one *)
(* of several seeds, prioritizeSeedServers returns every other seed, those *)
(* after it first, each list in sorted order.                              *)
RotationWhenListed ==
    (self \in ToSet(seeds) /\ Len(seeds) > 1) => Result = RotationAfter(self, ToSet(seeds))

(* EveryOtherSeedTried (members.go:34, "P-list will be the current list    *)
(* minus our node"): whenever the list is usable, the join is offered      *)
(* exactly the seeds other than this node.                                 *)
EveryOtherSeedTried ==
    Result # Fatal => ToSet(Result) = ToSet(seeds) \ {self}
=============================================================================
