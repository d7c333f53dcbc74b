----------------------------- MODULE KakaoMatch -----------------------------
(***************************************************************************)
(* matchKakaoObservation: which store of the catalog an observed place is. *)
(* The catalog grows one store at a time, so that the answers before and   *)
(* after a publication can be compared.                                    *)
(*                                                                         *)
(* Names, addresses and phones are values; a position is a point on a line *)
(* and two positions at most Near apart are within 75 metres.              *)
(***************************************************************************)
EXTENDS Integers, Sequences, FiniteSets

CONSTANTS
  Name, Address,
  Phone,      \* normalised phones, NoPhone among them
  NoPhone,    \* null
  Position,   \* integers
  NoPosition, \* a store without coordinates
  Near,       \* 75 metres
  MaxStores   \* bound: stores of the catalog

ASSUME MatchAssumption ==
  /\ NoPhone \in Phone
  /\ Position \subseteq Int /\ NoPosition \notin Position
  /\ Near \in Nat /\ MaxStores \in Nat

KakaoMatchObservation ==
  [name : Name, address : Address, phone : Phone, at : Position]
KakaoMatchStore ==
  [name : Name, address : Address, phone : Phone,
   at : Position \cup {NoPosition}, published : BOOLEAN]

VARIABLES
  place,        \* the observation
  catalog       \* the stores, in the order of store ids

matchVars == <<place, catalog>>

AddressExact(o, s) == o.address = s.address
NameExact(o, s)    == o.name = s.name
PhoneExact(o, s)   == o.phone # NoPhone /\ o.phone = s.phone

PhoneConflict(o, s) ==
  o.phone # NoPhone /\ s.phone # NoPhone /\ o.phone # s.phone
CoordinateClose(o, s) ==
  s.at # NoPosition /\ o.at - s.at \in -Near..Near

StrongMatch(o, s) ==
  /\ AddressExact(o, s) /\ NameExact(o, s)
  /\ PhoneExact(o, s) \/ CoordinateClose(o, s)
  /\ ~PhoneConflict(o, s)

(* Same place by name, address and position, but another phone. *)
Conflicting(o, s) ==
  /\ AddressExact(o, s) /\ NameExact(o, s) /\ CoordinateClose(o, s)
  /\ PhoneConflict(o, s)

Unlinked(status) == [status |-> status, store |-> 0]
Linked(s, i) ==
  [status |-> IF s.published THEN "MATCHED_ELIGIBLE" ELSE "MATCHED_EXCLUDED",
   store |-> i]

StrongMatches(o, ss)  == {i \in DOMAIN ss : StrongMatch(o, ss[i])}
PhoneConflicts(o, ss) == {i \in DOMAIN ss : Conflicting(o, ss[i])}

TheStrongMatch(o, ss) ==
  LET i == CHOOSE j \in StrongMatches(o, ss) : TRUE IN Linked(ss[i], i)

(* Mutant: conflicts count only when there is no strong match. *)
MatchConflictsLast(o, ss) ==
  LET strong == StrongMatches(o, ss) IN
  CASE Cardinality(strong) > 1 -> Unlinked("AMBIGUOUS")
    [] Cardinality(strong) = 1 -> TheStrongMatch(o, ss)
    [] strong = {} /\ PhoneConflicts(o, ss) # {} -> Unlinked("AMBIGUOUS")
    [] OTHER -> Unlinked("UNMATCHED")

matchKakaoObservation(o, ss) ==
  LET strong == StrongMatches(o, ss)
      conflicts == PhoneConflicts(o, ss) IN
  CASE Cardinality(strong) > 1 \/ conflicts # {} -> Unlinked("AMBIGUOUS")
    [] strong = {} /\ conflicts = {} -> Unlinked("UNMATCHED")
    [] OTHER -> TheStrongMatch(o, ss)

MatchInit == place \in KakaoMatchObservation /\ catalog = <<>>

AddStore ==
  /\ Len(catalog) < MaxStores
  /\ \E s \in KakaoMatchStore : catalog' = Append(catalog, s)
  /\ UNCHANGED place

MatchSpec == MatchInit /\ [][AddStore]_matchVars

-----------------------------------------------------------------------------
(* Properties *)

Match == matchKakaoObservation(place, catalog)

(* A store that joins the catalog can make a link doubtful, but it never   *)
(* redirects a link to another store, nor settles what was doubtful.       *)
LinksAreStable ==
  [][/\ Match.store # 0 => Match'.store = Match.store
                             \/ Match'.status = "AMBIGUOUS"
     /\ Match.status = "AMBIGUOUS" => Match'.status = "AMBIGUOUS"]_matchVars
=============================================================================
