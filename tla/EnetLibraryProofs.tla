------------------------- MODULE EnetLibraryProofs -------------------------
(***************************************************************************)
(* For any finite sets of servers and clients, whether enet_initialize     *)
(* fails for some or not, and however often objects are terminated and     *)
(* opened again: ENet is initialised at most as often as objects hold an   *)
(* initialisation, and less often only by as much as objects without one   *)
(* called enet_deinitialize.                                               *)
(***************************************************************************)
EXTENDS EnetLibrary, FiniteSetTheorems, TLAPS

\* Every variable keeps its type, whatever the program does with its objects.
THEOREM LibraryTypeCorrect == Spec => []TypeOK
<1>1. Init => TypeOK
  BY DEF Init, TypeOK
<1>2. TypeOK /\ [Next]_vars => TypeOK'
  <2> SUFFICES ASSUME TypeOK, [Next]_vars PROVE TypeOK'
    OBVIOUS
  <2>1. ASSUME NEW o \in Object, construct(o) PROVE TypeOK'
    <3>1. phase' \in [Object -> {"unborn", "alive", "destroyed"}]
      BY <2>1 DEF TypeOK, construct
    <3>2. count' \in Nat
      BY <2>1 DEF TypeOK, construct
    <3>3. made' \in [Object -> BOOLEAN]
      <4>1. made' = made \/ made' = [made EXCEPT ![o] = TRUE]
        BY <2>1 DEF construct
      <4>2. [made EXCEPT ![o] = TRUE] \in [Object -> BOOLEAN]
        BY DEF TypeOK
      <4>. QED
        BY <4>1, <4>2, Zenon DEF TypeOK
    <3>. QED
      BY <2>1, <3>1, <3>2, <3>3 DEF TypeOK, construct
  <2>2. ASSUME NEW o \in Object, open(o) PROVE TypeOK'
    BY <2>2 DEF TypeOK, open
  <2>3. ASSUME NEW o \in Object, terminate(o) PROVE TypeOK'
    BY <2>3 DEF TypeOK, terminate, enet_deinitialize
  <2>4. ASSUME NEW s \in Server, destroyServer(s) PROVE TypeOK'
    BY <2>4 DEF TypeOK, destroyServer, enet_deinitialize, Object
  <2>5. ASSUME NEW c \in Client, destroyClient(c) PROVE TypeOK'
    BY <2>5 DEF TypeOK, destroyClient, Object
  <2>6. CASE UNCHANGED vars
    BY <2>6 DEF TypeOK, vars
  <2>. QED
    BY <2>1, <2>2, <2>3, <2>4, <2>5, <2>6 DEF Next
<1>. QED
  BY <1>1, <1>2, PTL DEF Spec
-----------------------------------------------------------------------------
(* The inductive invariant. *)

\* An object does nothing to ENet before it is constructed.
UnbornUntouched ==
    \A o \in Object : phase[o] = "unborn" => terminated[o] = 0 /\ ~made[o]

LibraryInv == TypeOK /\ UnbornUntouched /\ CountIsHolders

LEMMA HoldersFinite ==
    IsFiniteSet(Holders) /\ Cardinality(Holders) \in Nat /\ (Cardinality(Holders) = 0 => Holders = {})
<1>1. IsFiniteSet(Holders)
  BY ObjectAssumption, FS_Subset DEF Holders
<1>. QED
  BY <1>1, FS_CardinalityType, FS_EmptySet

\* An object calls enet_deinitialize: if it held an initialisation it holds
\* none any more, and otherwise the call is one too many.
LEMMA UndoingCounts ==
    ASSUME TypeOK, CountIsHolders, NEW o \in Object, Holders' = Holders \ {o}, enet_deinitialize(o)
    PROVE  CountIsHolders'
<1> DEFINE h == Cardinality(Holders)
<1>1. /\ h \in Nat /\ count \in Nat /\ surplus \in Nat /\ count >= h - surplus /\ count <= h
      /\ count' = IF count = 0 THEN 0 ELSE count - 1
  BY HoldersFinite DEF TypeOK, CountIsHolders, enet_deinitialize
<1>2. CASE o \in Holders
  <2>1. Cardinality(Holders') = h - 1 /\ h # 0 /\ surplus' = surplus
    BY <1>2, HoldersFinite, FS_RemoveElement DEF enet_deinitialize
  <2> HIDE DEF h
  <2>2. count' \in (h - 1 - surplus)..(h - 1)
    BY <1>1, <2>1
  <2>. QED
    BY <2>1, <2>2 DEF CountIsHolders
<1>3. CASE o \notin Holders
  <2>1. Holders' = Holders /\ surplus' = surplus + 1
    BY <1>3 DEF enet_deinitialize
  <2> HIDE DEF h
  <2>2. count' \in (h - (surplus + 1))..h
    BY <1>1
  <2>. QED
    BY <2>1, <2>2 DEF CountIsHolders, h
<1>. QED
  BY <1>2, <1>3

\* Nothing that counts has changed.
LEMMA NothingUndone ==
    ASSUME CountIsHolders, Holders' = Holders, count' = count, surplus' = surplus
    PROVE  CountIsHolders'
BY DEF CountIsHolders
-----------------------------------------------------------------------------
LEMMA InitInvariant == Init => LibraryInv
<1> SUFFICES ASSUME Init PROVE LibraryInv
  OBVIOUS
<1>1. TypeOK /\ UnbornUntouched
  BY DEF Init, TypeOK, UnbornUntouched
<1>2. Holders = {}
  BY DEF Init, Holders
<1>3. Cardinality(Holders) = 0
  BY <1>2, FS_EmptySet
<1>4. count = 0 /\ surplus = 0
  BY DEF Init
<1>. QED
  BY <1>1, <1>3, <1>4 DEF LibraryInv, CountIsHolders

\* A new object holds the initialisation its constructor made, if it did.
LEMMA ConstructCounts ==
    ASSUME LibraryInv, NEW o \in Object, construct(o)
    PROVE  UnbornUntouched' /\ CountIsHolders'
<1>1. /\ phase[o] = "unborn" /\ terminated[o] = 0 /\ ~made[o]
      /\ terminated' = terminated /\ surplus' = surplus
      /\ phase' = [phase EXCEPT ![o] = "alive"]
      /\ \/ made' = [made EXCEPT ![o] = TRUE] /\ count' = count + 1
         \/ made' = made /\ count' = count
  BY DEF LibraryInv, UnbornUntouched, construct
<1>2. phase'[o] = "alive" /\ \A p \in Object : p # o => phase'[p] = phase[p]
  BY <1>1 DEF LibraryInv, TypeOK
<1>3. \A p \in Object : Undone(p)' = Undone(p)
  BY <1>1, <1>2 DEF Undone
<1>4. Undone(o) = 0 /\ o \notin Holders
  BY <1>1 DEF Undone, Holders
<1>5. CASE made' = made /\ count' = count
  <2>1. Holders' = Holders
    BY <1>3, <1>5 DEF Holders
  <2>2. UnbornUntouched'
    BY <1>1, <1>2, <1>5 DEF LibraryInv, UnbornUntouched
  <2>. QED
    BY <1>1, <1>5, <2>1, <2>2, NothingUndone DEF LibraryInv
<1>6. CASE made' = [made EXCEPT ![o] = TRUE] /\ count' = count + 1
  <2>1. made'[o] /\ \A p \in Object : p # o => made'[p] = made[p]
    BY <1>6 DEF LibraryInv, TypeOK
  <2>2. Holders' = Holders \cup {o}
    BY <1>3, <1>4, <2>1 DEF Holders
  <2>3. Cardinality(Holders') = Cardinality(Holders) + 1
    BY <1>4, <2>2, HoldersFinite, FS_AddElement
  <2>4. UnbornUntouched'
    BY <1>1, <1>2, <2>1 DEF LibraryInv, UnbornUntouched
  <2>5. /\ Cardinality(Holders) \in Nat /\ count \in Nat /\ surplus \in Nat
        /\ count \in (Cardinality(Holders) - surplus)..Cardinality(Holders)
    BY HoldersFinite DEF LibraryInv, TypeOK, CountIsHolders
  <2>6. count + 1 \in (Cardinality(Holders) + 1 - surplus)..(Cardinality(Holders) + 1)
    BY <2>5
  <2>7. CountIsHolders'
    <3>1. /\ count' = count + 1 /\ surplus' = surplus
          /\ Cardinality(Holders') = Cardinality(Holders) + 1
      BY <1>1, <1>6, <2>3
    <3>. QED
      BY <2>5, <2>6, <3>1 DEF CountIsHolders
  <2>. QED
    BY <2>4, <2>7
<1>. QED
  BY <1>1, <1>5, <1>6

\* terminate undoes an initialisation.
LEMMA TerminateCounts ==
    ASSUME LibraryInv, NEW o \in Object, terminate(o)
    PROVE  UnbornUntouched' /\ CountIsHolders'
<1>1. /\ phase[o] = "alive" /\ phase' = phase /\ made' = made /\ enet_deinitialize(o)
      /\ terminated' = [terminated EXCEPT ![o] = @ + 1]
  BY DEF terminate
<1>2. \A p \in Object : /\ terminated[p] \in Nat
                        /\ terminated'[p] = terminated[p] + IF p = o THEN 1 ELSE 0
  BY <1>1 DEF LibraryInv, TypeOK
<1>3. Undone(o)' # 0 /\ \A p \in Object : p # o => Undone(p)' = Undone(p)
  BY <1>1, <1>2 DEF Undone
<1>4. Holders' = Holders \ {o}
  BY <1>1, <1>3 DEF Holders
<1>5. UnbornUntouched'
  BY <1>1, <1>2 DEF LibraryInv, UnbornUntouched
<1>. QED
  BY <1>1, <1>4, <1>5, UndoingCounts DEF LibraryInv

\* The destructor of a server undoes one, too.
LEMMA DestroyServerCounts ==
    ASSUME LibraryInv, NEW s \in Server, destroyServer(s)
    PROVE  UnbornUntouched' /\ CountIsHolders'
<1>1. /\ s \in Object /\ phase[s] = "alive" /\ terminated' = terminated /\ made' = made
      /\ enet_deinitialize(s) /\ phase' = [phase EXCEPT ![s] = "destroyed"]
  BY DEF destroyServer, Object
<1>2. phase'[s] = "destroyed" /\ \A p \in Object : p # s => phase'[p] = phase[p]
  BY <1>1 DEF LibraryInv, TypeOK
<1>3. Undone(s)' # 0 /\ \A p \in Object : p # s => Undone(p)' = Undone(p)
  <2>1. terminated[s] \in Nat
    BY <1>1 DEF LibraryInv, TypeOK
  <2>. QED
    BY <1>1, <1>2, <2>1 DEF Undone
<1>4. Holders' = Holders \ {s}
  BY <1>1, <1>3 DEF Holders
<1>5. UnbornUntouched'
  BY <1>1, <1>2 DEF LibraryInv, UnbornUntouched
<1>. QED
  BY <1>1, <1>4, <1>5, UndoingCounts DEF LibraryInv

\* A client keeps for ever what it has not undone.
LEMMA DestroyClientCounts ==
    ASSUME LibraryInv, NEW c \in Client, destroyClient(c)
    PROVE  UnbornUntouched' /\ CountIsHolders'
<1>1. /\ c \in Object /\ c \notin Server /\ phase[c] = "alive"
      /\ terminated' = terminated /\ made' = made /\ count' = count /\ surplus' = surplus
      /\ phase' = [phase EXCEPT ![c] = "destroyed"]
  BY ObjectAssumption DEF destroyClient, Object
<1>2. phase'[c] = "destroyed" /\ \A p \in Object : p # c => phase'[p] = phase[p]
  BY <1>1 DEF LibraryInv, TypeOK
<1>3. \A p \in Object : Undone(p)' = Undone(p)
  BY <1>1, <1>2 DEF Undone
<1>4. Holders' = Holders
  BY <1>1, <1>3 DEF Holders
<1>5. UnbornUntouched'
  BY <1>1, <1>2 DEF LibraryInv, UnbornUntouched
<1>. QED
  BY <1>1, <1>4, <1>5, NothingUndone DEF LibraryInv

\* Opening an object, and a stutter, count nothing.
LEMMA OthersCount ==
    ASSUME LibraryInv, UNCHANGED <<phase, terminated, made, count, surplus>>
    PROVE  UnbornUntouched' /\ CountIsHolders'
<1>1. \A p \in Object : Undone(p)' = Undone(p)
  BY DEF Undone
<1>2. Holders' = Holders
  BY <1>1 DEF Holders
<1>. QED
  BY <1>2, NothingUndone DEF LibraryInv, UnbornUntouched

LEMMA NextCounts ==
    ASSUME LibraryInv, [Next]_vars
    PROVE  UnbornUntouched' /\ CountIsHolders'
<1>1. ASSUME NEW o \in Object, open(o) PROVE UnbornUntouched' /\ CountIsHolders'
  BY <1>1, OthersCount DEF open
<1>2. CASE UNCHANGED vars
  BY <1>2, OthersCount DEF vars
<1>. QED
  BY <1>1, <1>2, ConstructCounts, TerminateCounts, DestroyServerCounts, DestroyClientCounts
     DEF Next

\* The invariant holds for ever.
LEMMA LibraryInvariant == Spec => []LibraryInv
<1>1. TypeOK /\ TypeOK' /\ LibraryInv /\ [Next]_vars => LibraryInv'
  BY NextCounts DEF LibraryInv
<1>. QED
  BY <1>1, InitInvariant, LibraryTypeCorrect, PTL DEF Spec
-----------------------------------------------------------------------------
\* Whichever initialisations fail, and however often objects are terminated:
\* ENet is initialised at most as often as objects hold an initialisation, and
\* each call of enet_deinitialize by an object without one costs at most one
\* other object its own.
THEOREM CountsHolders == Spec => []CountIsHolders
<1>1. LibraryInv => CountIsHolders
  BY DEF LibraryInv
<1>. QED
  BY <1>1, LibraryInvariant, PTL
=============================================================================
