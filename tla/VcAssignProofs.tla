--------------------------- MODULE VcAssignProofs ---------------------------
(***************************************************************************)
(* However many passes take how many paths out of how many channels, in    *)
(* whatever order: every path stays whole and is in exactly one place, and *)
(* only a path that is on a cycle of its channel is taken out of it.       *)
(***************************************************************************)
EXTENDS VcAssign, TLAPS

-----------------------------------------------------------------------------
(* Lists of paths, which are bags.                                         *)

(* A set as a list names each of its members once.                         *)
LEMMA ListOfSet ==
  ASSUME NEW S
  PROVE  /\ IsABag(SetToBag(S)) /\ DOMAIN SetToBag(S) = S
         /\ \A c \in S : SetToBag(S)[c] = 1
BY DEF SetToBag, IsABag

(* B with every path of S once more.                                       *)
Listed(B, S) ==
  [c \in DOMAIN B \cup S |->
     (IF c \in DOMAIN B THEN B[c] ELSE 0) + (IF c \in S THEN 1 ELSE 0)]

(* Adding a set to a list names each of its members once more.             *)
LEMMA Listing ==
  ASSUME NEW B, NEW S, IsABag(B)
  PROVE  IsABag(B (+) SetToBag(S)) /\ B (+) SetToBag(S) = Listed(B, S)
<1> DEFINE A == SetToBag(S)
           both == B (+) A
<1>1. both = [e \in DOMAIN B \cup DOMAIN A |->
                (IF e \in DOMAIN B THEN B[e] ELSE 0)
                  + (IF e \in DOMAIN A THEN A[e] ELSE 0)]
  BY DEF (+)
<1>2. IsABag(A) /\ DOMAIN A = S /\ \A c \in S : A[c] = 1
  BY ListOfSet
<1> HIDE DEF both, A
<1>3. \A c \in DOMAIN B : B[c] \in Nat /\ B[c] > 0
  BY DEF IsABag
<1>4. \A c \in DOMAIN both : both[c] \in Nat /\ both[c] > 0
  BY <1>1, <1>2, <1>3
<1>5. IsABag(both)
  BY <1>1, <1>4 DEF IsABag
<1>6. both = Listed(B, S)
  BY <1>1, <1>2 DEF Listed
<1> QED  BY <1>5, <1>6 DEF both, A

(* The empty list.                                                         *)
LEMMA EmptyList == IsABag(EmptyBag) /\ DOMAIN EmptyBag = {}
BY ListOfSet DEF EmptyBag

-----------------------------------------------------------------------------

(* All paths start on the first list.                                      *)
LEMMA InitIInv == Init => IInv
<1> SUFFICES ASSUME Init PROVE IInv
  OBVIOUS
<1>1. IsABag(waiting) /\ DOMAIN waiting = Cdg /\ \A c \in Cdg : waiting[c] = 1
  BY ListOfSet DEF Init
<1>2. TypeOK
  BY <1>1, EmptyList DEF Init, TypeOK
<1>3. Searching
  BY DEF Init, Searching
<1>4. WholePaths
  BY DEF Init, WholePaths, Carried, Range
<1>5. ASSUME NEW c \in Cdg
      PROVE  \A m \in 1..Len(vcs) + 2 : Holds(c, m) <=> m = 1
  BY <1>1 DEF Init, Holds, BagIn, BagToSet
<1>6. EachPathOnce
  <2>1. 1 \in 1..Len(vcs) + 2
    BY DEF Init
  <2> QED  BY <1>1, <1>5, <2>1 DEF Init, EachPathOnce
<1> QED  BY <1>2, <1>3, <1>4, <1>6 DEF IInv

(* The places of a path depend on the channels and the lists alone.        *)
LEMMA SamePlaces ==
  ASSUME WholePaths, EachPathOnce, pc = "build" <=> pc' = "build",
         UNCHANGED <<deps, waiting, removed, vc, vcs>>
  PROVE  WholePaths' /\ EachPathOnce'
<1>1. WholePaths'
  <2> USE DEF WholePaths
  <2>1. {vc'} \cup Range(vcs)' = {vc} \cup Range(vcs)
    BY DEF Range
  <2>2. SUFFICES ASSUME NEW c \in Cdg, NEW channel \in {vc'} \cup Range(vcs)'
                 PROVE  Carried(channel, c) \in {{}, deps'[c]}
    BY DEF Carried
  <2> QED  BY <2>1
<1>2. \A c, m : Holds(c, m)' <=> Holds(c, m)
  BY ZenonT(30) DEF Holds, Carried, BagIn, BagToSet
<1> HIDE DEF Holds
<1>3. EachPathOnce'
  BY <1>2 DEF EachPathOnce, BagIn, BagToSet
<1> QED  BY <1>1, <1>3

(* The search moves no path.                                               *)
LEMMA SearchIInv ==
  ASSUME IInv, StartPass \/ Pop \/ EndPass \/ \E a \in Arc : Start(a)
  PROVE  IInv'
<1>1. CASE StartPass
  BY <1>1, SamePlaces DEF IInv, StartPass, TypeOK, Searching
<1>2. CASE Pop
  <2>1. stack' \in Seq(Seq(Arc)) /\ \A n \in DOMAIN stack' : stack'[n] # <<>>
    BY <1>2, SMTT(30) DEF Pop, Front, IInv, TypeOK, Searching
  <2>2. Last(stack) \in Seq(Arc) /\ Last(stack) # <<>>
    BY <1>2 DEF Pop, Last, IInv, TypeOK, Searching
  <2>3. Last(Last(stack)) \in Arc
    BY <2>2 DEF Last
  <2> QED  BY <1>2, <2>1, <2>2, <2>3, SamePlaces
           DEF IInv, Pop, Visit, Successors, TypeOK, Searching
<1>3. CASE EndPass
  BY <1>3, SamePlaces DEF IInv, EndPass, TypeOK, Searching
<1>4. ASSUME NEW a \in Arc, Start(a) PROVE IInv'
  <2>1. Last(<<a>>) = a /\ <<a>> \in Seq(Arc) /\ <<a>> # <<>>
    BY DEF Last
  <2> QED  BY <1>4, <2>1, SamePlaces
           DEF IInv, Start, Visit, Successors, TypeOK, Searching
<1> QED  BY <1>1, <1>2, <1>3, <1>4

(* A new channel carries the paths of the list, all of each.               *)
LEMMA BuildIInv == ASSUME IInv, Build PROVE IInv'
<1>1. \A c \in Cdg : deps[c] \subseteq Arc \X Arc
  BY CdgAssumption DEF IInv, TypeOK
<1>2. ASSUME NEW c \in Cdg
      PROVE  Carried(vc', c) = IF BagIn(c, waiting) THEN deps[c] ELSE {}
  BY <1>1, <1>2 DEF Build, Carried
<1>3. TypeOK'
  BY EmptyList DEF IInv, TypeOK, Build, dfs
<1>4. Searching'
  BY DEF IInv, Searching, Build, dfs
<1>5. WholePaths'
  <2>1. Range(vcs)' = Range(vcs) /\ deps' = deps
    BY DEF Build, Range
  <2>2. ASSUME NEW c \in Cdg, NEW channel \in {vc'} \cup Range(vcs)
        PROVE  Carried(channel, c) \in {{}, deps[c]}
    BY <1>2, <2>2 DEF IInv, WholePaths
  <2>3. SUFFICES ASSUME NEW c \in Cdg, NEW channel \in {vc'} \cup Range(vcs)'
                 PROVE  Carried(channel, c) \in {{}, deps'[c]}
    BY DEF WholePaths, Carried
  <2> QED  BY <2>1, <2>2
<1>6. EachPathOnce'
  <2>1. ASSUME NEW c \in Cdg, deps[c] # {}, NEW m \in 1..Len(vcs) + 2
        PROVE  Holds(c, m)' <=> Holds(c, m)
    <3>1. vcs' = vcs /\ pc = "build" /\ pc' = "check" /\ ~BagIn(c, removed')
      BY EmptyList DEF Build, BagIn, BagToSet
    <3>2. vcs \in Seq(SUBSET (Arc \X Arc \X Cdg))
      BY DEF IInv, TypeOK
    <3>3. Carried(vc', c) # {} <=> BagIn(c, waiting)
      BY <1>2, <2>1
    <3>4. Holds(c, m)' <=> \/ m \in DOMAIN vcs /\ Carried(vcs[m], c) # {}
                           \/ m = Len(vcs) + 1 /\ Carried(vc', c) # {}
      BY <3>1 DEF Holds, Carried
    <3> QED  BY <3>1, <3>3, <3>4 DEF Holds
  <2> QED  BY <2>1, EmptyList DEF IInv, EachPathOnce, Build, BagIn, BagToSet
<1> QED  BY <1>3, <1>4, <1>5, <1>6 DEF IInv

(* A finished channel keeps its number, and so does the next list.         *)
LEMMA FinishIInv == ASSUME IInv, Finish PROVE IInv'
<1>1. /\ vcs \in Seq(SUBSET (Arc \X Arc \X Cdg))
      /\ vc \in SUBSET (Arc \X Arc \X Cdg)
      /\ vcs' = Append(vcs, vc) /\ vc' = vc
      /\ pc = "check" /\ pc' = "build"
      /\ waiting' = removed /\ deps' = deps
  BY DEF IInv, TypeOK, Finish
<1>2. /\ Len(vcs') = Len(vcs) + 1 /\ vcs'[Len(vcs) + 1] = vc
      /\ \A m \in 1..Len(vcs) : vcs'[m] = vcs[m]
      /\ DOMAIN vcs = 1..Len(vcs) /\ DOMAIN vcs' = 1..Len(vcs) + 1
      /\ Len(vcs) \in Nat
  BY <1>1
<1>3. TypeOK'
  BY <1>1 DEF IInv, TypeOK, Finish, dfs
<1>4. Searching'
  BY DEF IInv, Searching, Finish, dfs
<1>5. WholePaths'
  <2>1. Range(vcs') \subseteq {vc} \cup Range(vcs)
    BY <1>2 DEF Range
  <2> SUFFICES ASSUME NEW c \in Cdg, NEW channel \in {vc} \cup Range(vcs)
               PROVE  Carried(channel, c) \in {{}, deps[c]}
    BY <1>1, <2>1 DEF WholePaths, Carried, Range
  <2> QED  BY DEF IInv, WholePaths
<1>6. EachPathOnce'
  <2>1. ASSUME NEW c \in Cdg, NEW m \in 1..Len(vcs) + 3
        PROVE  Holds(c, m)' <=> m # Len(vcs) + 3 /\ Holds(c, m)
    <3>1. Holds(c, m)' <=> \/ m \in 1..Len(vcs) + 1 /\ Carried(vcs'[m], c) # {}
                           \/ m = Len(vcs) + 2 /\ BagIn(c, removed)
      BY <1>1, <1>2, SMTT(30) DEF Holds, Carried, BagIn, BagToSet
    <3>2. Holds(c, m) <=> \/ m \in 1..Len(vcs) /\ Carried(vcs[m], c) # {}
                          \/ m = Len(vcs) + 1 /\ Carried(vc, c) # {}
                          \/ m = Len(vcs) + 2 /\ BagIn(c, removed)
      BY <1>1, <1>2 DEF Holds
    <3> QED  BY <1>2, <3>1, <3>2
  <2> HIDE DEF Holds
  <2>2. ASSUME NEW c \in Cdg, deps[c] # {}
        PROVE  \E n \in 1..Len(vcs) + 3 :
                 \A m \in 1..Len(vcs) + 3 : Holds(c, m)' <=> m = n
    <3>1. PICK n \in 1..Len(vcs) + 2 :
            \A m \in 1..Len(vcs) + 2 : Holds(c, m) <=> m = n
      BY <2>2 DEF IInv, EachPathOnce
    <3>2. n \in 1..Len(vcs) + 3 /\ n # Len(vcs) + 3
      BY <1>2
    <3>3. ASSUME NEW m \in 1..Len(vcs) + 3 PROVE Holds(c, m)' <=> m = n
      <4>1. m # Len(vcs) + 3 => m \in 1..Len(vcs) + 2
        BY <1>2
      <4> QED  BY <2>1, <3>1, <3>2, <4>1
    <3> QED  BY <3>2, <3>3
  <2>3. 1..Len(vcs') + 2 = 1..Len(vcs) + 3
    BY <1>2
  <2>4. \A c \in Cdg : deps[c] # {} /\ BagIn(c, removed) => removed[c] = 1
    BY <1>1 DEF IInv, EachPathOnce
  <2> QED  BY <1>1, <2>2, <2>3, <2>4 DEF EachPathOnce, BagIn, BagToSet
<1> QED  BY <1>3, <1>4, <1>5, <1>6 DEF IInv

(* The paths of an edge of the channel go over to the next list.           *)
LEMMA BreakCycleKeepsPaths ==
  ASSUME IInv, pc = "dfs", UNCHANGED <<deps, waiting, vcs, pc>>,
         NEW iw, BreakCycle(iw)
  PROVE  /\ WholePaths' /\ EachPathOnce'
         /\ IsABag(removed') /\ DOMAIN removed' \subseteq Cdg /\ vc' \subseteq vc
<1>1. PICK paths \in Weakest(iw) :
        /\ vc' = {e \in vc : e[3] \notin paths}
        /\ removed' = removed (+) SetToBag(paths)
  BY DEF BreakCycle
<1>2. PICK a, b : paths = Inducing(a, b)
  BY DEF Weakest
<1>3. /\ vc \subseteq Arc \X Arc \X Cdg
      /\ vcs \in Seq(SUBSET (Arc \X Arc \X Cdg))
      /\ IsABag(removed) /\ DOMAIN removed \subseteq Cdg
  BY DEF IInv, TypeOK
<1>4. paths \subseteq Cdg /\ \A c \in paths : Carried(vc, c) # {}
  <2>1. ASSUME NEW c \in paths PROVE <<a, b>> \in Carried(vc, c)
    BY <1>2, <1>3, <2>1 DEF Inducing, Carried
  <2> QED  BY <1>2, <2>1 DEF Inducing
<1>5. ASSUME NEW c \in Cdg
      PROVE  Carried(vc', c) = IF c \in paths THEN {} ELSE Carried(vc, c)
  BY <1>1 DEF Carried
<1>6. /\ IsABag(removed')
      /\ DOMAIN removed' = DOMAIN removed \cup paths
      /\ \A c \in paths : c \notin DOMAIN removed => removed'[c] = 1
      /\ \A c \in DOMAIN removed : c \notin paths => removed'[c] = removed[c]
  <2>1. IsABag(removed') /\ removed' = Listed(removed, paths)
    BY <1>1, <1>3, Listing
  <2>2. \A c \in DOMAIN removed : removed[c] \in Nat
    BY <1>3 DEF IsABag
  <2> QED  BY <2>1, <2>2 DEF Listed
<1>7. WholePaths'
  <2>1. Range(vcs)' = Range(vcs) /\ deps' = deps
    BY DEF Range
  <2>2. ASSUME NEW c \in Cdg, NEW channel \in {vc'} \cup Range(vcs)
        PROVE  Carried(channel, c) \in {{}, deps[c]}
    BY <1>5, <2>2 DEF IInv, WholePaths
  <2>3. SUFFICES ASSUME NEW c \in Cdg, NEW channel \in {vc'} \cup Range(vcs)'
                 PROVE  Carried(channel, c) \in {{}, deps'[c]}
    BY DEF WholePaths, Carried
  <2> QED  BY <2>1, <2>2
<1>8. Len(vcs) \in Nat /\ DOMAIN vcs = 1..Len(vcs)
  BY <1>3
<1>9. ASSUME NEW c \in Cdg, NEW m \in 1..Len(vcs) + 2
      PROVE  /\ Holds(c, m) <=> \/ m \in 1..Len(vcs) /\ Carried(vcs[m], c) # {}
                                \/ m = Len(vcs) + 1 /\ Carried(vc, c) # {}
                                \/ m = Len(vcs) + 2 /\ c \in DOMAIN removed
             /\ Holds(c, m)' <=> \/ m \in 1..Len(vcs) /\ Carried(vcs[m], c) # {}
                                 \/ m = Len(vcs) + 1 /\ Carried(vc', c) # {}
                                 \/ m = Len(vcs) + 2 /\ c \in DOMAIN removed'
  BY <1>8 DEF Holds, Carried, BagIn, BagToSet
<1> HIDE DEF Holds
<1>10. ASSUME NEW c \in paths, deps[c] # {}
       PROVE  /\ \E n \in 1..Len(vcs) + 2 :
                   \A m \in 1..Len(vcs) + 2 : Holds(c, m)' <=> m = n
              /\ removed'[c] = 1
  <2>1. PICK n \in 1..Len(vcs) + 2 :
          \A m \in 1..Len(vcs) + 2 : Holds(c, m) <=> m = n
    BY <1>4, <1>10 DEF IInv, EachPathOnce
  <2>2. c \in Cdg /\ Len(vcs) + 1 \in 1..Len(vcs) + 2 /\ Len(vcs) + 2 \in 1..Len(vcs) + 2
    BY <1>4, <1>8
  <2>3. Holds(c, Len(vcs) + 1)
    BY <1>4, <1>9, <2>2
  <2>4. n = Len(vcs) + 1
    BY <2>1, <2>2, <2>3
  <2>5. c \notin DOMAIN removed
    BY <1>8, <1>9, <2>1, <2>2, <2>4
  <2>6. ASSUME NEW m \in 1..Len(vcs) + 2 PROVE Holds(c, m)' <=> m = Len(vcs) + 2
    <3>1. m \in 1..Len(vcs) => Carried(vcs[m], c) = {}
      <4> SUFFICES ASSUME m \in 1..Len(vcs) PROVE Carried(vcs[m], c) = {}
        OBVIOUS
      <4>1. m # n
        BY <1>8, <2>4
      <4>2. ~Holds(c, m)
        BY <2>1, <4>1, Zenon
      <4>3. Carried(vcs[m], c) # {} => Holds(c, m)
        BY <1>9, <2>2
      <4> QED BY <4>2, <4>3
    <3>2. Carried(vc', c) = {} /\ c \in DOMAIN removed'
      BY <1>5, <1>6, <2>2
    <3> QED  BY <1>8, <1>9, <2>2, <3>1, <3>2
  <2> QED  BY <1>6, <2>2, <2>5, <2>6
<1>11. ASSUME NEW c \in Cdg, c \notin paths, NEW m \in 1..Len(vcs) + 2
       PROVE  Holds(c, m)' <=> Holds(c, m)
  BY <1>5, <1>6, <1>9, <1>11
<1>12. EachPathOnce'
  <2>1. ASSUME NEW c \in Cdg, deps[c] # {}
        PROVE  /\ \E n \in 1..Len(vcs) + 2 :
                    \A m \in 1..Len(vcs) + 2 : Holds(c, m)' <=> m = n
               /\ c \in DOMAIN removed' => removed'[c] = 1
    <3>1. CASE c \in paths
      BY <1>10, <2>1, <3>1
    <3>2. CASE c \notin paths
      BY <1>6, <1>11, <2>1, <3>2 DEF IInv, EachPathOnce, BagIn, BagToSet
    <3> QED  BY <3>1, <3>2
  <2> QED  BY <2>1 DEF EachPathOnce, BagIn, BagToSet
<1> QED  BY <1>1, <1>3, <1>4, <1>6, <1>7, <1>12

(* A successor closes a cycle, which is broken, or goes on the stack.      *)
LEMMA ExamineIInv == ASSUME IInv, NEW a \in Arc, Examine(a) PROVE IInv'
<1>1. WholePaths' /\ EachPathOnce' /\ IsABag(removed') /\ DOMAIN removed' \subseteq Cdg
        /\ vc' \subseteq vc
  <2>1. CASE a \in Range(path)
    BY <2>1, BreakCycleKeepsPaths DEF Examine
  <2>2. CASE a \notin Range(path)
    <3>1. UNCHANGED <<deps, waiting, removed, vc, vcs, pc>>
      BY <2>2 DEF Examine
    <3> QED  BY <3>1, SamePlaces DEF IInv, TypeOK
  <2> QED  BY <2>1, <2>2
<1>2. Append(path, a) \in Seq(Arc) /\ Append(path, a) # <<>>
  <2>1. path \in Seq(Arc)
    BY DEF IInv, TypeOK
  <2>2. Append(path, a) \in Seq(Arc) /\ Len(Append(path, a)) = Len(path) + 1
    BY <2>1
  <2>3. Len(path) \in Nat /\ Len(<<>>) = 0
    BY <2>1
  <2> HIDE DEF TypeOK
  <2> QED  BY <2>2, <2>3
<1>3. stack' \in Seq(Seq(Arc)) /\ \A n \in DOMAIN stack' : stack'[n] # <<>>
  BY <1>2 DEF Examine, IInv, TypeOK, Searching
<1> QED  BY <1>1, <1>3 DEF IInv, TypeOK, Searching, Examine

(* IInv is inductive.                                                      *)
LEMMA NextIInv == IInv /\ [Next]_vars => IInv'
<1> SUFFICES ASSUME IInv, [Next]_vars PROVE IInv'
  OBVIOUS
<1>1. CASE Build
  BY <1>1, BuildIInv
<1>2. CASE Finish
  BY <1>2, FinishIInv
<1>3. CASE StartPass \/ Pop \/ EndPass \/ \E a \in Arc : Start(a)
  BY <1>3, SearchIInv
<1>4. ASSUME NEW a \in Arc, Examine(a) PROVE IInv'
  BY <1>4, ExamineIInv
<1>5. CASE UNCHANGED vars
  BY <1>5, SamePlaces DEF vars, dfs, IInv, TypeOK, Searching
<1> QED  BY <1>1, <1>2, <1>3, <1>4, <1>5 DEF Next

-----------------------------------------------------------------------------

(* assign_vcs keeps its bookkeeping, for any number of paths and arcs: the *)
(* inductive invariant the two properties below are read off.              *)
THEOREM AssignInvariant == Spec => []IInv
<1> QED  BY InitIInv, NextIInv, PTL DEF Spec

(* No channel carries part of a path: build_cdg_vc and break_cycle_cdg_vc  *)
(* put in and take out whole CDGs.                                         *)
THEOREM PathsStayWhole == Spec => []WholePaths
<1>1. IInv => WholePaths
  BY DEF IInv
<1> QED  BY <1>1, AssignInvariant, PTL

(* Every path that has dependencies is on one channel, or listed once for  *)
(* one: what break_cycle_cdg_vc takes out is what the next channel gets.   *)
THEOREM PathsKeptOnce == Spec => []EachPathOnce
<1>1. IInv => EachPathOnce
  BY DEF IInv
<1> QED  BY <1>1, AssignInvariant, PTL

-----------------------------------------------------------------------------
(* Only paths on a cycle move to another channel.                          *)

(* Well-founded relations of the library.                                  *)
Order == INSTANCE WellFoundedInduction

(* The order of the numbers as a relation is well-founded.                 *)
LEMMA NatLess == Order!IsWellFoundedOn({p \in Nat \X Nat : p[1] < p[2]}, Nat)
BY Order!NatLessThanWellFounded DEF Order!OpToRel

(* A set of numbers that is not empty has a least member.                  *)
LEMMA Least ==
  ASSUME NEW T, T \subseteq Nat, T # {}
  PROVE  \E n \in T : \A m \in T : n <= m
<1> DEFINE R == {p \in Nat \X Nat : p[1] < p[2]}
<1>1. Order!IsWellFoundedOn(R, Nat)
  BY NatLess
<1>2. PICK n \in T : \A m \in T : ~(<<m, n>> \in R)
  <2> HIDE DEF R
  <2> QED  BY <1>1, Order!WFMin
<1>3. ASSUME NEW m \in T PROVE n <= m
  <2>1. m \in Nat /\ n \in Nat /\ ~(<<m, n>> \in R)
    BY <1>2
  <2> QED  BY <2>1
<1> QED  BY <1>3

(* Who follows the dependencies of the channel from some arc of a path     *)
(* comes to every later arc of it.                                         *)
LEMMA LaterArcs ==
  ASSUME NEW p \in Seq(Arc), Along(p),
         NEW S, \A d \in Built : d[1] \in S => d[2] \in S,
         NEW i \in 1..Len(p), p[i] \in S
  PROVE  \A j \in i..Len(p) : p[j] \in S
<1> DEFINE T == {j \in i..Len(p) : p[j] \notin S}
<1> SUFFICES ASSUME T # {} PROVE FALSE
  OBVIOUS
<1>1. T \subseteq Nat
  OBVIOUS
<1>2. PICK n \in T : \A m \in T : n <= m
  <2> HIDE DEF T
  <2> QED  BY <1>1, Least
<1>3. n # i /\ n - 1 \in i..Len(p) /\ n - 1 \in 1..Len(p) - 1 /\ (n - 1) + 1 = n
  OBVIOUS
<1>4. p[n - 1] \in S
  BY <1>2, <1>3
<1>5. <<p[n - 1], p[n]>> \in Built
  BY <1>3 DEF Along
<1> QED  BY <1>4, <1>5

(* The edges of a cycle that the search closes are on a cycle of the       *)
(* channel as it was built.                                                *)
LEMMA CycleCloses ==
  ASSUME path \in Seq(Arc), path # <<>>, Along(path),
         NEW iw, iw \in Range(path), <<Last(path), iw>> \in Built,
         NEW e \in CycleEdges(iw)
  PROVE  OnCycle(e, Built)
<1> SUFFICES ASSUME NEW S, e[2] \in S, \A d \in Built : d[1] \in S => d[2] \in S
             PROVE  e[1] \in S
  BY DEF OnCycle
<1>1. Len(path) \in Nat /\ Len(path) \in 1..Len(path) /\ Last(path) = path[Len(path)]
  BY DEF Last
<1>2. Last(path) \in S => iw \in S
  <2>1. <<Last(path), iw>>[1] = Last(path) /\ <<Last(path), iw>>[2] = iw
    OBVIOUS
  <2> QED  BY <2>1
<1>3. \A i \in 1..Len(path) : path[i] \in S => \A j \in i..Len(path) : path[j] \in S
  BY LaterArcs
<1>4. CASE e = <<Last(path), iw>>
  <2>1. iw \in S /\ e[1] = Last(path)
    BY <1>4
  <2>2. PICK k \in 1..Len(path) : path[k] = iw
    BY DEF Range
  <2> QED  BY <1>1, <1>3, <2>1, <2>2
<1>5. ASSUME NEW i \in 1..Len(path) - 1, NEW k \in 1..i, path[k] = iw,
             e = <<path[i], path[i + 1]>>
      PROVE  e[1] \in S
  <2>1. i + 1 \in 1..Len(path) /\ k \in 1..Len(path) /\ i \in k..Len(path)
    BY <1>1
  <2>2. path[i + 1] \in S /\ e[1] = path[i]
    BY <1>5
  <2>3. Last(path) \in S
    BY <1>1, <1>3, <2>1, <2>2
  <2> QED  BY <1>2, <1>3, <1>5, <2>1, <2>2, <2>3
<1> QED  BY <1>4, <1>5 DEF CycleEdges

(* Nothing is searched and nothing taken out when a channel begins.        *)
LEMMA BuildCycleInv == ASSUME CycleInv, Build PROVE SearchAlong' /\ OnlyCyclesCost'
<1>1. removed' = EmptyBag /\ DOMAIN removed' = {}
  BY EmptyList DEF Build
<1>2. OnlyCyclesCost'
  BY <1>1 DEF OnlyCyclesCost
<1>3. /\ stack' = <<>> /\ path' = <<>> /\ todo' = {} /\ pc' = "check"
      /\ waiting' = waiting /\ deps' = deps
  BY DEF Build, CycleInv, SearchAlong, dfs
<1>4. \A e \in vc' : e[3] \in DOMAIN waiting /\ <<e[1], e[2]>> \in deps[e[3]]
  BY DEF Build, BagIn, BagToSet
<1> QED  BY <1>2, <1>3, <1>4 DEF SearchAlong, Along

(* The search goes along dependencies of the channel.                      *)
LEMMA SearchCycleInv ==
  ASSUME CycleInv, StartPass \/ Pop \/ EndPass \/ \E a \in Arc : Start(a)
  PROVE  SearchAlong' /\ OnlyCyclesCost'
<1>1. /\ UNCHANGED <<deps, waiting, removed, vc, vcs>>
      /\ pc # "build" /\ pc' # "build" /\ Built' = Built
  BY DEF StartPass, Pop, EndPass, Start, Built
<1>2. OnlyCyclesCost'
  BY <1>1 DEF CycleInv, OnlyCyclesCost, OnCycle
<1>3. \A e \in vc' : e[3] \in DOMAIN waiting' /\ <<e[1], e[2]>> \in deps'[e[3]]
  BY <1>1 DEF CycleInv, SearchAlong
<1>4. ASSUME NEW a, NEW b \in Successors(a) PROVE <<a, b>> \in Built
  <2>1. PICK c \in Cdg : <<a, b, c>> \in vc
    BY <1>4 DEF Successors, Inducing
  <2>2. c \in DOMAIN waiting /\ <<a, b>> \in deps[c]
    BY <1>1, <2>1 DEF CycleInv, SearchAlong
  <2> QED  BY <2>2 DEF Built
<1>5. stack \in Seq(Seq(Arc)) /\ path \in Seq(Arc)
  BY DEF CycleInv, IInv, TypeOK
<1>6. Along(path) /\ \A n \in DOMAIN stack : Along(stack[n])
  BY <1>1 DEF CycleInv, SearchAlong
<1>7. CASE StartPass
  BY <1>1, <1>2, <1>3, <1>6, <1>7 DEF StartPass, CycleInv, SearchAlong, Along
<1>8. CASE EndPass
  BY <1>1, <1>2, <1>3, <1>8 DEF EndPass, SearchAlong, Along
<1>9. CASE Pop
  <2>1. /\ stack' \in Seq(Seq(Arc)) /\ DOMAIN stack' \subseteq DOMAIN stack
        /\ \A n \in DOMAIN stack' : stack'[n] = stack[n]
        /\ Last(stack) = stack[Len(stack)] /\ Len(stack) \in DOMAIN stack
    BY <1>5, <1>9, SMTT(30) DEF Pop, Front, Last
  <2>2. Along(Last(stack)) /\ \A n \in DOMAIN stack' : Along(stack'[n])
    BY <1>6, <2>1
  <2>3. \/ path' = path /\ todo' = todo
        \/ path' = Last(stack) /\ todo' = Successors(Last(Last(stack)))
    BY <1>9 DEF Pop, Visit
  <2>4. Along(path') /\ \A b \in todo' : <<Last(path'), b>> \in Built
    BY <1>4, <1>6, <1>9, <2>2, <2>3 DEF Pop
  <2>5. pc' = "dfs"
    BY <1>9 DEF Pop
  <2> QED  BY <1>1, <1>2, <1>3, <2>2, <2>4, <2>5 DEF SearchAlong, Along
<1>10. ASSUME NEW a \in Arc, Start(a) PROVE SearchAlong' /\ OnlyCyclesCost'
  <2>1. /\ path' = <<a>> /\ Last(<<a>>) = a /\ Len(<<a>>) = 1
        /\ todo' = Successors(a) /\ stack' = stack /\ pc' = "dfs"
    BY <1>10 DEF Start, Visit, Last
  <2>2. Along(path')
    BY <2>1 DEF Along
  <2> QED  BY <1>1, <1>2, <1>3, <1>4, <1>6, <2>1, <2>2 DEF SearchAlong, Along
<1> QED  BY <1>7, <1>8, <1>9, <1>10

(* What leaves the channel is on the cycle that was found.                 *)
LEMMA ExamineCycleInv ==
  ASSUME CycleInv, NEW a \in Arc, Examine(a)
  PROVE  SearchAlong' /\ OnlyCyclesCost'
<1>1. /\ UNCHANGED <<deps, waiting, vcs, pc, visited, path>>
      /\ pc = "dfs" /\ a \in todo /\ todo' \subseteq todo /\ Built' = Built
      /\ stack' = stack \/ stack' = Append(stack, Append(path, a))
  BY DEF Examine, Built
<1>2. /\ path \in Seq(Arc) /\ path # <<>> /\ stack \in Seq(Seq(Arc))
      /\ IsABag(removed) /\ vc \subseteq Arc \X Arc \X Cdg
  BY <1>1 DEF CycleInv, IInv, TypeOK, Searching
<1>3. /\ Along(path) /\ \A n \in DOMAIN stack : Along(stack[n])
      /\ \A b \in todo : <<Last(path), b>> \in Built
      /\ \A e \in vc : e[3] \in DOMAIN waiting /\ <<e[1], e[2]>> \in deps[e[3]]
  BY <1>1 DEF CycleInv, SearchAlong
<1>4. Along(Append(path, a))
  <2> SUFFICES ASSUME NEW i \in 1..Len(Append(path, a)) - 1
               PROVE  <<Append(path, a)[i], Append(path, a)[i + 1]>> \in Built
    BY DEF Along
  <2>1. Len(path) \in Nat /\ Len(Append(path, a)) = Len(path) + 1
    BY <1>2
  <2>2. CASE i = Len(path)
    BY <1>1, <1>2, <1>3, <2>1, <2>2 DEF Last
  <2>3. CASE i # Len(path)
    <3>1. i \in 1..Len(path) - 1
      BY <2>1, <2>3
    <3>2. Append(path, a)[i] = path[i] /\ Append(path, a)[i + 1] = path[i + 1]
      BY <1>2, <2>1, <3>1
    <3> QED  BY <1>3, <3>1, <3>2 DEF Along
  <2> QED  BY <2>2, <2>3
<1>5. \A n \in DOMAIN stack' : Along(stack'[n])
  <2>1. CASE stack' = stack
    BY <1>3, <2>1
  <2>2. CASE stack' = Append(stack, Append(path, a))
    <3>1. Append(path, a) \in Seq(Arc)
      BY <1>2
    <3> SUFFICES ASSUME NEW n \in DOMAIN stack' PROVE Along(stack'[n])
      OBVIOUS
    <3>2. \/ n \in DOMAIN stack /\ stack'[n] = stack[n]
          \/ stack'[n] = Append(path, a)
      BY <1>2, <2>2, <3>1
    <3> QED  BY <1>3, <1>4, <3>2
  <2> QED  BY <1>1, <2>1, <2>2
<1>6. vc' \subseteq vc /\ \A c \in DOMAIN removed' \ DOMAIN removed :
                           \E e \in deps[c] : OnCycle(e, Built)
  <2>1. CASE a \notin Range(path)
    BY <2>1 DEF Examine
  <2>2. CASE a \in Range(path)
    <3>1. PICK paths \in Weakest(a) :
            /\ vc' = {e \in vc : e[3] \notin paths}
            /\ removed' = removed (+) SetToBag(paths)
      BY <2>2 DEF Examine, BreakCycle
    <3>2. PICK e \in CycleEdges(a) : paths = Inducing(e[1], e[2])
      BY <3>1 DEF Weakest
    <3>3. OnCycle(e, Built)
      BY <1>1, <1>2, <1>3, <2>2, CycleCloses
    <3>4. DOMAIN removed' = DOMAIN removed \cup paths
      <4>1. removed' = Listed(removed, paths)
        BY <1>2, <3>1, Listing
      <4> QED  BY <4>1 DEF Listed
    <3>5. e = <<e[1], e[2]>>
      BY DEF CycleEdges
    <3>6. \A c \in paths : e \in deps[c]
      BY <1>3, <3>2, <3>5 DEF Inducing
    <3> QED  BY <3>1, <3>3, <3>4, <3>6
  <2> QED  BY <2>1, <2>2
<1>7. OnlyCyclesCost'
  <2>1. \A c \in DOMAIN removed : \E e \in deps[c] : OnCycle(e, Built)
    BY <1>1 DEF CycleInv, OnlyCyclesCost, Built
  <2>2. \A c \in DOMAIN removed' : \E e \in deps[c] : OnCycle(e, Built)
    BY <1>6, <2>1
  <2> QED  BY <1>1, <2>2 DEF OnlyCyclesCost, Built, OnCycle
<1> QED  BY <1>1, <1>3, <1>5, <1>6, <1>7 DEF SearchAlong, Along

(* CycleInv is inductive.                                                  *)
LEMMA NextCycleInv == CycleInv /\ [Next]_vars => CycleInv'
<1> SUFFICES ASSUME CycleInv, [Next]_vars PROVE SearchAlong' /\ OnlyCyclesCost'
  BY NextIInv DEF CycleInv
<1>1. CASE Build
  BY <1>1, BuildCycleInv
<1>2. CASE Finish
  BY <1>2 DEF Finish, CycleInv, SearchAlong, OnlyCyclesCost, dfs
<1>3. CASE StartPass \/ Pop \/ EndPass \/ \E a \in Arc : Start(a)
  BY <1>3, SearchCycleInv
<1>4. ASSUME NEW a \in Arc, Examine(a) PROVE SearchAlong' /\ OnlyCyclesCost'
  BY <1>4, ExamineCycleInv
<1>5. CASE UNCHANGED vars
  <2>1. UNCHANGED <<deps, waiting, removed, vc, pc, stack, path, todo>> /\ Built' = Built
    BY <1>5 DEF vars, dfs, Built
  <2>2. SearchAlong'
    BY <2>1 DEF CycleInv, SearchAlong, Along
  <2>3. OnlyCyclesCost'
    BY <2>1 DEF CycleInv, OnlyCyclesCost, OnCycle
  <2> QED  BY <2>2, <2>3
<1> QED  BY <1>1, <1>2, <1>3, <1>4, <1>5 DEF Next

(* remove_cycles_cdg_vc takes a path out of a channel only if one of its   *)
(* dependencies is on a cycle of the channel, whatever was removed while   *)
(* the search went on with what it had read before.                        *)
THEOREM OnlyPathsOnCyclesMove == Spec => []OnlyCyclesCost
<1>1. Init => CycleInv
  BY InitIInv, EmptyList DEF Init, CycleInv, SearchAlong, OnlyCyclesCost
<1>2. CycleInv => OnlyCyclesCost
  BY DEF CycleInv
<1> QED  BY <1>1, <1>2, NextCycleInv, PTL DEF Spec
=============================================================================
