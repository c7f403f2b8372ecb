------------------------ MODULE NoOLMControllerProofs ------------------------
(***************************************************************************)
(* Theorems about NoOLMController, for any general CRs and clones, any     *)
(* sizes and replica counts and any bounds.                                *)
(***************************************************************************)
EXTENDS NoOLMController, FiniteSetTheorems, WellFoundedInduction, TLAPS

-----------------------------------------------------------------------------
(***************************************************************************)
(* The largest of a finite set                                             *)
(***************************************************************************)

\* Has a largest element.
HasMax(S) == \E x \in S : \A y \in S : x >= y

\* Every finite, non-empty set of naturals has a largest element: a smallest set
\* without one would, less any of its elements, still be without one.
LEMMA FiniteMax ==
    ASSUME NEW S, S \subseteq Nat, S # {}, IsFiniteSet(S)
    PROVE  Max(S) \in S /\ \A y \in S : Max(S) >= y
<1>. DEFINE Bad == {n \in Nat : \E T \in SUBSET Nat :
                       T # {} /\ IsFiniteSet(T) /\ Cardinality(T) = n /\ ~HasMax(T)}
<1>1. Bad = {}
  <2>. SUFFICES ASSUME Bad # {} PROVE FALSE
    OBVIOUS
  <2>1. PICK n \in Bad : \A m \in Bad : ~(<<m, n>> \in OpToRel(<, Nat))
    <3>1. Bad \subseteq Nat
      OBVIOUS
    <3>. HIDE DEF Bad
    <3>. QED  BY <3>1, NatLessThanWellFounded, WFMin
  <2>2. PICK T \in SUBSET Nat : T # {} /\ IsFiniteSet(T) /\ Cardinality(T) = n /\ ~HasMax(T)
    OBVIOUS
  <2>3. PICK x \in T : TRUE
    BY <2>2
  <2>. DEFINE U == T \ {x}
  <2>4. IsFiniteSet(U) /\ Cardinality(U) = n - 1
    BY <2>2, <2>3, FS_RemoveElement
  <2>5. U # {}
    <3>1. ASSUME U = {} PROVE HasMax(T)
      <4>1. T = {x}
        BY <3>1, <2>3
      <4>. QED  BY <4>1, <2>3 DEF HasMax
    <3>. QED  BY <3>1, <2>2
  <2>6. n - 1 \notin Bad
    <3>1. ASSUME n - 1 \in Bad PROVE FALSE
      <4>1. n \in Nat /\ n - 1 \in Nat
        BY <3>1
      <4>2. <<n - 1, n>> \in OpToRel(<, Nat)
        BY <4>1 DEF OpToRel
      <4>. QED  BY <2>1, <3>1, <4>2
    <3>. QED  BY <3>1
  <2>7. n - 1 \in Nat
    <3>. HIDE DEF U
    <3>. QED  BY <2>4, FS_CardinalityType
  <2>8. U \in SUBSET Nat
    BY <2>2
  <2>9. HasMax(U)
    <3>. HIDE DEF U
    <3>. QED  BY <2>4, <2>5, <2>6, <2>7, <2>8
  <2>10. PICK m \in U : \A y \in U : m >= y
    BY <2>9 DEF HasMax
  <2>11. x \in Nat /\ m \in Nat /\ m \in T
    BY <2>2, <2>3, <2>10
  <2>12. \A y \in T : y = x \/ m >= y
    BY <2>10
  <2>13. HasMax(T)
    <3>1. CASE m >= x
      BY <3>1, <2>11, <2>12 DEF HasMax
    <3>2. CASE x >= m
      <4>1. \A y \in T : x >= y
        BY <3>2, <2>2, <2>11, <2>12
      <4>. QED  BY <4>1, <2>3 DEF HasMax
    <3>. QED  BY <3>1, <3>2, <2>11
  <2>. QED  BY <2>2, <2>13
<1>2. HasMax(S)
  <2>1. Cardinality(S) \in Nat /\ S \in SUBSET Nat
    BY FS_CardinalityType
  <2>. QED  BY <1>1, <2>1
<1>. QED  BY <1>2 DEF HasMax, Max

\* The replica counts there are.
Counts == Sizes \cup OwnCounts

LEMMA CountsFinite == Counts \subseteq Nat \ {0} /\ IsFiniteSet(Counts)
<1>1. IsFiniteSet(Sizes) /\ Sizes \subseteq Nat \ {0}
  <2>1. MaxSize \in Nat /\ 1 \in Nat
    BY CountsAssumption
  <2>2. IsFiniteSet(1 .. MaxSize)
    BY <2>1, FS_Interval
  <2>. QED  BY <2>1, <2>2 DEF Sizes
<1>2. IsFiniteSet(Sizes \cup OwnCounts)
  BY <1>1, CountsAssumption, FS_Union
<1>. QED  BY <1>1, <1>2, CountsAssumption DEF Counts

\* Max of replica counts is one of them, and the largest.
LEMMA MaxOfCounts ==
    ASSUME NEW S, S \subseteq Counts, S # {}
    PROVE  Max(S) \in S /\ \A y \in S : Max(S) >= y
<1>1. IsFiniteSet(S)
  BY CountsFinite, FS_Subset
<1>. QED  BY <1>1, CountsFinite, FiniteMax

\* Two sets of counts that bound each other have the same maximum.
LEMMA MaxEqual ==
    ASSUME NEW S, NEW T, S \subseteq Counts, T \subseteq Counts, S # {}, T # {},
           \A x \in S : \E y \in T : y >= x, \A y \in T : \E x \in S : x >= y
    PROVE  Max(S) = Max(T)
<1>1. Max(S) \in S /\ \A y \in S : Max(S) >= y
  BY MaxOfCounts
<1>2. Max(T) \in T /\ \A y \in T : Max(T) >= y
  BY MaxOfCounts
<1>3. Max(S) \in Nat /\ Max(T) \in Nat /\ S \subseteq Nat /\ T \subseteq Nat
  BY <1>1, <1>2, CountsFinite
<1>4. PICK y \in T : y >= Max(S)
  BY <1>1
<1>5. PICK x \in S : x >= Max(T)
  BY <1>2
<1>. HIDE DEF Max
<1>6. Max(T) >= y /\ Max(S) >= x /\ x \in Nat /\ y \in Nat
  BY <1>1, <1>2, <1>3
<1>. QED  BY <1>3, <1>4, <1>5, <1>6

LEMMA SizesAreCounts == Sizes \subseteq Counts /\ 1 \in Sizes
BY CountsAssumption DEF Counts, Sizes

\* getLargestSizeFromAllCRs returns a size.
LEMMA LargestSizeType ==
    ASSUME TypeOK, NEW S, S \subseteq CRs
    PROVE  LargestSize(S) \in Sizes
<1>. DEFINE T == {cache[c].size : c \in Listed(S)} \cup {1}
<1>1. \A c \in Listed(S) : cache[c] \in Specs
  BY DEF TypeOK, Listed
<1>2. \A c \in Listed(S) : cache[c].size \in Sizes
  BY <1>1 DEF Specs
<1>3. T \subseteq Sizes /\ T # {}
  BY <1>2, SizesAreCounts
<1>4. Max(T) \in T
  <2>. HIDE DEF T
  <2>. QED  BY <1>3, SizesAreCounts, MaxOfCounts
<1>5. LargestSize(S) = Max(T)
  BY DEF LargestSize
<1>. HIDE DEF T
<1>. QED  BY <1>3, <1>4, <1>5

\* What a CR asks for is a replica count.
LEMMA AsksType ==
    ASSUME NEW s \in Specs, NEW p \in Sizes
    PROVE  Asks(s, p) \in Counts
BY DEF Asks, Specs, Counts

-----------------------------------------------------------------------------
(***************************************************************************)
(* Types                                                                   *)
(***************************************************************************)

\* GoTo and the propagation's visits change one field of the job.
LEMMA GoToJob ==
    ASSUME job \in Jobs, NEW p \in Steps, GoTo(p)
    PROVE  /\ job' \in Jobs /\ job' # Absent
           /\ job'.cr = job.cr /\ job'.pc = p /\ job'.copy = job.copy /\ job'.todo = job.todo
<1>1. job' = [job EXCEPT !.pc = p]
  BY DEF GoTo
<1>2. job' \in Jobs /\ job'.cr = job.cr /\ job'.pc = p /\ job'.copy = job.copy /\ job'.todo = job.todo
  BY <1>1 DEF Jobs
<1>. QED  BY <1>2, AbsentAssumption

LEMMA VisitJob ==
    ASSUME job \in Jobs, NEW n, job' = [job EXCEPT !.todo = @ \ {n}]
    PROVE  /\ job' \in Jobs /\ job' # Absent
           /\ job'.cr = job.cr /\ job'.pc = job.pc /\ job'.copy = job.copy
           /\ job'.todo = job.todo \ {n}
<1>2. job' \in Jobs /\ job'.cr = job.cr /\ job'.pc = job.pc /\ job'.copy = job.copy
      /\ job'.todo = job.todo \ {n}
  BY DEF Jobs
<1>. QED  BY <1>2, AbsentAssumption

\* The reconcile that Reconcile(c) begins.
LEMMA StartJob ==
    ASSUME TypeOK, NEW c \in CRs, Reconcile(c)
    PROVE  /\ job' \in Jobs \cup {Absent}
           /\ job' = Absent => c \in Clones /\ cache[c] = Absent
           /\ job' # Absent =>
                /\ job'.cr = c /\ job'.todo = Clones
                /\ c \in Clones => cache[c] # Absent /\ job'.copy = cache[c] /\ job'.pc = "phase"
                /\ c \notin Clones =>
                     /\ job'.copy = spec[c]
                     /\ IF spec[c] = Absent THEN job'.pc = "delete"
                        ELSE IF spec[c].paused THEN job'.pc = "pause"
                        ELSE IF c = Master THEN job'.pc = "type" ELSE job'.pc = "phase"
<1>1. \A p \in Steps : Unstarted(c, p) \in Jobs /\ Unstarted(c, p) # Absent
  <2>. SUFFICES ASSUME NEW p \in Steps PROVE Unstarted(c, p) \in Jobs
    BY AbsentAssumption
  <2>. DEFINE read == IF c \in Clones THEN cache[c] ELSE spec[c]
  <2>1. read \in Specs \cup {Absent}
    BY DEF TypeOK
  <2>2. Unstarted(c, p) = [cr |-> c, pc |-> p, copy |-> read, todo |-> Clones]
    BY DEF Unstarted
  <2>. HIDE DEF read
  <2>. QED  BY <2>1, <2>2 DEF Jobs
<1>2. \A p : /\ Unstarted(c, p).cr = c /\ Unstarted(c, p).todo = Clones /\ Unstarted(c, p).pc = p
             /\ c \in Clones => Unstarted(c, p).copy = cache[c]
             /\ c \notin Clones => Unstarted(c, p).copy = spec[c]
  BY DEF Unstarted
<1>3. {"phase", "delete", "pause", "type"} \subseteq Steps
  BY DEF Steps
<1>4. CASE c \in Clones /\ cache[c] = Absent
  BY <1>4 DEF Reconcile
<1>5. CASE c \in Clones /\ cache[c] # Absent
  <2>1. job' = Unstarted(c, "phase")
    BY <1>5 DEF Reconcile
  <2>. QED  BY <1>1, <1>2, <1>3, <1>5, <2>1
<1>6. CASE c \notin Clones /\ spec[c] = Absent
  <2>1. job' = Unstarted(c, "delete")
    BY <1>6 DEF Reconcile
  <2>. QED  BY <1>1, <1>2, <1>3, <1>6, <2>1
<1>7. CASE c \notin Clones /\ spec[c] # Absent
  <2>1. job' = Unstarted(c, IF spec[c].paused THEN "pause" ELSE IF c = Master THEN "type" ELSE "phase")
    BY <1>7 DEF Reconcile
  <2>. HIDE DEF Unstarted
  <2>2. CASE spec[c].paused
    BY <1>1, <1>2, <1>3, <1>7, <2>1, <2>2
  <2>3. CASE ~spec[c].paused /\ c = Master
    BY <1>1, <1>2, <1>3, <1>7, <2>1, <2>3
  <2>4. CASE ~spec[c].paused /\ c # Master
    BY <1>1, <1>2, <1>3, <1>7, <2>1, <2>4
  <2>. QED  BY <2>2, <2>3, <2>4
<1>. QED  BY <1>4, <1>5, <1>6, <1>7

\* Which flow a step belongs to: only the master installs and propagates, only a
\* general CR updates and is deleted, a clone is never paused; and every step but
\* handleDelete has a CR in hand.
Legal(j) ==
    /\ j.pc \in {"type", "install", "configs", "propagate"} => j.cr = Master
    /\ j.pc \in {"getOpcon", "update", "delete"} => j.cr \in Generals
    /\ j.pc = "pause" => j.cr \notin Clones
    /\ j.pc # "delete" => j.copy \in Specs
    /\ j.pc = "delete" => j.copy = Absent

\* The master cannot be deleted, and the worker follows its flow.
RoleInv ==
    /\ spec[Master] # Absent /\ cache[Master] # Absent
    /\ job # Absent => Legal(job)

Phases == {"", "Initializing", "Updating", "Pending", "Failed", "Succeeded"}

LEMMA InitType == Init => TypeOK /\ RoleInv
<1>. SUFFICES ASSUME Init PROVE TypeOK /\ RoleInv
  OBVIOUS
<1>1. FirstSpec \in Specs
  BY SizesAreCounts DEF FirstSpec, Specs
<1>2. Master \in CRs
  BY DEF CRs
<1>3. spec \in [CRs -> Specs \cup {Absent}] /\ spec[Master] = FirstSpec
  BY <1>1, <1>2 DEF Init
<1>4. phase \in [CRs -> Phases] /\ events \in [CRs -> SUBSET {"spec", "status"}]
  BY DEF Init, Phases
<1>5. upsets \in 0 .. MaxUpsets
  <2>1. 0 \in 0 .. MaxUpsets
    BY BoundAssumption
  <2>. QED  BY <2>1 DEF Init
<1>. QED  BY <1>1, <1>2, <1>3, <1>4, <1>5, AbsentAssumption DEF Init, TypeOK, RoleInv, Phases

\* updatePhase writes one phase, with an event if it changes it.
LEMMA SetPhaseType ==
    ASSUME TypeOK, job \in Jobs, NEW p \in Phases, SetPhase(p)
    PROVE  /\ phase' \in [CRs -> Phases] /\ phase'[job.cr] = p
           /\ events' \in [CRs -> SUBSET {"spec", "status"}]
           /\ \A c \in CRs : c # job.cr => phase'[c] = phase[c] /\ events'[c] = events[c]
           /\ events[job.cr] \subseteq events'[job.cr]
           /\ "spec" \in events'[job.cr] => "spec" \in events[job.cr]
           /\ phase[job.cr] # p => events'[job.cr] # {}
<1>1. job.cr \in CRs
  BY DEF Jobs
<1>2. phase' \in [CRs -> Phases] /\ phase'[job.cr] = p /\ \A c \in CRs : c # job.cr => phase'[c] = phase[c]
  BY <1>1 DEF SetPhase, TypeOK, Phases
<1>3. CASE phase[job.cr] = p
  BY <1>1, <1>2, <1>3 DEF SetPhase, TypeOK
<1>4. CASE phase[job.cr] # p
  <2>1. events' = [events EXCEPT ![job.cr] = @ \cup {"status"}]
    BY <1>4 DEF SetPhase
  <2>2. events' \in [CRs -> SUBSET {"spec", "status"}] /\ events'[job.cr] = events[job.cr] \cup {"status"}
    BY <1>1, <2>1 DEF TypeOK
  <2>3. \A c \in CRs : c # job.cr => events'[c] = events[c]
    BY <1>1, <2>1 DEF TypeOK
  <2>. QED  BY <1>2, <2>2, <2>3
<1>. QED  BY <1>3, <1>4

\* What every worker step has in common: it adds to queue and events, it leaves
\* cache, cluster type and CRDs, and of the CRs only its own and the clones.
WorkerFrame ==
    /\ cache' = cache /\ typeOk' = typeOk /\ crds' = crds
    /\ queue \subseteq queue' /\ queue' \subseteq queue \cup {job.cr}
    /\ \A c \in CRs : events[c] \subseteq events'[c]
    /\ \A c \in CRs : spec'[c] # spec[c] => c \in Clones /\ "spec" \in events'[c] /\ job.pc = "propagate"
    /\ \A c \in CRs : phase'[c] # phase[c] => events'[c] # {}
    /\ \A c \in CRs : c # job.cr =>
         \/ phase'[c] = phase[c] /\ events'[c] = events[c]
         \/ c \in Clones /\ "spec" \in events'[c]
    /\ job' # Absent =>
         /\ job' \in Jobs /\ job'.cr = job.cr /\ job'.copy = job.copy
         /\ queue' = queue

\* The worker's steps keep types, flow and frame.
WorkerKeeps == TypeOK' /\ RoleInv' /\ WorkerFrame

\* A worker step ends the reconcile, has it queued again, or goes to a step of the
\* same flow.
Move ==
    \/ Done
    \/ Retry
    \/ UNCHANGED queue /\ \E q \in Steps : GoTo(q) /\ Legal([job EXCEPT !.pc = q])

MoveFrame ==
    /\ queue \subseteq queue' /\ queue' \subseteq queue \cup {job.cr} /\ queue' \subseteq CRs
    /\ job' \in Jobs \cup {Absent}
    /\ job' # Absent => /\ job' \in Jobs /\ job'.cr = job.cr /\ job'.copy = job.copy
                        /\ queue' = queue /\ Legal(job')

LEMMA MoveKeeps ==
    ASSUME TypeOK, job # Absent, Move
    PROVE  MoveFrame
<1>1. job \in Jobs /\ job.cr \in CRs
  BY DEF TypeOK, Jobs
<1>2. CASE Done \/ Retry
  BY <1>1, <1>2 DEF Done, Retry, TypeOK, MoveFrame
<1>3. CASE UNCHANGED queue /\ \E q \in Steps : GoTo(q) /\ Legal([job EXCEPT !.pc = q])
  <2>1. PICK q \in Steps : GoTo(q) /\ Legal([job EXCEPT !.pc = q])
    BY <1>3
  <2>2. /\ job' \in Jobs /\ job' # Absent
        /\ job'.cr = job.cr /\ job'.pc = q /\ job'.copy = job.copy /\ job'.todo = job.todo
    BY <1>1, <2>1, GoToJob
  <2>3. Legal(job')
    BY <2>1 DEF GoTo
  <2>. QED  BY <1>3, <2>2, <2>3 DEF TypeOK, MoveFrame
<1>. QED  BY <1>2, <1>3 DEF Move

\* Steps that change only the phase: updatePhase, then Done, Retry or GoTo.
LEMMA PhaseStepKeeps ==
    ASSUME TypeOK, RoleInv, job # Absent, NEW p \in Phases, SetPhase(p),
           Move
    PROVE  WorkerKeeps
<1>1. job \in Jobs /\ job.cr \in CRs
  BY DEF TypeOK, Jobs
<1>2. /\ phase' \in [CRs -> Phases] /\ events' \in [CRs -> SUBSET {"spec", "status"}]
      /\ \A c \in CRs : c # job.cr => phase'[c] = phase[c] /\ events'[c] = events[c]
      /\ events[job.cr] \subseteq events'[job.cr]
      /\ phase[job.cr] # p => events'[job.cr] # {}
      /\ phase'[job.cr] = p
  BY <1>1, SetPhaseType
<1>3. UNCHANGED <<spec, opcon, cache, typeOk, crds, upsets>>
  BY DEF SetPhase
<1>4. MoveFrame
  BY MoveKeeps
<1>5. TypeOK'
  BY <1>2, <1>3, <1>4 DEF TypeOK, Phases, MoveFrame
<1>6. RoleInv'
  BY <1>3, <1>4 DEF RoleInv, MoveFrame
<1>7. WorkerFrame
  BY <1>1, <1>2, <1>3, <1>4 DEF WorkerFrame, MoveFrame
<1>. QED  BY <1>5, <1>6, <1>7 DEF WorkerKeeps

\* Steps that change neither CRs nor queue, or fail.
LEMMA QuietStepKeeps ==
    ASSUME TypeOK, RoleInv, job # Absent,
           UNCHANGED <<spec, phase, cache, events, typeOk, crds, upsets>>,
           opcon' \in {0} \cup Counts,
           Move
    PROVE  WorkerKeeps
<1>1. job \in Jobs /\ job.cr \in CRs
  BY DEF TypeOK, Jobs
<1>4. MoveFrame
  BY MoveKeeps
<1>5. TypeOK'
  BY <1>4 DEF TypeOK, Counts, MoveFrame
<1>6. RoleInv'
  BY <1>4 DEF RoleInv, MoveFrame
<1>7. WorkerFrame
  BY <1>1, <1>4 DEF WorkerFrame, MoveFrame
<1>. QED  BY <1>5, <1>6, <1>7 DEF WorkerKeeps

\* The count that updateOperandConfig writes, and the one handleDelete compares.
LEMMA UpdateCounts ==
    ASSUME TypeOK, RoleInv
    PROVE  LET G == {Master} \cup Generals
               L == LargestSize(G)
           IN  /\ Max(UNION {{Asks(cache[c], cache[c].size), Asks(cache[c], L)} : c \in Listed(G)}) \in Counts
               /\ Max({Asks(cache[c], L) : c \in Listed(G)}) \in Counts
               /\ Max({Asks(cache[c], L) : c \in Listed(G)}) >= Asks(cache[Master], L)
<1>. DEFINE G == {Master} \cup Generals
            L == LargestSize(G)
            U == UNION {{Asks(cache[c], cache[c].size), Asks(cache[c], L)} : c \in Listed(G)}
            D == {Asks(cache[c], L) : c \in Listed(G)}
<1>1. L \in Sizes
  <2>1. G \subseteq CRs
    BY DEF CRs
  <2>. QED  BY <2>1, LargestSizeType
<1>. HIDE DEF L
<1>2. \A c \in Listed(G) : cache[c] \in Specs /\ cache[c].size \in Sizes
  <2>1. \A c \in Listed(G) : cache[c] \in Specs
    BY DEF TypeOK, Listed, CRs
  <2>. QED  BY <2>1 DEF Specs
<1>3. \A c \in Listed(G) : Asks(cache[c], cache[c].size) \in Counts /\ Asks(cache[c], L) \in Counts
  BY <1>1, <1>2, AsksType
<1>4. Master \in Listed(G)
  BY DEF RoleInv, Listed
<1>5. U \subseteq Counts /\ U # {}
  BY <1>3, <1>4
<1>6. D \subseteq Counts /\ Asks(cache[Master], L) \in D
  BY <1>3, <1>4
<1>7. Max(U) \in Counts
  <2>. HIDE DEF U
  <2>. QED  BY <1>5, MaxOfCounts
<1>8. Max(D) \in Counts /\ Max(D) >= Asks(cache[Master], L)
  <2>1. D # {}
    BY <1>6
  <2>. HIDE DEF D
  <2>. QED  BY <1>6, <2>1, MaxOfCounts
<1>. QED  BY <1>7, <1>8 DEF L

LEMMA MinOfTwo ==
    ASSUME NEW a \in Nat, NEW b \in Nat
    PROVE  Min({a, b}) \in {a, b} /\ (b >= a => Min({a, b}) = a)
<1>1. CASE a <= b
  <2>1. a \in {a, b} /\ \A y \in {a, b} : a =< y
    BY <1>1
  <2>2. \A x \in {a, b} : (\A y \in {a, b} : x =< y) => x = a
    BY <1>1
  <2>. QED  BY <2>1, <2>2 DEF Min
<1>2. CASE b < a
  <2>1. b \in {a, b} /\ \A y \in {a, b} : b =< y
    BY <1>2
  <2>. QED  BY <1>2, <2>1 DEF Min
<1>. QED  BY <1>1, <1>2

\* One propagation step: a refused write ends the reconcile, otherwise the clone is
\* left alone or overwritten, with an event.
LEMMA PropagateKeeps ==
    ASSUME TypeOK, RoleInv, NEW n \in Clones, PropagateDefaultCR(n)
    PROVE  /\ WorkerKeeps
           /\ job.cr = Master /\ job.pc = "propagate"
           /\ \/ job' = Absent /\ Master \in queue'
              \/ /\ job' # Absent /\ job'.pc = "propagate" /\ job'.todo = job.todo \ {n}
                 /\ \/ UNCHANGED <<spec, phase, events>> /\ spec[n] # Absent /\ cache[n] = cache[Master]
                    \/ "spec" \in events'[n]
              
<1>1. job \in Jobs /\ job # Absent /\ job.pc = "propagate" /\ Legal(job)
  BY DEF PropagateDefaultCR, At, TypeOK, RoleInv
<1>2. job.cr = Master /\ n \in CRs /\ Master \in CRs /\ n # Master
  BY <1>1, NamesAssumption DEF Legal, CRs
<1>3. UNCHANGED <<opcon, cache, typeOk, crds, upsets>>
  BY DEF PropagateDefaultCR
<1>4. CASE Retry /\ UNCHANGED <<spec, events, phase>>
  <2>1. Move
    BY <1>4 DEF Move
  <2>2. opcon' \in {0} \cup Counts
    BY <1>3 DEF TypeOK, Counts
  <2>3. WorkerKeeps
    BY <1>1, <1>3, <1>4, <2>1, <2>2, QuietStepKeeps
  <2>. QED  BY <1>1, <1>2, <1>4, <2>3 DEF Retry
<1>5. CASE /\ ~(Retry /\ UNCHANGED <<spec, events, phase>>)
  <2>. DEFINE main == cache[Master]
              write == spec[n] = Absent \/ cache[n] # main
  <2>1. /\ spec' = IF write THEN [spec EXCEPT ![n] = main] ELSE spec
        /\ events' = IF write THEN [events EXCEPT ![n] = @ \cup {"spec"}] ELSE events
        /\ phase' = IF spec[n] = Absent THEN [phase EXCEPT ![n] = ""] ELSE phase
        /\ job' = [job EXCEPT !.todo = @ \ {n}]
        /\ queue' = queue
    BY <1>5 DEF PropagateDefaultCR
  <2>2. /\ job' \in Jobs /\ job' # Absent
        /\ job'.cr = job.cr /\ job'.pc = job.pc /\ job'.copy = job.copy
        /\ job'.todo = job.todo \ {n}
    BY <1>1, <2>1, VisitJob
  <2>3. Legal(job')
    BY <1>1, <2>2 DEF Legal
  <2>4. main \in Specs
    BY <1>2 DEF TypeOK, RoleInv
  <2>5. spec' \in [CRs -> Specs \cup {Absent}] /\ \A c \in CRs : c # n => spec'[c] = spec[c]
    BY <2>1, <2>4 DEF TypeOK
  <2>6. phase' \in [CRs -> Phases] /\ \A c \in CRs : c # n => phase'[c] = phase[c]
    <3>1. phase \in [CRs -> Phases] /\ "" \in Phases
      BY DEF TypeOK, Phases
    <3>. QED  BY <2>1, <3>1
  <2>7. /\ events' \in [CRs -> SUBSET {"spec", "status"}]
        /\ \A c \in CRs : c # n => events'[c] = events[c]
        /\ events[n] \subseteq events'[n]
        /\ write => "spec" \in events'[n]
    <3>1. events \in [CRs -> SUBSET {"spec", "status"}]
      BY DEF TypeOK
    <3>2. CASE write
      <4>1. events' = [events EXCEPT ![n] = @ \cup {"spec"}]
        BY <2>1, <3>2
      <4>. QED  BY <1>2, <3>1, <4>1
    <3>3. CASE ~write
      BY <2>1, <3>1, <3>3
    <3>. QED  BY <3>2, <3>3
  <2>8. TypeOK'
    BY <1>3, <2>1, <2>2, <2>5, <2>6, <2>7 DEF TypeOK, Phases
  <2>9. RoleInv'
    BY <1>2, <1>3, <2>3, <2>5 DEF RoleInv
  <2>10. \A c \in CRs : spec'[c] # spec[c] => c \in Clones /\ "spec" \in events'[c]
    <3>1. spec'[n] # spec[n] => write
      BY <2>1
    <3>. QED  BY <2>5, <2>7, <3>1
  <2>11. WorkerFrame
    BY <1>1, <1>2, <1>3, <2>1, <2>2, <2>6, <2>7, <2>10 DEF WorkerFrame
  <2>12. ~write => UNCHANGED <<spec, phase, events>> /\ spec[n] # Absent /\ cache[n] = cache[Master]
    BY <2>1
  <2>. QED  BY <1>1, <1>2, <2>2, <2>7, <2>8, <2>9, <2>11, <2>12 DEF WorkerKeeps
<1>. QED  BY <1>4, <1>5

\* Every worker step keeps types, flow and frame.
LEMMA WorkKeeps ==
    ASSUME TypeOK, RoleInv, Work \/ Fault
    PROVE  WorkerKeeps /\ job \in Jobs /\ job # Absent /\ Legal(job)
<1>1. job # Absent
  BY DEF Work, Pause, CheckClusterType, BeginPhase, InstallOrUpdateOpcon, UpdateConfigs, Propagated,
     Succeed, GetOpcon, UpdateOperandConfig, HandleDelete, PropagateDefaultCR, Fault, At
<1>2. job \in Jobs /\ Legal(job) /\ job.cr \in CRs
  BY <1>1 DEF TypeOK, RoleInv, Jobs
<1>3. /\ {"Pending", "Failed", "Initializing", "Updating", "Succeeded"} \subseteq Phases
      /\ {"phase", "install", "configs", "propagate", "succeed", "getOpcon", "update"} \subseteq Steps
  BY DEF Phases, Steps
<1>4. opcon \in {0} \cup Counts
  BY DEF TypeOK, Counts
<1>. USE DEF Legal, At
<1>6. CASE Refused /\ job.pc \in Steps
  <2>1. Move /\ UNCHANGED <<spec, phase, opcon, cache, events, typeOk, crds, upsets>>
    BY <1>6 DEF Refused, Move, api
  <2>. QED  BY <1>1, <1>2, <1>4, <2>1, QuietStepKeeps
<1>7. CASE Pause
  <2>1. CASE SetPhase("Pending") /\ Done
    BY <1>1, <1>2, <1>3, <2>1, PhaseStepKeeps DEF Move
  <2>. QED  BY <1>2, <1>6, <1>7, <2>1 DEF Pause, Steps
<1>8. CASE CheckClusterType
  <2>1. CASE GoTo("phase") /\ UNCHANGED <<api, queue, upsets>>
    <3>1. Legal([job EXCEPT !.pc = "phase"])
      BY <1>2, <1>3, <1>8 DEF CheckClusterType, Jobs
    <3>2. Move
      BY <2>1, <3>1, <1>3 DEF Move
    <3>. QED  BY <1>1, <1>2, <1>4, <2>1, <3>2, QuietStepKeeps DEF api
  <2>2. CASE Retry /\ UNCHANGED <<api, upsets>>
    BY <1>1, <1>2, <1>4, <2>2, QuietStepKeeps DEF Move, api
  <2>3. CASE SetPhase("Failed") /\ Done
    BY <1>1, <1>2, <1>3, <2>3, PhaseStepKeeps DEF Move
  <2>. QED  BY <1>8, <2>1, <2>2, <2>3 DEF CheckClusterType
<1>9. CASE BeginPhase
  <2>1. CASE ~Refused
    <3>. DEFINE p == IF phase[job.cr] = "" THEN "Initializing" ELSE "Updating"
                q == CASE job.cr = Master -> "install"
                       [] job.cr \in Generals -> "getOpcon"
                       [] job.cr \in Clones -> "succeed"
    <3>1. SetPhase(p) /\ GoTo(q) /\ UNCHANGED queue /\ p \in Phases
      BY <1>3, <1>9, <2>1 DEF BeginPhase
    <3>2. q \in Steps /\ Legal([job EXCEPT !.pc = q])
      <4>1. CASE job.cr = Master
        <5>1. q = "install"
          BY <4>1, NamesAssumption
        <5>2. Legal([job EXCEPT !.pc = "install"])
          BY <1>2, <1>9, <4>1 DEF BeginPhase, Jobs
        <5>. QED  BY <5>1, <5>2, <1>3
      <4>2. CASE job.cr \in Generals
        <5>1. q = "getOpcon"
          BY <4>2, NamesAssumption
        <5>2. Legal([job EXCEPT !.pc = "getOpcon"])
          BY <1>2, <1>9, <4>2 DEF BeginPhase, Jobs
        <5>. QED  BY <5>1, <5>2, <1>3
      <4>3. CASE job.cr \in Clones
        <5>1. q = "succeed"
          BY <4>3, NamesAssumption
        <5>2. Legal([job EXCEPT !.pc = "succeed"])
          BY <1>2, <1>9, <4>3 DEF BeginPhase, Jobs
        <5>. QED  BY <5>1, <5>2, <1>3
      <4>. QED  BY <1>2, <4>1, <4>2, <4>3 DEF CRs
    <3>. HIDE DEF p, q
    <3>3. Move
      BY <3>1, <3>2 DEF Move
    <3>. QED  BY <1>1, <1>2, <3>1, <3>3, PhaseStepKeeps
  <2>. QED  BY <1>2, <1>6, <2>1 DEF Jobs
<1>10. CASE InstallOrUpdateOpcon
  <2>1. Legal([job EXCEPT !.pc = "configs"])
    BY <1>2, <1>10 DEF InstallOrUpdateOpcon, Jobs
  <2>2. LargestSize(CRs) \in Sizes /\ job.copy \in Specs
    BY <1>2, <1>10, LargestSizeType DEF InstallOrUpdateOpcon
  <2>3. opcon' \in {0} \cup Counts
    BY <1>4, <1>10, <2>2, AsksType DEF InstallOrUpdateOpcon
  <2>4. Move
    BY <1>3, <1>10, <2>1 DEF InstallOrUpdateOpcon, Move
  <2>. QED  BY <1>1, <1>2, <1>10, <2>3, <2>4, QuietStepKeeps DEF InstallOrUpdateOpcon
<1>11. CASE UpdateConfigs
  <2>1. Legal([job EXCEPT !.pc = "propagate"])
    BY <1>2, <1>11 DEF UpdateConfigs, Jobs
  <2>2. Move
    BY <1>3, <1>11, <2>1 DEF UpdateConfigs, Move
  <2>. QED  BY <1>1, <1>2, <1>4, <1>11, <2>2, QuietStepKeeps DEF UpdateConfigs, api
<1>12. CASE Propagated
  <2>1. Legal([job EXCEPT !.pc = "succeed"])
    BY <1>2, <1>12 DEF Propagated, Jobs
  <2>2. Move
    BY <1>3, <1>12, <2>1 DEF Propagated, Move
  <2>. QED  BY <1>1, <1>2, <1>4, <1>12, <2>2, QuietStepKeeps DEF Propagated, api
<1>13. CASE Succeed
  <2>1. CASE SetPhase("Succeeded") /\ Done
    BY <1>1, <1>2, <1>3, <2>1, PhaseStepKeeps DEF Move
  <2>. QED  BY <1>2, <1>6, <1>13, <2>1 DEF Succeed, Steps
<1>14. CASE GetOpcon
  <2>1. CASE GoTo("update") /\ UNCHANGED <<api, queue, upsets>>
    <3>1. Legal([job EXCEPT !.pc = "update"])
      BY <1>2, <1>14 DEF GetOpcon, Jobs
    <3>2. Move
      BY <2>1, <3>1, <1>3 DEF Move
    <3>. QED  BY <1>1, <1>2, <1>4, <2>1, <3>2, QuietStepKeeps DEF api
  <2>2. CASE Retry /\ UNCHANGED <<api, upsets>>
    BY <1>1, <1>2, <1>4, <2>2, QuietStepKeeps DEF Move, api
  <2>3. CASE SetPhase("Failed") /\ Retry
    BY <1>1, <1>2, <1>3, <2>3, PhaseStepKeeps DEF Move
  <2>. QED  BY <1>14, <2>1, <2>2, <2>3 DEF GetOpcon
<1>15. CASE UpdateOperandConfig
  <2>1. Legal([job EXCEPT !.pc = "succeed"])
    BY <1>2, <1>15 DEF UpdateOperandConfig, Jobs
  <2>2. opcon' \in Counts
    BY <1>15, UpdateCounts DEF UpdateOperandConfig
  <2>3. Move
    BY <1>3, <1>15, <2>1 DEF UpdateOperandConfig, Move
  <2>. QED  BY <1>1, <1>2, <1>15, <2>2, <2>3, QuietStepKeeps DEF UpdateOperandConfig
<1>16. CASE HandleDelete
  <2>1. CASE opcon = 0
    BY <1>1, <1>2, <1>4, <1>16, <2>1, QuietStepKeeps DEF HandleDelete, Move, api
  <2>2. CASE opcon # 0
    <3>. DEFINE m == Max({Asks(cache[c], LargestSize({Master} \cup Generals)) :
                            c \in Listed({Master} \cup Generals)})
    <3>1. m \in Counts /\ opcon \in Counts
      BY <1>4, <2>2, UpdateCounts
    <3>2. opcon' = Min({opcon, m}) /\ Done
          /\ UNCHANGED <<spec, phase, cache, events, typeOk, crds, upsets>>
      BY <1>16, <2>2 DEF HandleDelete
    <3>. HIDE DEF m
    <3>3. opcon \in Nat /\ m \in Nat
      BY <3>1, CountsFinite
    <3>4. opcon' \in {0} \cup Counts
      BY <3>1, <3>2, <3>3, MinOfTwo
    <3>. QED  BY <1>1, <1>2, <3>2, <3>4, QuietStepKeeps DEF Move
  <2>. QED  BY <2>1, <2>2
<1>17. CASE \E n \in Clones : PropagateDefaultCR(n)
  <2>. PICK n \in Clones : PropagateDefaultCR(n)
    BY <1>17
  <2>. QED  BY <1>1, <1>2, PropagateKeeps
<1>18. CASE Fault
  <2>1. upsets' \in 0 .. MaxUpsets
    <3>1. upsets \in 0 .. MaxUpsets /\ upsets < MaxUpsets /\ upsets' = upsets + 1
      BY <1>18 DEF Fault, TypeOK
    <3>. QED  BY <3>1, BoundAssumption
  <2>2. /\ phase' \in [CRs -> Phases] /\ events' \in [CRs -> SUBSET {"spec", "status"}]
        /\ \A c \in CRs : c # job.cr => phase'[c] = phase[c] /\ events'[c] = events[c]
        /\ \A c \in CRs : events[c] \subseteq events'[c]
        /\ \A c \in CRs : phase'[c] # phase[c] => events'[c] # {}
    <3>1. phase \in [CRs -> Phases] /\ events \in [CRs -> SUBSET {"spec", "status"}]
      BY DEF TypeOK, Phases
    <3>2. CASE UNCHANGED <<phase, events>>
      BY <3>1, <3>2
    <3>3. CASE /\ phase' = [phase EXCEPT ![job.cr] = "Failed"]
               /\ events' = IF phase[job.cr] = "Failed" THEN events
                            ELSE [events EXCEPT ![job.cr] = @ \cup {"status"}]
      <4>1. phase' \in [CRs -> Phases] /\ \A c \in CRs : c # job.cr => phase'[c] = phase[c]
        BY <1>2, <1>3, <3>1, <3>3
      <4>2. /\ events' \in [CRs -> SUBSET {"spec", "status"}]
            /\ \A c \in CRs : c # job.cr => events'[c] = events[c]
            /\ events[job.cr] \subseteq events'[job.cr]
            /\ phase[job.cr] # "Failed" => events'[job.cr] # {}
        <5>1. CASE phase[job.cr] = "Failed"
          BY <3>1, <3>3, <5>1
        <5>2. CASE phase[job.cr] # "Failed"
          <6>1. events' = [events EXCEPT ![job.cr] = @ \cup {"status"}]
            BY <3>3, <5>2
          <6>. QED  BY <1>2, <3>1, <6>1
        <5>. QED  BY <5>1, <5>2
      <4>3. phase'[job.cr] = "Failed"
        BY <1>2, <3>1, <3>3
      <4>. QED  BY <4>1, <4>2, <4>3
    <3>. QED  BY <1>18, <3>2, <3>3 DEF Fault
  <2>3. job' = Absent /\ queue' = queue \cup {job.cr} /\ UNCHANGED <<spec, opcon, cache, typeOk, crds>>
    BY <1>18 DEF Fault, Retry
  <2>4. TypeOK' /\ RoleInv'
    BY <1>2, <2>1, <2>2, <2>3 DEF TypeOK, RoleInv, Phases
  <2>. QED  BY <1>2, <1>1, <2>2, <2>3, <2>4 DEF WorkerKeeps, WorkerFrame
<1>. QED
  BY <1>1, <1>2, <1>7, <1>8, <1>9, <1>10, <1>11, <1>12, <1>13, <1>14, <1>15, <1>16, <1>17, <1>18 DEF Work

\* A user's change of a CR: its spec moves, with an event; nothing else of the CRs
\* does, but a new CR has no phase.
UserFrame(c) ==
    /\ UNCHANGED <<opcon, cache, typeOk, crds, queue, job>>
    /\ "spec" \in events'[c] /\ events[c] \subseteq events'[c]
    /\ \A d \in CRs : d # c => spec'[d] = spec[d] /\ phase'[d] = phase[d] /\ events'[d] = events[d]

LEMMA UserKeeps ==
    ASSUME TypeOK, RoleInv, NEW c \in CRs, (\E s \in Edited : Edit(c, s)) \/ Delete(c)
    PROVE  TypeOK' /\ RoleInv' /\ UserFrame(c)
<1>1. upsets' \in 0 .. MaxUpsets
  <2>1. upsets \in 0 .. MaxUpsets /\ upsets < MaxUpsets /\ upsets' = upsets + 1
    BY DEF Edit, Delete, TypeOK
  <2>. QED  BY <2>1, BoundAssumption
<1>2. events' = [events EXCEPT ![c] = @ \cup {"spec"}] /\ UNCHANGED <<opcon, cache, typeOk, crds, queue, job>>
  BY DEF Edit, Delete
<1>3. /\ events' \in [CRs -> SUBSET {"spec", "status"}] /\ events'[c] = events[c] \cup {"spec"}
      /\ \A d \in CRs : d # c => events'[d] = events[d]
  <2>1. events \in [CRs -> SUBSET {"spec", "status"}]
    BY DEF TypeOK
  <2>. QED  BY <1>2, <2>1
<1>4. PICK s \in Specs \cup {Absent} : spec' = [spec EXCEPT ![c] = s] /\ (s = Absent => c # Master)
  BY EditedAssumption, AbsentAssumption DEF Edit, Delete
<1>5. /\ spec' \in [CRs -> Specs \cup {Absent}] /\ spec'[c] = s
      /\ \A d \in CRs : d # c => spec'[d] = spec[d]
  BY <1>4 DEF TypeOK
<1>6. phase' \in [CRs -> Phases] /\ \A d \in CRs : d # c => phase'[d] = phase[d]
  <2>1. phase \in [CRs -> Phases] /\ "" \in Phases
    BY DEF TypeOK, Phases
  <2>2. phase' = phase \/ phase' = [phase EXCEPT ![c] = ""]
    BY DEF Edit, Delete
  <2>. QED  BY <2>1, <2>2
<1>7. TypeOK'
  BY <1>1, <1>2, <1>3, <1>5, <1>6 DEF TypeOK, Phases
<1>8. RoleInv'
  <2>1. Master \in CRs
    BY DEF CRs
  <2>. QED  BY <1>2, <1>4, <1>5, <2>1 DEF RoleInv
<1>. QED  BY <1>2, <1>3, <1>5, <1>6, <1>7, <1>8 DEF UserFrame

LEMMA DeliverKeeps ==
    ASSUME TypeOK, RoleInv, NEW c \in CRs, Deliver(c)
    PROVE  /\ TypeOK' /\ RoleInv'
           /\ cache'[c] = spec[c] /\ events'[c] = {}
           /\ \A d \in CRs : d # c => cache'[d] = cache[d] /\ events'[d] = events[d]
<1>1. Master \in CRs
  BY DEF CRs
<1>2. /\ events' \in [CRs -> SUBSET {"spec", "status"}] /\ events'[c] = {}
      /\ \A d \in CRs : d # c => events'[d] = events[d]
  <2>1. events \in [CRs -> SUBSET {"spec", "status"}] /\ events' = [events EXCEPT ![c] = {}]
    BY DEF TypeOK, Deliver
  <2>. QED  BY <2>1
<1>3. /\ cache' \in [CRs -> Specs \cup {Absent}] /\ cache'[c] = spec[c]
      /\ \A d \in CRs : d # c => cache'[d] = cache[d]
  BY DEF TypeOK, Deliver
<1>4. queue' \subseteq CRs
  BY <1>1 DEF Deliver, OwnRequest, mappingToCsRequestForCommonService, TypeOK
<1>. QED  BY <1>1, <1>2, <1>3, <1>4 DEF Deliver, TypeOK, RoleInv

LEMMA ReconcileKeeps ==
    ASSUME TypeOK, RoleInv, NEW c \in CRs, Reconcile(c)
    PROVE  TypeOK' /\ RoleInv'
<1>1. job' \in Jobs \cup {Absent}
  BY StartJob
<1>2. queue' \subseteq CRs /\ UNCHANGED <<spec, phase, opcon, cache, events, typeOk, crds, upsets>>
  BY DEF Reconcile, api, TypeOK
<1>3. TypeOK'
  BY <1>1, <1>2 DEF TypeOK
<1>4. job' # Absent => Legal(job')
  <2>. SUFFICES ASSUME job' # Absent PROVE Legal(job')
    OBVIOUS
  <2>1. cache[c] \in Specs \cup {Absent} /\ spec[c] \in Specs \cup {Absent}
    BY DEF TypeOK
  <2>2. CASE c \in Clones
    <3>1. job'.cr = c /\ job'.pc = "phase" /\ job'.copy \in Specs
      BY <2>1, <2>2, StartJob
    <3>. QED  BY <3>1 DEF Legal
  <2>3. CASE c \notin Clones
    <3>1. job'.cr = c /\ job'.copy = spec[c]
      BY <2>3, StartJob
    <3>2. CASE spec[c] = Absent
      <4>1. job'.pc = "delete" /\ c \in Generals
        BY <2>3, <3>2, StartJob DEF RoleInv, CRs
      <4>. QED  BY <3>1, <3>2, <4>1 DEF Legal
    <3>3. CASE spec[c] # Absent
      <4>1. job'.pc = "pause" \/ (job'.pc = "type" /\ c = Master) \/ job'.pc = "phase"
        BY <2>3, <3>3, StartJob
      <4>. QED  BY <2>1, <2>3, <3>1, <3>3, <4>1 DEF Legal
    <3>. QED  BY <3>2, <3>3
  <2>. QED  BY <2>2, <2>3
<1>. QED  BY <1>2, <1>3, <1>4 DEF RoleInv

\* Each step keeps types and flow.
LEMMA NextType ==
    ASSUME TypeOK, RoleInv, [Next]_vars
    PROVE  TypeOK' /\ RoleInv'
<1>1. CASE \E c \in CRs : (\E s \in Edited : Edit(c, s)) \/ Delete(c)
  BY <1>1, UserKeeps
<1>2. CASE \E c \in CRs : Deliver(c)
  BY <1>2, DeliverKeeps
<1>3. CASE \E c \in CRs : Reconcile(c)
  BY <1>3, ReconcileKeeps
<1>4. CASE EditClusterType
  <2>1. upsets' \in 0 .. MaxUpsets
    <3>1. upsets \in 0 .. MaxUpsets /\ upsets < MaxUpsets /\ upsets' = upsets + 1
      BY <1>4 DEF EditClusterType, TypeOK
    <3>. QED  BY <3>1, BoundAssumption
  <2>2. typeOk' \in BOOLEAN
    BY <1>4 DEF EditClusterType
  <2>3. queue' \subseteq CRs
    BY <1>4 DEF EditClusterType, TypeOK, CRs
  <2>. QED  BY <1>4, <2>1, <2>2, <2>3 DEF EditClusterType, TypeOK, RoleInv
<1>5. CASE Work \/ Fault
  BY <1>5, WorkKeeps DEF WorkerKeeps
<1>6. CASE UNCHANGED vars
  BY <1>6 DEF vars, TypeOK, RoleInv
<1>. QED  BY <1>1, <1>2, <1>3, <1>4, <1>5, <1>6 DEF Next

\* The types and the flow of every reconcile.
LEMMA TypeInvariance == Spec => [](TypeOK /\ RoleInv)
<1>1. TypeOK /\ RoleInv /\ [Next]_vars => (TypeOK /\ RoleInv)'
  BY NextType
<1>. QED  BY <1>1, InitType, PTL DEF Spec

\* Every CR, event, request and step of a reconcile has its type; the worker never
\* writes another replica count than one the CRs ask for.
THEOREM TypeCorrect == Spec => []TypeOK
BY TypeInvariance, PTL

-----------------------------------------------------------------------------
(***************************************************************************)
(* Rest                                                                    *)
(*                                                                         *)
(* What holds at rest follows from what holds while a CR has nothing due.  *)
(* A request or an event that arrives during a reconcile stays until the   *)
(* worker is free, so that while a CR, or the master, has nothing due, all *)
(* that the reconcile in progress has read is still so.                    *)
(***************************************************************************)

\* A reconcile of c will come.
Due(c) == c \in queue \/ "spec" \in events[c]

\* A reconcile of the master will come: any event of another CR leads to one.
MasterDue == Due(Master) \/ \E c \in CRs \ {Master} : events[c] # {}

\* The job is a reconcile of c.
On(c) == job # Absent /\ job.cr = c

\* What has no event on its way is in the cache as it is.
CacheInv == \A c \in CRs : "spec" \notin events[c] => cache[c] = spec[c]

\* The reconcile of c works on c as it is, and knows whether it is paused and, past
\* CheckClusterType, that the cluster type is right.
Working(c) ==
    /\ job.copy = spec[c] /\ job.pc # "delete"
    /\ job.pc = "pause" <=> (c \notin Clones /\ spec[c].paused)
    /\ c = Master /\ job.pc \notin {"pause", "type"} => typeOk

\* The phase of a CR that has been reconciled.
RestPhase(c) ==
    IF c \notin Clones /\ spec[c].paused THEN "Pending"
    ELSE IF c = Master /\ ~typeOk THEN "Failed" ELSE "Succeeded"

\* A CR with nothing due is being reconciled or has its last phase.
PhaseInv ==
    \A c \in CRs : spec[c] # Absent /\ ~Due(c) =>
        IF On(c) THEN Working(c) ELSE phase[c] = RestPhase(c)

\* With nothing due for the master, the clones it has visited, or all of them
\* after its reconcile, are its copies.
FollowInv ==
    ~MasterDue =>
        /\ ~On(Master) /\ MasterRuns => \A n \in Clones : spec[n] = spec[Master]
        /\ On(Master) => \A n \in Clones \ job.todo : spec[n] = spec[Master]
        /\ On(Master) /\ job.pc = "succeed" => job.todo = {}

Busy == {"Initializing", "Updating"}

\* With nothing due for the master, a general CR in work is as it was read, and
\* once begun it shows that it is in work.
GeneralInv ==
    ~MasterDue /\ job # Absent /\ job.cr \in Generals =>
        /\ job.copy = spec[job.cr]
        /\ job.pc \in {"getOpcon", "update", "succeed"} => phase[job.cr] \in Busy

\* A general CR was interrupted and will be reconciled: its last phase is a change
\* of status, and so an event for the master.
Interrupted ==
    \E g \in Generals : spec[g] # Absent /\ phase[g] \in Busy /\ (g \in queue \/ On(g))

\* What the master's reconcile installs, from what the cache holds.
Installed == opcon = Asks(spec[Master], LargestSize(CRs))

\* With nothing due for the master, its count is in place from its installation
\* on, unless a general CR has overwritten it, which has the master called again.
SizeInv ==
    crds /\ ~MasterDue /\ ~Interrupted =>
        /\ ~On(Master) /\ MasterRuns => Installed
        /\ On(Master) /\ job.pc \in {"configs", "propagate", "succeed"} => Installed

RestInv == CacheInv /\ PhaseInv /\ FollowInv /\ GeneralInv /\ SizeInv

\* At the start, the master's first request is due.
LEMMA InitRest == Init => RestInv
<1>. SUFFICES ASSUME Init PROVE RestInv
  OBVIOUS
<1>1. Due(Master) /\ MasterDue /\ job = Absent
  BY DEF Init, Due, MasterDue
<1>2. CacheInv
  BY DEF Init, CacheInv
<1>3. \A c \in CRs : c # Master => spec[c] = Absent
  BY DEF Init
<1>4. PhaseInv
  BY <1>1, <1>3 DEF PhaseInv
<1>. QED  BY <1>1, <1>2, <1>4 DEF RestInv, FollowInv, GeneralInv, SizeInv

\* What is due stays due until the reconcile that serves it begins.
LEMMA DueStays ==
    ASSUME TypeOK, RoleInv, [Next]_vars, NEW c \in CRs, ~Reconcile(c), Due(c)
    PROVE  Due(c)'
<1>1. CASE \E d \in CRs : (\E s \in Edited : Edit(d, s)) \/ Delete(d)
  <2>1. PICK d \in CRs : UserFrame(d)
    BY <1>1, UserKeeps
  <2>. QED  BY <2>1 DEF UserFrame, Due
<1>2. CASE \E d \in CRs : Deliver(d)
  <2>1. PICK d \in CRs : Deliver(d)
    BY <1>2
  <2>2. \A e \in CRs : e # d => events'[e] = events[e]
    BY <2>1, DeliverKeeps
  <2>3. queue \subseteq queue' /\ ("spec" \in events[d] => d \in queue')
    BY <2>1 DEF Deliver, OwnRequest
  <2>. QED  BY <2>2, <2>3 DEF Due
<1>3. CASE \E d \in CRs : Reconcile(d)
  <2>1. PICK d \in CRs : Reconcile(d)
    BY <1>3
  <2>2. queue' = queue \ {d} /\ events' = events /\ d # c
    BY <2>1 DEF Reconcile, api
  <2>. QED  BY <2>2 DEF Due
<1>4. CASE EditClusterType
  BY <1>4 DEF EditClusterType, Due
<1>5. CASE Work \/ Fault
  BY <1>5, WorkKeeps DEF WorkerKeeps, WorkerFrame, Due
<1>6. CASE UNCHANGED vars
  BY <1>6 DEF vars, Due
<1>. QED  BY <1>1, <1>2, <1>3, <1>4, <1>5, <1>6 DEF Next

\* So it is for the master, whose reconcile begins only when the worker is free.
LEMMA MasterDueStays ==
    ASSUME TypeOK, RoleInv, [Next]_vars, ~Reconcile(Master), MasterDue
    PROVE  MasterDue'
<1>1. Master \in CRs
  BY DEF CRs
<1>2. CASE Due(Master)
  BY <1>1, <1>2, DueStays DEF MasterDue
<1>3. ASSUME NEW c \in CRs \ {Master}, events[c] # {} PROVE MasterDue'
  <2>1. CASE \E d \in CRs : (\E s \in Edited : Edit(d, s)) \/ Delete(d)
    <3>1. PICK d \in CRs : UserFrame(d)
      BY <2>1, UserKeeps
    <3>. QED  BY <1>3, <3>1 DEF UserFrame, MasterDue
  <2>2. CASE \E d \in CRs : Deliver(d)
    <3>1. PICK d \in CRs : Deliver(d)
      BY <2>2
    <3>2. CASE d = Master
      <4>1. events'[c] = events[c]
        BY <3>1, <3>2, DeliverKeeps
      <4>. QED  BY <1>3, <4>1 DEF MasterDue
    <3>3. CASE d # Master
      <4>1. Master \in queue'
        BY <3>1, <3>3 DEF Deliver, mappingToCsRequestForCommonService
      <4>. QED  BY <4>1 DEF MasterDue, Due
    <3>. QED  BY <3>2, <3>3
  <2>3. CASE \E d \in CRs : Reconcile(d)
    BY <1>3, <2>3 DEF Reconcile, api, MasterDue
  <2>4. CASE EditClusterType
    BY <1>3, <2>4 DEF EditClusterType, MasterDue
  <2>5. CASE Work \/ Fault
    <3>1. events[c] \subseteq events'[c]
      BY <2>5, WorkKeeps DEF WorkerKeeps, WorkerFrame
    <3>. QED  BY <1>3, <3>1 DEF MasterDue
  <2>6. CASE UNCHANGED vars
    BY <1>3, <2>6 DEF vars, MasterDue
  <2>. QED  BY <2>1, <2>2, <2>3, <2>4, <2>5, <2>6 DEF Next
<1>. QED  BY <1>2, <1>3 DEF MasterDue

LEMMA NextCache ==
    ASSUME TypeOK, RoleInv, CacheInv, [Next]_vars
    PROVE  CacheInv'
<1>1. CASE \E d \in CRs : (\E s \in Edited : Edit(d, s)) \/ Delete(d)
  <2>1. PICK d \in CRs : UserFrame(d)
    BY <1>1, UserKeeps
  <2>. QED  BY <2>1 DEF UserFrame, CacheInv
<1>2. CASE \E d \in CRs : Deliver(d)
  <2>1. PICK d \in CRs : Deliver(d)
    BY <1>2
  <2>2. cache'[d] = spec[d] /\ \A c \in CRs : c # d => cache'[c] = cache[c] /\ events'[c] = events[c]
    BY <2>1, DeliverKeeps
  <2>3. spec' = spec
    BY <2>1 DEF Deliver
  <2>. QED  BY <2>2, <2>3 DEF CacheInv
<1>3. CASE \E d \in CRs : Reconcile(d)
  BY <1>3 DEF Reconcile, api, CacheInv
<1>4. CASE EditClusterType
  BY <1>4 DEF EditClusterType, CacheInv
<1>5. CASE Work \/ Fault
  <2>1. WorkerFrame
    BY <1>5, WorkKeeps DEF WorkerKeeps
  <2>. QED  BY <2>1 DEF WorkerFrame, CacheInv
<1>6. CASE UNCHANGED vars
  BY <1>6 DEF vars, CacheInv
<1>. QED  BY <1>1, <1>2, <1>3, <1>4, <1>5, <1>6 DEF Next

\* A reconcile that works on the CR as it is goes on, has it queued again, or
\* leaves the CR with its last phase.
LEMMA WorkPhase ==
    ASSUME TypeOK, RoleInv, Work \/ Fault, NEW c \in CRs, job.cr = c, Working(c), ~Due(c)'
    PROVE  IF On(c)' THEN Working(c)' ELSE phase'[c] = RestPhase(c)'
<1>1. job \in Jobs /\ job # Absent /\ Legal(job) /\ WorkerFrame
  BY WorkKeeps DEF WorkerKeeps
<1>2. spec'[c] = spec[c] /\ typeOk' = typeOk /\ ~Conflict
  <2>1. c \in Clones => job.pc # "propagate"
    BY <1>1, NamesAssumption DEF Legal
  <2>. QED  BY <1>1, <2>1 DEF WorkerFrame, Working, Conflict
<1>3. c \notin queue'
  BY DEF Due
<1>4. ~Retry
  BY <1>3 DEF Retry
<1>5. {"Pending", "Failed", "Succeeded"} \subseteq Phases
  BY DEF Phases
<1>6. ASSUME NEW q \in Steps \ {"pause", "delete", "type"}, GoTo(q), job.pc # "pause",
             c = Master => typeOk
      PROVE  On(c)' /\ Working(c)'
  <2>1. /\ job' # Absent /\ job'.cr = c /\ job'.pc = q /\ job'.copy = job.copy
    BY <1>1, <1>6, GoToJob
  <2>. QED  BY <1>2, <1>6, <2>1 DEF On, Working
<1>7. {"phase", "install", "configs", "propagate", "succeed", "getOpcon", "update"}
        \subseteq Steps \ {"pause", "delete", "type"}
  BY DEF Steps
<1>8. CASE Pause
  <2>1. SetPhase("Pending") /\ job' = Absent /\ job.pc = "pause"
    BY <1>2, <1>8 DEF Pause, Refused, Done, At
  <2>2. phase'[c] = "Pending"
    BY <1>1, <1>5, <2>1, SetPhaseType
  <2>3. RestPhase(c)' = "Pending"
    BY <1>2, <2>1 DEF Working, RestPhase
  <2>. QED  BY <2>1, <2>2, <2>3 DEF On
<1>9. CASE CheckClusterType
  <2>0. job.pc = "type" /\ c = Master /\ c \notin Clones /\ ~spec[c].paused
    BY <1>1, <1>9, NamesAssumption DEF CheckClusterType, At, Legal, Working
  <2>1. CASE typeOk
    BY <1>6, <1>7, <1>9, <2>0, <2>1 DEF CheckClusterType
  <2>2. CASE ~typeOk
    <3>1. SetPhase("Failed") /\ job' = Absent
      BY <1>2, <1>9, <2>2 DEF CheckClusterType, Done
    <3>2. phase'[c] = "Failed"
      BY <1>1, <1>5, <3>1, SetPhaseType
    <3>. QED  BY <1>2, <2>0, <2>2, <3>1, <3>2 DEF On, RestPhase
  <2>. QED  BY <2>1, <2>2
<1>10. CASE BeginPhase
  <2>1. job.pc = "phase"
    BY <1>10 DEF BeginPhase, At
  <2>2. GoTo("install") \/ GoTo("getOpcon") \/ GoTo("succeed")
    BY <1>2, <1>10, NamesAssumption DEF BeginPhase, Refused, CRs
  <2>. QED  BY <1>6, <1>7, <2>1, <2>2 DEF Working
<1>11. CASE InstallOrUpdateOpcon \/ UpdateConfigs \/ Propagated \/ UpdateOperandConfig
  <2>1. job.pc \notin {"pause", "type"}
    BY <1>11 DEF InstallOrUpdateOpcon, UpdateConfigs, Propagated, UpdateOperandConfig, At
  <2>2. GoTo("configs") \/ GoTo("propagate") \/ GoTo("succeed")
    BY <1>11 DEF InstallOrUpdateOpcon, UpdateConfigs, Propagated, UpdateOperandConfig
  <2>. QED  BY <1>6, <1>7, <2>1, <2>2 DEF Working
<1>12. CASE GetOpcon
  <2>1. job.pc = "getOpcon" /\ GoTo("update")
    BY <1>4, <1>12 DEF GetOpcon, At
  <2>. QED  BY <1>6, <1>7, <2>1 DEF Working
<1>13. CASE Succeed
  <2>1. SetPhase("Succeeded") /\ job' = Absent /\ job.pc = "succeed"
    BY <1>2, <1>13 DEF Succeed, Refused, Done, At
  <2>2. phase'[c] = "Succeeded"
    BY <1>1, <1>5, <2>1, SetPhaseType
  <2>3. RestPhase(c)' = "Succeeded"
    BY <1>2, <2>1 DEF Working, RestPhase
  <2>. QED  BY <2>1, <2>2, <2>3 DEF On
<1>14. CASE HandleDelete
  BY <1>14 DEF HandleDelete, At, Working
<1>15. CASE \E n \in Clones : PropagateDefaultCR(n)
  <2>1. PICK n \in Clones : PropagateDefaultCR(n)
    BY <1>15
  <2>2. job.cr = Master /\ job.pc = "propagate"
    BY <2>1, PropagateKeeps
  <2>3. job' # Absent /\ job'.pc = "propagate"
    BY <1>3, <2>1, <2>2, PropagateKeeps
  <2>4. job'.cr = c /\ job'.copy = job.copy
    BY <1>1, <2>3 DEF WorkerFrame
  <2>. QED  BY <1>2, <2>2, <2>3, <2>4 DEF On, Working
<1>16. CASE Fault
  BY <1>4, <1>16 DEF Fault
<1>. QED
  BY <1>8, <1>9, <1>10, <1>11, <1>12, <1>13, <1>14, <1>15, <1>16 DEF Work

LEMMA NextPhase ==
    ASSUME TypeOK, RoleInv, CacheInv, PhaseInv, [Next]_vars
    PROVE  PhaseInv'
<1>. SUFFICES ASSUME NEW c \in CRs, spec'[c] # Absent, ~Due(c)'
              PROVE  IF On(c)' THEN Working(c)' ELSE phase'[c] = RestPhase(c)'
  BY DEF PhaseInv
<1>0. ASSUME ~Reconcile(c), spec'[c] = spec[c]
      PROVE  IF On(c) THEN Working(c) ELSE phase[c] = RestPhase(c)
  BY <1>0, DueStays DEF PhaseInv
<1>1. CASE \E d \in CRs : (\E s \in Edited : Edit(d, s)) \/ Delete(d)
  <2>1. PICK d \in CRs : (\E s \in Edited : Edit(d, s)) \/ Delete(d)
    BY <1>1
  <2>2. UserFrame(d)
    BY <2>1, UserKeeps
  <2>3. c # d
    BY <2>2 DEF UserFrame, Due
  <2>4. spec'[c] = spec[c] /\ phase'[c] = phase[c] /\ job' = job /\ typeOk' = typeOk /\ queue' = queue
    BY <2>2, <2>3 DEF UserFrame
  <2>5. IF On(c) THEN Working(c) ELSE phase[c] = RestPhase(c)
    <3>1. ~Due(c)
      BY <2>2, <2>3, <2>4 DEF UserFrame, Due
    <3>. QED  BY <2>4, <3>1 DEF PhaseInv
  <2>. QED  BY <2>4, <2>5 DEF On, Working, RestPhase
<1>2. CASE \E d \in CRs : Deliver(d)
  <2>1. UNCHANGED <<spec, phase, typeOk, job>> /\ ~Reconcile(c)
    BY <1>2 DEF Deliver, Reconcile, api
  <2>2. IF On(c) THEN Working(c) ELSE phase[c] = RestPhase(c)
    BY <1>0, <2>1
  <2>. QED  BY <2>1, <2>2 DEF On, Working, RestPhase
<1>3. CASE \E d \in CRs : Reconcile(d)
  <2>1. PICK d \in CRs : Reconcile(d)
    BY <1>3
  <2>2. UNCHANGED <<spec, phase, cache, events, typeOk>> /\ job = Absent /\ queue' = queue \ {d}
    BY <2>1 DEF Reconcile, api
  <2>3. CASE c # d
    <3>1. ~Due(c)
      BY <2>2, <2>3 DEF Due
    <3>2. phase[c] = RestPhase(c)
      BY <2>2, <3>1 DEF PhaseInv, On
    <3>3. ~On(c)'
      BY <2>1, <2>3, StartJob DEF On
    <3>. QED  BY <2>2, <3>2, <3>3 DEF RestPhase
  <2>4. CASE c = d
    <3>1. cache[c] = spec[c]
      BY <2>2 DEF Due, CacheInv
    <3>2. job' # Absent
      BY <2>1, <2>2, <2>4, <3>1, StartJob
    <3>3. job'.cr = c /\ job'.copy = spec[c]
      BY <2>1, <2>4, <3>1, <3>2, StartJob
    <3>4. CASE c \in Clones
      <4>1. job'.pc = "phase" /\ c # Master
        BY <2>1, <2>4, <3>2, <3>4, StartJob, NamesAssumption
      <4>. QED  BY <2>2, <3>2, <3>3, <3>4, <4>1 DEF On, Working
    <3>5. CASE c \notin Clones
      <4>1. IF spec[c].paused THEN job'.pc = "pause"
            ELSE IF c = Master THEN job'.pc = "type" ELSE job'.pc = "phase"
        BY <2>1, <2>2, <2>4, <3>2, <3>5, StartJob
      <4>2. CASE spec[c].paused
        BY <2>2, <3>2, <3>3, <3>5, <4>1, <4>2 DEF On, Working
      <4>3. CASE ~spec[c].paused
        BY <2>2, <3>2, <3>3, <3>5, <4>1, <4>3 DEF On, Working
      <4>. QED  BY <4>2, <4>3
    <3>. QED  BY <3>4, <3>5
  <2>. QED  BY <2>3, <2>4
<1>4. CASE EditClusterType
  <2>1. c # Master
    BY <1>4 DEF EditClusterType, Due
  <2>2. UNCHANGED <<spec, phase, job>> /\ ~Due(c)
    BY <1>4 DEF EditClusterType, Due
  <2>3. IF On(c) THEN Working(c) ELSE phase[c] = RestPhase(c)
    BY <2>2 DEF PhaseInv
  <2>. QED  BY <2>1, <2>2, <2>3 DEF On, Working, RestPhase
<1>5. CASE Work \/ Fault
  <2>1. job \in Jobs /\ job # Absent /\ WorkerFrame
    BY <1>5, WorkKeeps DEF WorkerKeeps
  <2>2. spec'[c] = spec[c] /\ typeOk' = typeOk /\ ~Due(c)
    BY <2>1 DEF WorkerFrame, Due
  <2>3. IF On(c) THEN Working(c) ELSE phase[c] = RestPhase(c)
    BY <2>2 DEF PhaseInv
  <2>4. CASE job.cr = c
    BY <1>5, <2>1, <2>3, <2>4, WorkPhase DEF On
  <2>5. CASE job.cr # c
    <3>1. phase'[c] = phase[c] /\ ~On(c)'
      BY <2>1, <2>5 DEF WorkerFrame, On, Due
    <3>. QED  BY <2>2, <2>3, <2>5, <3>1 DEF On, RestPhase
  <2>. QED  BY <2>4, <2>5
<1>6. CASE UNCHANGED vars
  BY <1>6 DEF vars, PhaseInv, Due, On, Working, RestPhase
<1>. QED  BY <1>1, <1>2, <1>3, <1>4, <1>5, <1>6 DEF Next

\* With nothing due for the master, the specs and the caches stand still.
LEMMA StandStill ==
    ASSUME TypeOK, RoleInv, CacheInv, [Next]_vars, ~Reconcile(Master), ~MasterDue'
    PROVE  /\ ~MasterDue
           /\ \A c \in CRs : spec'[c] = spec[c] /\ cache[c] = spec[c] /\ cache'[c] = cache[c]
           /\ typeOk' = typeOk /\ crds' = crds /\ LargestSize(CRs)' = LargestSize(CRs)
<1>. SUFFICES /\ ~MasterDue
              /\ \A c \in CRs : spec'[c] = spec[c] /\ cache[c] = spec[c] /\ cache'[c] = cache[c]
              /\ typeOk' = typeOk /\ crds' = crds
  <2>1. TypeOK'
    BY NextType
  <2>2. ASSUME \A c \in CRs : cache'[c] = cache[c] PROVE cache' = cache
    <3>1. cache \in [CRs -> Specs \cup {Absent}] /\ cache' \in [CRs -> Specs \cup {Absent}]
      BY <2>1 DEF TypeOK
    <3>. QED  BY <2>2, <3>1
  <2>. QED  BY <2>2 DEF LargestSize, Listed
<1>1. ~MasterDue
  BY MasterDueStays
<1>2. \A c \in CRs : "spec" \notin events[c] /\ "spec" \notin events'[c]
  BY <1>1 DEF MasterDue, Due
<1>3. \A c \in CRs : cache[c] = spec[c] /\ cache'[c] = spec'[c]
  <2>1. CacheInv'
    BY NextCache
  <2>. QED  BY <1>2, <2>1 DEF CacheInv
<1>4. CASE \E d \in CRs : (\E s \in Edited : Edit(d, s)) \/ Delete(d)
  BY <1>2, <1>4, UserKeeps DEF UserFrame
<1>5. CASE \E d \in CRs : Deliver(d)
  BY <1>1, <1>3, <1>5 DEF Deliver
<1>6. CASE \E d \in CRs : Reconcile(d)
  BY <1>1, <1>3, <1>6 DEF Reconcile, api
<1>7. CASE EditClusterType
  BY <1>7 DEF EditClusterType, MasterDue, Due
<1>8. CASE Work \/ Fault
  BY <1>1, <1>2, <1>3, <1>8, WorkKeeps DEF WorkerKeeps, WorkerFrame
<1>9. CASE UNCHANGED vars
  BY <1>1, <1>3, <1>9 DEF vars
<1>. QED  BY <1>4, <1>5, <1>6, <1>7, <1>8, <1>9 DEF Next

LEMMA NextFollow ==
    ASSUME TypeOK, RoleInv, CacheInv, PhaseInv, FollowInv, [Next]_vars
    PROVE  FollowInv'
<1>. SUFFICES ASSUME ~MasterDue'
              PROVE  /\ ~On(Master)' /\ MasterRuns' => \A n \in Clones : spec'[n] = spec'[Master]
                     /\ On(Master)' => \A n \in Clones \ job'.todo : spec'[n] = spec'[Master]
                     /\ On(Master)' /\ job'.pc = "succeed" => job'.todo = {}
  BY DEF FollowInv
<1>0. Master \in CRs /\ Master \notin Clones /\ Clones \subseteq CRs
  BY NamesAssumption DEF CRs
<1>1. CASE Reconcile(Master)
  <2>1. job' # Absent /\ job'.todo = Clones
    BY <1>0, <1>1, StartJob
  <2>2. job'.cr = Master /\ job'.pc # "succeed"
    BY <1>0, <1>1, <2>1, StartJob
  <2>. QED  BY <2>1, <2>2 DEF On
<1>2. CASE ~Reconcile(Master)
  <2>1. /\ ~MasterDue /\ typeOk' = typeOk
        /\ \A c \in CRs : spec'[c] = spec[c] /\ cache[c] = spec[c]
    BY <1>2, StandStill
  <2>2. MasterRuns' = MasterRuns
    BY <1>0, <2>1 DEF MasterRuns
  <2>3. /\ ~On(Master) /\ MasterRuns => \A n \in Clones : spec[n] = spec[Master]
        /\ On(Master) => \A n \in Clones \ job.todo : spec[n] = spec[Master]
        /\ On(Master) /\ job.pc = "succeed" => job.todo = {}
    BY <2>1 DEF FollowInv
  <2>4. CASE job' = job
    BY <1>0, <2>1, <2>2, <2>3, <2>4 DEF On
  <2>5. CASE ~On(Master) /\ ~On(Master)'
    BY <1>0, <2>1, <2>2, <2>3, <2>5
  <2>6. CASE \E d \in CRs : Reconcile(d)
    <3>1. PICK d \in CRs : Reconcile(d)
      BY <2>6
    <3>2. ~On(Master) /\ ~On(Master)'
      BY <1>2, <3>1, StartJob DEF On, Reconcile
    <3>. QED  BY <3>2, <2>5
  <2>7. CASE Work \/ Fault
    <3>1. job \in Jobs /\ job # Absent /\ WorkerFrame
      BY <2>7, WorkKeeps DEF WorkerKeeps
    <3>2. CASE job.cr # Master
      <4>1. ~On(Master) /\ ~On(Master)'
        BY <3>1, <3>2 DEF On, WorkerFrame
      <4>. QED  BY <2>5, <4>1
    <3>3. CASE job.cr = Master
      <4>1. Working(Master)
        <5>1. ~Due(Master) /\ spec[Master] # Absent /\ On(Master)
          BY <2>1, <3>1, <3>3 DEF MasterDue, RoleInv, On
        <5>. QED  BY <1>0, <5>1 DEF PhaseInv
      <4>2. ~Conflict /\ ~Retry
        <5>1. Master \notin queue'
          BY DEF MasterDue, Due
        <5>. QED  BY <3>3, <4>1, <5>1 DEF Working, Conflict, Retry
      <4>3. ASSUME NEW q \in Steps, GoTo(q), q = "succeed" => job.todo = {}
            PROVE  On(Master)' /\ job'.todo = job.todo /\ (job'.pc = "succeed" => job'.todo = {})
        BY <3>1, <3>3, <4>3, GoToJob DEF On
      <4>4. {"phase", "install", "configs", "propagate", "succeed", "update"} \subseteq Steps
        BY DEF Steps
      <4>5. \A n \in Clones \ job.todo : spec'[n] = spec'[Master]
        BY <1>0, <2>1, <2>3, <3>1, <3>3 DEF On
      <4>6. CASE Pause
        <5>1. spec[Master].paused /\ job' = Absent
          BY <1>0, <4>1, <4>2, <2>7, <4>6 DEF Pause, At, Working, Refused, Done
        <5>. QED  BY <2>2, <5>1 DEF On, MasterRuns
      <4>7. CASE CheckClusterType
        <5>1. GoTo("phase") \/ (~typeOk /\ job' = Absent)
          BY <4>2, <4>7 DEF CheckClusterType, Done
        <5>2. CASE GoTo("phase")
          BY <4>3, <4>4, <4>5, <5>2
        <5>3. CASE ~typeOk /\ job' = Absent
          BY <2>2, <5>3 DEF On, MasterRuns
        <5>. QED  BY <5>1, <5>2, <5>3
      <4>8. CASE BeginPhase
        <5>1. GoTo("install")
          BY <3>3, <4>2, <4>8, NamesAssumption DEF BeginPhase, Refused
        <5>. QED  BY <4>3, <4>4, <4>5, <5>1
      <4>9. CASE InstallOrUpdateOpcon \/ UpdateConfigs
        <5>1. GoTo("configs") \/ GoTo("propagate")
          BY <4>9 DEF InstallOrUpdateOpcon, UpdateConfigs
        <5>. QED  BY <4>3, <4>4, <4>5, <5>1
      <4>10. CASE Propagated
        <5>1. GoTo("succeed") /\ job.todo = {}
          BY <4>10 DEF Propagated
        <5>. QED  BY <4>3, <4>4, <4>5, <5>1
      <4>11. CASE Succeed
        <5>1. job' = Absent /\ job.todo = {}
          BY <2>3, <3>1, <3>3, <4>2, <4>11 DEF Succeed, Refused, Done, On, At
        <5>. QED  BY <4>5, <5>1 DEF On
      <4>12. CASE GetOpcon \/ UpdateOperandConfig \/ HandleDelete
        BY <2>7, <3>3, <4>12, WorkKeeps, NamesAssumption DEF GetOpcon, UpdateOperandConfig, HandleDelete, At, Legal
      <4>13. CASE \E n \in Clones : PropagateDefaultCR(n)
        <5>1. PICK n \in Clones : PropagateDefaultCR(n)
          BY <4>13
        <5>2. n \in CRs /\ n # Master /\ "spec" \notin events'[n] /\ Master \notin queue'
          BY <1>0 DEF MasterDue, Due
        <5>3. /\ job' # Absent /\ job'.pc = "propagate" /\ job'.todo = job.todo \ {n}
              /\ cache[n] = cache[Master]
          BY <5>1, <5>2, PropagateKeeps
        <5>4. spec'[n] = spec'[Master]
          BY <1>0, <2>1, <5>2, <5>3
        <5>. QED  BY <3>1, <3>3, <4>5, <5>3, <5>4 DEF On, WorkerFrame
      <4>14. CASE Fault
        BY <4>2, <4>14 DEF Fault
      <4>. QED
        BY <2>7, <4>6, <4>7, <4>8, <4>9, <4>10, <4>11, <4>12, <4>13, <4>14 DEF Work
    <3>. QED  BY <3>2, <3>3
  <2>. QED
    BY <2>4, <2>6, <2>7 DEF Next, Edit, Delete, Deliver, EditClusterType, vars
<1>. QED  BY <1>1, <1>2

LEMMA NextGeneral ==
    ASSUME TypeOK, RoleInv, CacheInv, GeneralInv, [Next]_vars
    PROVE  GeneralInv'
<1>. SUFFICES ASSUME ~MasterDue', job' # Absent, job'.cr \in Generals
              PROVE  /\ job'.copy = spec'[job'.cr]
                     /\ job'.pc \in {"getOpcon", "update", "succeed"} => phase'[job'.cr] \in Busy
  BY DEF GeneralInv
<1>0. Generals \subseteq CRs \ {Master} /\ Generals \cap Clones = {}
  BY NamesAssumption DEF CRs
<1>1. CASE \E d \in CRs : Reconcile(d)
  <2>1. PICK d \in CRs : Reconcile(d)
    BY <1>1
  <2>2. job'.cr = d /\ job'.copy = spec[d] /\ job'.pc \in {"delete", "pause", "phase"}
    BY <1>0, <2>1, StartJob
  <2>3. spec' = spec
    BY <2>1 DEF Reconcile, api
  <2>. QED  BY <2>2, <2>3
<1>2. CASE ~\E d \in CRs : Reconcile(d)
  <2>1. ~MasterDue /\ \A c \in CRs : spec'[c] = spec[c]
    BY <1>2, StandStill DEF CRs
  <2>2. CASE UNCHANGED <<job, phase>>
    BY <1>0, <2>1, <2>2 DEF GeneralInv
  <2>3. CASE \E d \in CRs : (\E s \in Edited : Edit(d, s)) \/ Delete(d)
    <3>1. PICK d \in CRs : UserFrame(d)
      BY <2>3, UserKeeps
    <3>. QED  BY <3>1 DEF UserFrame, MasterDue, Due
  <2>4. CASE Work \/ Fault
    <3>1. job \in Jobs /\ job # Absent /\ WorkerFrame /\ Legal(job)
      BY <2>4, WorkKeeps DEF WorkerKeeps
    <3>2. job'.cr = job.cr /\ job'.copy = job.copy /\ job.cr \in Generals
      BY <3>1 DEF WorkerFrame
    <3>3. job.copy = spec[job.cr]
      BY <2>1, <3>1, <3>2 DEF GeneralInv
    <3>4. phase'[job.cr] = phase[job.cr]
      BY <1>0, <3>1, <3>2 DEF WorkerFrame, MasterDue
    <3>5. ASSUME job'.pc \in {"getOpcon", "update", "succeed"} PROVE phase'[job.cr] \in Busy
      <4>1. CASE BeginPhase
        <5>1. SetPhase("Initializing") \/ SetPhase("Updating")
          BY <3>3, <4>1 DEF BeginPhase, Refused, Conflict, Retry
        <5>2. {"Initializing", "Updating"} \subseteq Phases
          BY DEF Phases
        <5>. QED  BY <3>1, <5>1, <5>2, SetPhaseType DEF Busy
      <4>2. CASE job.pc \in {"getOpcon", "update", "succeed"}
        BY <2>1, <3>1, <3>2, <3>4, <4>2 DEF GeneralInv
      <4>3. CASE job.pc \in {"pause", "delete"}
        BY <2>4, <4>3 DEF Work, Pause, CheckClusterType, BeginPhase, InstallOrUpdateOpcon, UpdateConfigs,
           Propagated, Succeed, GetOpcon, UpdateOperandConfig, HandleDelete, PropagateDefaultCR, Fault,
           At, Refused, Retry, Done
      <4>4. CASE job.pc \in {"type", "install", "configs", "propagate"}
        BY <1>0, <3>1, <3>2, <4>4 DEF Legal
      <4>5. CASE job.pc = "phase" /\ ~BeginPhase
        BY <2>4, <4>5 DEF Work, Pause, CheckClusterType, BeginPhase, InstallOrUpdateOpcon, UpdateConfigs,
           Propagated, Succeed, GetOpcon, UpdateOperandConfig, HandleDelete, PropagateDefaultCR, Fault,
           At, Retry
      <4>. QED  BY <3>1, <4>1, <4>2, <4>3, <4>4, <4>5 DEF Jobs, Steps
    <3>. QED  BY <1>0, <2>1, <3>2, <3>3, <3>5
  <2>. QED
    BY <1>2, <2>2, <2>3, <2>4 DEF Next, Deliver, EditClusterType, vars
<1>. QED  BY <1>1, <1>2

\* If the clones are copies of the master, they do not make the largest size larger,
\* and what the cache shows is the largest profile on the server.
LEMMA SameLargest ==
    ASSUME TypeOK, RoleInv, \A c \in CRs : cache[c] = spec[c],
           \A n \in Clones : spec[n] = spec[Master]
    PROVE  LargestSize(CRs) = LargestProfile /\ LargestSize({Master} \cup Generals) = LargestProfile
<1>. DEFINE G == {Master} \cup Generals
            P == {spec[c].size : c \in Existing(G)}
            A == {cache[c].size : c \in Listed(CRs)} \cup {1}
            B == {cache[c].size : c \in Listed(G)} \cup {1}
<1>1. \A c \in CRs : spec[c] # Absent => spec[c].size \in Sizes
  <2>1. \A c \in CRs : spec[c] # Absent => spec[c] \in Specs
    BY DEF TypeOK
  <2>. QED  BY <2>1 DEF Specs
<1>2. Existing(G) \subseteq G /\ G \subseteq CRs /\ Master \in Existing(G)
  BY DEF CRs, Existing, RoleInv
<1>3. \A c \in Existing(G) : spec[c] # Absent
  BY DEF Existing
<1>4. P \subseteq Sizes /\ spec[Master].size \in P
  BY <1>1, <1>2, <1>3
<1>5. Listed(G) = Existing(G)
  BY <1>2 DEF Listed, Existing
<1>6. B = P \cup {1}
  BY <1>2, <1>5
<1>7. A \subseteq P \cup {1}
  <2>. SUFFICES ASSUME NEW c \in CRs, cache[c] # Absent PROVE cache[c].size \in P
    BY DEF Listed
  <2>1. CASE c \in Clones
    <3>1. cache[c] = spec[Master]
      BY <2>1
    <3>. QED  BY <1>4, <3>1
  <2>2. CASE c \notin Clones
    BY <2>2 DEF CRs, Existing
  <2>. QED  BY <2>1, <2>2
<1>8. B \subseteq A
  BY <1>2 DEF Listed
<1>9. A = P \cup {1}
  BY <1>6, <1>7, <1>8
<1>. HIDE DEF P
<1>10. Max(P \cup {1}) = Max(P)
  <2>1. P \cup {1} \subseteq Counts /\ P \subseteq Counts /\ P # {} /\ P \cup {1} # {}
    BY <1>4, SizesAreCounts
  <2>2. P \subseteq Nat \ {0}
    BY <2>1, CountsFinite
  <2>3. \A x \in P \cup {1} : \E y \in P : y >= x
    <3>1. \A x \in P : x >= x /\ x >= 1
      BY <2>2
    <3>. QED  BY <1>4, <3>1
  <2>4. \A y \in P : \E x \in P \cup {1} : x >= y
    BY <2>2
  <2>. QED  BY <2>1, <2>3, <2>4, MaxEqual
<1>11. LargestProfile = Max(P)
  BY DEF LargestProfile, P
<1>12. LargestSize(CRs) = Max(A) /\ LargestSize(G) = Max(B)
  BY DEF LargestSize
<1>. QED  BY <1>6, <1>9, <1>10, <1>11, <1>12

\* A general CR that was interrupted stays so, or the master is called.
LEMMA InterruptedStays ==
    ASSUME TypeOK, RoleInv, CacheInv, GeneralInv, [Next]_vars, ~Reconcile(Master), ~MasterDue', Interrupted
    PROVE  Interrupted'
<1>0. Generals \subseteq CRs \ {Master} /\ Generals \cap Clones = {}
  BY NamesAssumption DEF CRs
<1>1. PICK g \in Generals : spec[g] # Absent /\ phase[g] \in Busy /\ (g \in queue \/ On(g))
  BY DEF Interrupted
<1>2. ~MasterDue /\ spec'[g] = spec[g] /\ events'[g] = {} /\ \A c \in CRs : "spec" \notin events'[c]
  BY <1>0, StandStill DEF MasterDue, Due
<1>3. SUFFICES phase'[g] \in Busy /\ (g \in queue' \/ On(g)')
  BY <1>1, <1>2 DEF Interrupted
<1>4. CASE \E d \in CRs : (\E s \in Edited : Edit(d, s)) \/ Delete(d)
  BY <1>2, <1>4, UserKeeps DEF UserFrame
<1>5. CASE (\E d \in CRs : Deliver(d)) \/ EditClusterType \/ UNCHANGED vars
  <2>1. phase' = phase /\ queue \subseteq queue' /\ job' = job
    BY <1>5 DEF Deliver, EditClusterType, vars
  <2>. QED  BY <1>1, <2>1 DEF On
<1>6. CASE \E d \in CRs : Reconcile(d)
  <2>1. PICK d \in CRs : Reconcile(d)
    BY <1>6
  <2>2. phase' = phase /\ queue' = queue \ {d} /\ job = Absent
    BY <2>1 DEF Reconcile, api
  <2>3. CASE d = g
    <3>1. job' # Absent
      BY <1>0, <2>1, <2>3, StartJob
    <3>2. job'.cr = g
      BY <2>1, <2>3, <3>1, StartJob
    <3>. QED  BY <1>1, <2>2, <3>1, <3>2 DEF On
  <2>4. CASE d # g
    BY <1>1, <2>2, <2>4 DEF On
  <2>. QED  BY <2>3, <2>4
<1>7. CASE Work \/ Fault
  <2>1. job \in Jobs /\ job # Absent /\ WorkerFrame /\ Legal(job)
    BY <1>7, WorkKeeps DEF WorkerKeeps
  <2>2. phase'[g] = phase[g] /\ queue \subseteq queue'
    BY <1>0, <1>2, <2>1 DEF WorkerFrame
  <2>3. CASE job' # Absent \/ ~On(g)
    BY <1>1, <2>1, <2>2, <2>3 DEF On, WorkerFrame
  <2>4. CASE job' = Absent /\ On(g)
    <3>1. job.cr = g /\ job.copy = spec[g]
      BY <1>2, <2>1, <2>4 DEF On, GeneralInv
    <3>2. job.pc # "delete" /\ job.pc \notin {"type", "install", "configs", "propagate"}
      BY <1>0, <1>1, <2>1, <3>1 DEF Legal
    <3>3. Retry \/ SetPhase("Pending") \/ SetPhase("Succeeded")
      <4>1. \A q \in Steps : ~GoTo(q)
        BY <2>1, <2>4, GoToJob
      <4>2. {"getOpcon", "succeed", "update"} \subseteq Steps
        BY DEF Steps
      <4>3. CASE BeginPhase
        <5>1. Retry \/ GoTo("getOpcon")
          BY <1>0, <3>1, <4>3, NamesAssumption DEF BeginPhase, Refused
        <5>. QED  BY <4>1, <4>2, <5>1
      <4>4. CASE ~BeginPhase
        BY <1>7, <3>2, <4>1, <4>2, <4>4 DEF Work, Pause, CheckClusterType, InstallOrUpdateOpcon,
           UpdateConfigs, Propagated, Succeed, GetOpcon, UpdateOperandConfig, HandleDelete,
           PropagateDefaultCR, Fault, At, Refused
      <4>. QED  BY <4>3, <4>4
    <3>4. ~SetPhase("Pending") /\ ~SetPhase("Succeeded")
      <4>1. {"Pending", "Succeeded"} \subseteq Phases \ Busy
        BY DEF Phases, Busy
      <4>. QED  BY <1>1, <2>1, <2>2, <3>1, <4>1, SetPhaseType
    <3>5. Retry
      BY <3>3, <3>4
    <3>. QED  BY <1>1, <2>2, <3>1, <3>5 DEF Retry
  <2>. QED  BY <2>3, <2>4
<1>. QED  BY <1>4, <1>5, <1>6, <1>7 DEF Next

LEMMA NextSize ==
    ASSUME TypeOK, RoleInv, CacheInv, PhaseInv, FollowInv, GeneralInv, SizeInv, [Next]_vars
    PROVE  SizeInv'
<1>. SUFFICES ASSUME crds', ~MasterDue', ~Interrupted'
              PROVE  /\ ~On(Master)' /\ MasterRuns' => Installed'
                     /\ On(Master)' /\ job'.pc \in {"configs", "propagate", "succeed"} => Installed'
  BY DEF SizeInv
<1>0. Master \in CRs /\ Master \notin Clones /\ Generals \subseteq CRs \ {Master}
  BY NamesAssumption DEF CRs
<1>1. CASE Reconcile(Master)
  <2>1. job' # Absent
    BY <1>0, <1>1, StartJob
  <2>2. job'.cr = Master /\ job'.pc \in {"delete", "pause", "type"}
    BY <1>0, <1>1, <2>1, StartJob
  <2>. QED  BY <2>1, <2>2 DEF On
<1>2. CASE ~Reconcile(Master)
  <2>1. /\ ~MasterDue /\ typeOk' = typeOk /\ crds /\ LargestSize(CRs)' = LargestSize(CRs)
        /\ \A c \in CRs : spec'[c] = spec[c] /\ cache[c] = spec[c]
    BY <1>2, StandStill
  <2>2. MasterRuns' = MasterRuns /\ (opcon' = opcon => Installed' = Installed)
    BY <1>0, <2>1 DEF MasterRuns, Installed
  <2>3. /\ ~On(Master) /\ MasterRuns => Installed
        /\ On(Master) /\ job.pc \in {"configs", "propagate", "succeed"} => Installed
    <3>1. ~Interrupted
      BY <1>2, InterruptedStays
    <3>. QED  BY <2>1, <3>1 DEF SizeInv
  <2>4. CASE UNCHANGED <<opcon, job>>
    BY <2>2, <2>3, <2>4 DEF On
  <2>5. CASE \E d \in CRs : Reconcile(d)
    <3>1. PICK d \in CRs : Reconcile(d)
      BY <2>5
    <3>2. opcon' = opcon /\ ~On(Master) /\ ~On(Master)'
      BY <1>2, <3>1, StartJob DEF On, Reconcile, api
    <3>. QED  BY <2>2, <2>3, <3>2
  <2>6. CASE Work \/ Fault
    <3>1. job \in Jobs /\ job # Absent /\ WorkerFrame /\ Legal(job)
      BY <2>6, WorkKeeps DEF WorkerKeeps
    <3>2. CASE job.cr # Master
      <4>1. ~On(Master) /\ ~On(Master)'
        BY <3>1, <3>2 DEF On, WorkerFrame
      <4>2. CASE opcon' = opcon
        BY <2>2, <2>3, <4>1, <4>2
      <4>3. CASE UpdateOperandConfig
        <5>. PICK g \in CRs : g = job.cr
          BY <3>1 DEF Jobs
        <5>1. g \in Generals /\ job.pc = "update" /\ job.copy \in Specs
          BY <3>1, <4>3 DEF UpdateOperandConfig, At, Legal
        <5>2. spec'[g] # Absent /\ phase[g] \in Busy
          BY <1>0, <2>1, <3>1, <5>1, AbsentAssumption DEF GeneralInv
        <5>3. phase' = phase /\ On(g)'
          <6>1. GoTo("succeed") /\ "succeed" \in Steps
            BY <4>3 DEF UpdateOperandConfig, Steps
          <6>. QED  BY <3>1, <4>3, <6>1, GoToJob DEF UpdateOperandConfig, On
        <5>. QED  BY <5>1, <5>2, <5>3 DEF Interrupted
      <4>4. CASE HandleDelete /\ opcon # 0 /\ MasterRuns
        <5>. DEFINE G == {Master} \cup Generals
                    m == Max({Asks(cache[c], LargestSize(G)) : c \in Listed(G)})
        <5>1. \A n \in Clones : spec[n] = spec[Master]
          BY <2>1, <4>1, <4>4 DEF FollowInv
        <5>2. LargestSize(CRs) = LargestSize(G)
          BY <2>1, <5>1, SameLargest
        <5>3. opcon = Asks(cache[Master], LargestSize(G))
          BY <1>0, <2>1, <2>3, <4>1, <4>4, <5>2 DEF Installed
        <5>4. m \in Counts /\ m >= opcon
          BY <5>3, UpdateCounts
        <5>5. opcon' = Min({opcon, m})
          BY <4>4 DEF HandleDelete
        <5>6. m \in Nat /\ opcon \in Nat
          <6>. HIDE DEF m
          <6>. QED  BY <4>4, <5>4, CountsFinite DEF TypeOK, Counts
        <5>7. opcon' = opcon
          <6>. HIDE DEF m
          <6>. QED  BY <5>4, <5>5, <5>6, MinOfTwo
        <5>. QED  BY <5>7, <4>2
      <4>5. CASE HandleDelete /\ opcon = 0
        BY <4>2, <4>5 DEF HandleDelete, api
      <4>6. CASE ~MasterRuns
        BY <2>2, <4>1, <4>6
      <4>7. CASE ~UpdateOperandConfig /\ ~HandleDelete
        <5>1. ~InstallOrUpdateOpcon
          BY <3>1, <3>2 DEF InstallOrUpdateOpcon, At, Legal
        <5>2. opcon' = opcon
          BY <2>6, <4>7, <5>1 DEF Work, Pause, CheckClusterType, BeginPhase, UpdateConfigs, Propagated,
             Succeed, GetOpcon, PropagateDefaultCR, Fault, Refused, SetPhase, api
        <5>. QED  BY <4>2, <5>2
      <4>. QED  BY <4>3, <4>4, <4>5, <4>6, <4>7
    <3>3. CASE job.cr = Master
      <4>1. Working(Master)
        <5>1. ~Due(Master) /\ spec[Master] # Absent /\ On(Master)
          BY <2>1, <3>1, <3>3 DEF MasterDue, RoleInv, On
        <5>. QED  BY <1>0, <5>1 DEF PhaseInv
      <4>2. ~Conflict /\ ~Retry
        <5>1. Master \notin queue'
          BY DEF MasterDue, Due
        <5>. QED  BY <3>3, <4>1, <5>1 DEF Working, Conflict, Retry
      <4>3. CASE InstallOrUpdateOpcon
        <5>1. opcon' = Asks(spec[Master], LargestSize(CRs))
          BY <2>1, <4>1, <4>3 DEF InstallOrUpdateOpcon, Working
        <5>. QED  BY <1>0, <2>1, <5>1 DEF Installed
      <4>4. ASSUME ~InstallOrUpdateOpcon PROVE opcon' = opcon
        <5>1. ~UpdateOperandConfig /\ ~HandleDelete
          BY <1>0, <3>1, <3>3 DEF UpdateOperandConfig, HandleDelete, At, Legal
        <5>. QED
          BY <2>6, <4>4, <5>1 DEF Work, Pause, CheckClusterType, BeginPhase, UpdateConfigs, Propagated,
             Succeed, GetOpcon, PropagateDefaultCR, Fault, Refused, SetPhase, api
      <4>5. CASE job.pc \in {"configs", "propagate", "succeed"}
        <5>1. opcon' = opcon /\ Installed
          BY <2>3, <3>1, <3>3, <4>4, <4>5 DEF On, InstallOrUpdateOpcon, At
        <5>. QED  BY <2>2, <5>1
      <4>6. CASE Pause
        <5>1. spec[Master].paused /\ job' = Absent
          BY <1>0, <4>1, <4>2, <4>6 DEF Pause, At, Working, Refused, Done
        <5>. QED  BY <2>2, <5>1 DEF On, MasterRuns
      <4>7. CASE CheckClusterType
        <5>1. GoTo("phase") \/ (~typeOk /\ job' = Absent)
          BY <4>2, <4>7 DEF CheckClusterType, Done
        <5>2. CASE GoTo("phase")
          <6>1. job' # Absent /\ job'.cr = Master /\ job'.pc = "phase"
            BY <3>1, <3>3, <5>2, GoToJob DEF Steps
          <6>. QED  BY <6>1 DEF On
        <5>3. CASE ~typeOk /\ job' = Absent
          BY <2>2, <5>3 DEF On, MasterRuns
        <5>. QED  BY <5>1, <5>2, <5>3
      <4>8. CASE BeginPhase
        <5>1. GoTo("install")
          BY <3>3, <4>2, <4>8, NamesAssumption DEF BeginPhase, Refused
        <5>2. job' # Absent /\ job'.cr = Master /\ job'.pc = "install"
          BY <3>1, <3>3, <5>1, GoToJob DEF Steps
        <5>. QED  BY <5>2 DEF On
      <4>9. CASE GetOpcon \/ UpdateOperandConfig \/ HandleDelete
        BY <1>0, <3>1, <3>3, <4>9 DEF GetOpcon, UpdateOperandConfig, HandleDelete, At, Legal
      <4>10. CASE Fault
        BY <4>2, <4>10 DEF Fault
      <4>. QED
        BY <2>6, <4>3, <4>5, <4>6, <4>7, <4>8, <4>9, <4>10
           DEF Work, UpdateConfigs, Propagated, Succeed, PropagateDefaultCR, At
    <3>. QED  BY <3>2, <3>3
  <2>. QED
    BY <2>4, <2>5, <2>6 DEF Next, Edit, Delete, Deliver, EditClusterType, vars
<1>. QED  BY <1>1, <1>2

\* What holds whenever nothing is due.
LEMMA RestInvariance == Spec => []RestInv
<1>1. TypeOK /\ RoleInv /\ RestInv /\ [Next]_vars => RestInv'
  BY NextCache, NextPhase, NextFollow, NextGeneral, NextSize DEF RestInv
<1>. QED  BY <1>1, TypeInvariance, InitRest, PTL DEF Spec

\* At rest nothing is due and nothing is in work.
LEMMA QuietIsRest ==
    ASSUME TypeOK, RoleInv, RestInv, Quiet
    PROVE  /\ ~MasterDue /\ ~Interrupted /\ job = Absent
           /\ \A c \in CRs : ~Due(c) /\ ~On(c) /\ cache[c] = spec[c]
BY DEF Quiet, MasterDue, Interrupted, Due, On, RestInv, CacheInv, CRs

\* At rest, every CR that is neither paused nor of the wrong cluster type has
\* Succeeded, and a clone always has.
THEOREM EveryCRSettles == Spec => []SettledPhase
<1>1. TypeOK /\ RoleInv /\ RestInv => SettledPhase
  <2>. SUFFICES ASSUME TypeOK, RoleInv, RestInv, Quiet, MasterRuns, NEW c \in Existing(CRs)
                PROVE  phase[c] = IF c \in Generals /\ spec[c].paused THEN "Pending" ELSE "Succeeded"
    BY DEF SettledPhase
  <2>1. phase[c] = RestPhase(c)
    BY QuietIsRest DEF RestInv, PhaseInv, Existing
  <2>2. c \notin Clones /\ spec[c].paused <=> c \in Generals /\ spec[c].paused
    BY NamesAssumption DEF MasterRuns, Existing, CRs
  <2>. QED  BY <2>1, <2>2 DEF RestPhase, MasterRuns
<1>. QED  BY <1>1, TypeInvariance, RestInvariance, PTL

\* At rest every clone is there and is a copy of the master, whatever users did to
\* master and clones between the reads and the writes of PropagateDefaultCR.
THEOREM ClonesAreCopies == Spec => []ClonesFollow
<1>1. TypeOK /\ RoleInv /\ RestInv => ClonesFollow
  BY QuietIsRest DEF RestInv, FollowInv, ClonesFollow, CRs
<1>. QED  BY <1>1, TypeInvariance, RestInvariance, PTL

\* At rest the OperandConfig is sized by the specs on the server, although the
\* master and the general flow write it from different inputs, from caches with
\* outdated clones, and handleDelete lowers it without an event.
THEOREM RestSize == Spec => []QuiescentSize
<1>1. TypeOK /\ RoleInv /\ RestInv => QuiescentSize
  <2>. SUFFICES ASSUME TypeOK, RoleInv, RestInv, Quiet, crds, MasterRuns
                PROVE  /\ opcon >= Asks(spec[Master], LargestProfile)
                       /\ \E c \in Existing({Master} \cup Generals) :
                             opcon = Asks(spec[c], LargestProfile)
    BY DEF QuiescentSize
  <2>1. ~MasterDue /\ ~Interrupted /\ ~On(Master) /\ \A c \in CRs : cache[c] = spec[c]
    BY QuietIsRest DEF On
  <2>2. Installed /\ \A n \in Clones : spec[n] = spec[Master]
    BY <2>1 DEF RestInv, SizeInv, FollowInv
  <2>3. opcon = Asks(spec[Master], LargestProfile)
    BY <2>1, <2>2, SameLargest DEF Installed
  <2>4. opcon \in Int
    <3>1. opcon \in {0} \cup 1 .. MaxSize \cup OwnCounts
      BY DEF TypeOK, Sizes
    <3>2. OwnCounts \subseteq Nat
      BY CountsAssumption
    <3>. QED  BY <3>1, <3>2
  <2>5. Master \in Existing({Master} \cup Generals)
    BY DEF RoleInv, Existing
  <2>. QED  BY <2>3, <2>4, <2>5
<1>. QED  BY <1>1, TypeInvariance, RestInvariance, PTL
=============================================================================
