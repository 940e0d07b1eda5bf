------------------------ MODULE EventRegistrarProofs ------------------------
(***************************************************************************)
(* Two facts about the registrar.  Programs whose callbacks hold at most    *)
(* the object they were given to (the shared_from_this idiom of the         *)
(* programs under test/canary) never meet the deadlock: the closure that    *)
(* give destroys belongs to an object that is dead, so it holds nothing.    *)
(* And whatever callbacks hold, each event is in the registrar once from    *)
(* its take to its give, and close leaves nothing for its clear to destroy. *)
(***************************************************************************)
EXTENDS EventRegistrar, FiniteSetTheorems, TLAPS

SelfOnly == \A x \in Object : Captures[x] \subseteq {x}

Locked == {"erase", "unlock"}

Typed ==
    /\ \A i \in DOMAIN register : register[i] \in Entry
    /\ captured \in [Object -> Object \cup {None}]
    /\ life \in [Object -> {"unborn", "alive", "dead"}]
    /\ dying \in [Thread -> Object \cup {None}]
    /\ queued \subseteq Object
    /\ giving \in [Strand -> {None} \cup Giving]

\* A closure holds its own object, which is then alive.
HoldsItself == \A x \in Object : captured[x] # None => captured[x] = x /\ life[x] = "alive"

\* Final events are those of dead objects.
FinalsOfTheDead ==
    /\ \A x \in queued : life[x] = "dead"
    /\ \A t \in Thread : dying[t] # None => life[dying[t]] = "dead"
    /\ \A s \in Strand : giving[s] # None => life[giving[s].object] = "dead"

\* Only a strand inside give holds the mutex, and it runs no destructor there.
MutexInGive ==
    /\ mutex # None => /\ mutex \in Strand
                       /\ giving[mutex] # None /\ giving[mutex].step \in Locked
    /\ \A s \in Strand : giving[s] # None /\ giving[s].step \in Locked =>
                             mutex = s /\ dying[s] = None

Inv == Typed /\ HoldsItself /\ FinalsOfTheDead /\ MutexInGive

LEMMA InvInit == Init => Inv
BY RegistrarAssumption
DEF Init, Inv, Typed, HoldsItself, FinalsOfTheDead, MutexInGive

LEMMA InvStep == ASSUME SelfOnly PROVE Inv /\ [Next]_vars => Inv'
<1> SUFFICES ASSUME Inv, [Next]_vars PROVE Inv'
    OBVIOUS
<1> USE RegistrarAssumption
    DEF Inv, Typed, HoldsItself, FinalsOfTheDead, MutexInGive, Locked, service, Thread,
        Giving, Entry
<1>1. ASSUME NEW x \in Object, Construct(x) PROVE Inv'
    BY <1>1 DEF Construct, Take, Taken
<1>2. ASSUME NEW x \in Object, StartOperation(x) PROVE Inv'
    BY <1>2, SelfOnly DEF StartOperation, SelfOnly
<1>3. ASSUME NEW t \in Thread, NEW x \in Object, Drop(t, x) PROVE Inv'
    BY <1>3 DEF Drop, Idle
<1>4. ASSUME NEW t \in Thread, Dispose(t) PROVE Inv'
    BY <1>4 DEF Dispose, Take, Taken
<1>5. ASSUME NEW s \in Strand, NEW x \in Object, Complete(s, x) PROVE Inv'
    BY <1>5 DEF Complete, Release, Idle
<1>6. ASSUME NEW s \in Strand, GiveLock(s) PROVE Inv'
    <2>1. PICK x \in queued : giving' = [giving EXCEPT ![s] = [object |-> x, step |-> "erase"]]
        BY <1>6 DEF GiveLock
    <2>2. /\ mutex = None /\ mutex' = s /\ dying[s] = None /\ queued' \subseteq queued
          /\ UNCHANGED <<captured, life, dying>>
        BY <1>6 DEF GiveLock, Idle
    <2>3. /\ giving'[s] = [object |-> x, step |-> "erase"]
          /\ \A o \in Strand \ {s} : giving'[o] = giving[o]
          /\ [object |-> x, step |-> "erase"] # None
        BY <2>1
    <2>4. Typed' /\ HoldsItself'
        BY <2>1, <2>2, <2>3, <1>6 DEF GiveLock
    <2>5. FinalsOfTheDead'
        BY <2>1, <2>2, <2>3
    <2>6. MutexInGive'
        BY <2>1, <2>2, <2>3
    <2>7. QED
        BY <2>4, <2>5, <2>6
<1>7. ASSUME NEW s \in Strand, GiveErase(s) PROVE Inv'
    <2> DEFINE x == giving[s].object
    <2>1. /\ x \in Object /\ life[x] = "dead" /\ captured[x] = None
          /\ mutex = s /\ giving[s] # None
        BY <1>7 DEF GiveErase
    <2>2. /\ captured' = [captured EXCEPT ![x] = None] /\ life' = life
          /\ dying' = [dying EXCEPT ![s] = None]
        BY <1>7, <2>1 DEF GiveErase, Release
    <2>3. /\ giving' = [giving EXCEPT ![s].step = "unlock"]
          /\ UNCHANGED <<mutex, queued>>
          /\ \A i \in DOMAIN register' : register'[i] \in Entry
        BY <1>7 DEF GiveErase, Erased
    <2>4. /\ giving'[s] = [object |-> x, step |-> "unlock"]
          /\ \A o \in Strand \ {s} : giving'[o] = giving[o]
        BY <2>1, <2>3
    <2> HIDE DEF x
    <2>5. Typed' /\ HoldsItself'
        BY <2>1, <2>2, <2>3, <2>4
    <2>6. FinalsOfTheDead' /\ MutexInGive'
        BY <2>1, <2>2, <2>3, <2>4
    <2>7. QED
        BY <2>5, <2>6
<1>8. ASSUME NEW s \in Strand, GiveUnlock(s) PROVE Inv'
    BY <1>8 DEF GiveUnlock
<1>9. ASSUME NEW s \in Strand, GiveFinal(s) PROVE Inv'
    BY <1>9 DEF GiveFinal, Erased
<1>10. CASE CloseBegin
    BY <1>10 DEF CloseBegin, CloseDoesNotLock
<1>11. CASE CloseReset
    <2>1. UNCHANGED <<register, mutex, queued, giving>>
        BY <1>11 DEF CloseReset
    <2>2. CASE UNCHANGED <<captured, dying, life>>
        BY <2>1, <2>2
    <2>3. CASE \E x \in Object : Release(Main, x, held)
        BY <2>1, <2>3 DEF Release
    <2>4. \/ UNCHANGED <<captured, dying, life>>
          \/ \E i \in DOMAIN register : Release(Main, register[i].object, held)
        BY <1>11 DEF CloseReset, Unvisited
    <2>5. QED
        BY <2>2, <2>3, <2>4
<1>12. CASE CloseClear
    BY <1>12 DEF CloseClear
<1>13. CASE UNCHANGED vars
    BY <1>13 DEF vars
<1>14. QED
    BY <1>1, <1>2, <1>3, <1>4, <1>5, <1>6, <1>7, <1>8, <1>9, <1>10, <1>11, <1>12, <1>13
    DEF Next, Program, Give, Close

\* When callbacks capture at most their own object, no destructor ever asks for
\* the registrar's mutex on the thread that holds it.
THEOREM SelfCapturesAreSafe == ASSUME SelfOnly PROVE Spec => []NoSelfDeadlock
<1>1. Inv => NoSelfDeadlock
    BY RegistrarAssumption DEF Inv, MutexInGive, NoSelfDeadlock, Thread
<1>2. Inv /\ [Next]_vars => Inv'
    BY SelfOnly, InvStep
<1>3. QED
    BY <1>1, <1>2, InvInit, PTL DEF Spec
-----------------------------------------------------------------------------
(* Each event in the registrar once, whatever the callbacks capture.        *)

Own(x) == [object |-> x, final |-> FALSE]
Final(x) == [object |-> x, final |-> TRUE]

\* The objects whose own event, and those whose final event, is in the registrar.
First == {x \in Object : \E i \in DOMAIN register : register[i] = Own(x)}
Second == {x \in Object : \E i \in DOMAIN register : register[i] = Final(x)}
\* The objects whose own event close() has still to reset.
Ahead == {x \in Object : \E i \in DOMAIN register : i >= cursor /\ register[i] = Own(x)}

\* Ids are given out once.
Numbered ==
    /\ nextId \in Nat /\ cursor \in Nat
    /\ \A i \in DOMAIN register : i \in Nat /\ i < nextId /\ register[i] \in Entry
    /\ \A i, j \in DOMAIN register : register[i] = register[j] => i = j

\* What is referred to is alive, and the other way round.
Referenced ==
    /\ held \subseteq Object
    /\ \A x \in held : life[x] = "alive"
    /\ \A x \in Object : captured[x] # None => life[captured[x]] = "alive"
    /\ \A x \in Object : life[x] = "alive" => x \in held \/ \E z \in Object : captured[z] = x

\* Which events of an object there are, by how far its end has come.
Stages ==
    /\ \A x \in Object : life[x] = "unborn" => x \notin First /\ x \notin Second
    /\ \A x \in Object : life[x] = "alive" => x \in First /\ x \notin Second
    /\ \A t \in Thread : dying[t] # None =>
          life[dying[t]] = "dead" /\ dying[t] \in First /\ dying[t] \notin Second
    /\ \A x \in queued : life[x] = "dead" /\ x \in First /\ x \in Second
    /\ \A s \in Strand : giving[s] # None =>
          /\ life[giving[s].object] = "dead" /\ giving[s].object \in Second
          /\ giving[s].step = "erase" <=> giving[s].object \in First

\* One destructor and one give for an object; a strand in give runs a destructor
\* only while it erases.
Single ==
    /\ \A t, u \in Thread : dying[t] # None /\ dying[t] = dying[u] => t = u
    /\ \A s, u \in Strand :
          giving[s] # None /\ giving[u] # None /\ giving[s].object = giving[u].object => s = u
    /\ \A s \in Strand : giving[s] # None =>
          giving[s].object \notin queued /\ (giving[s].step # "unlock" => dying[s] = None)

Closing ==
    /\ phase \in {"open", "closing", "closed"}
    /\ phase = "open" => cursor = 0
    /\ phase # "open" =>
          /\ held = {}
          /\ \A s \in Strand : giving[s] = None /\ dying[s] = None
    /\ phase = "closed" => NothingLeftToClear /\ dying[Main] = None

\* A closure that holds something is in an event that close() will reach.
Reachable == \A x \in Object : captured[x] # None => x \in Ahead

OnceInv ==
    /\ Typed /\ Numbered /\ Referenced /\ Single /\ Closing
    /\ phase # "closed" => Stages /\ Reachable

LEMMA EntriesDiffer ==
    /\ \A x, y \in Object : Own(x) # Final(y)
    /\ \A x, y \in Object : Own(x) = Own(y) => x = y
    /\ \A x, y \in Object : Final(x) = Final(y) => x = y
    /\ \A x \in Object : Own(x) \in Entry /\ Final(x) \in Entry
    /\ \A e \in Entry : e.object \in Object /\ (e.final => e = Final(e.object))
                        /\ (~e.final => e = Own(e.object))
<1>1. /\ \A x : Own(x).object = x /\ Own(x).final = FALSE
      /\ \A x : Final(x).object = x /\ Final(x).final = TRUE
    BY DEF Own, Final
<1>2. \A x \in Object : Own(x) \in Entry /\ Final(x) \in Entry
    BY DEF Own, Final, Entry
<1>3. \A e \in Entry : e.object \in Object /\ (e.final => e = Final(e.object))
                       /\ (~e.final => e = Own(e.object))
    BY DEF Own, Final, Entry
<1>4. QED
    BY <1>1, <1>2, <1>3

\* take adds the one event, under an id that nobody has.
LEMMA TakeAdds ==
    ASSUME Numbered, NEW e \in Entry, Take(e), cursor' = cursor,
           \A i \in DOMAIN register : register[i] # e
    PROVE  /\ Numbered'
           /\ \A x \in Object : e = Own(x) => First' = First \cup {x} /\ Second' = Second
           /\ \A x \in Object : e = Final(x) => First' = First /\ Second' = Second \cup {x}
           /\ Ahead \subseteq Ahead'
<1>1. /\ DOMAIN register' = DOMAIN register \cup {nextId} /\ nextId' = nextId + 1
      /\ register'[nextId] = e
      /\ \A i \in DOMAIN register : register'[i] = register[i] /\ i # nextId
    BY DEF Take, Taken, Numbered
<1>2. Numbered'
    BY <1>1 DEF Numbered
<1>3. \A x \in Object : x \in First' <=> x \in First \/ Own(x) = e
    BY <1>1 DEF First
<1>4. \A x \in Object : x \in Second' <=> x \in Second \/ Final(x) = e
    BY <1>1 DEF Second
<1>5. First \subseteq Object /\ First' \subseteq Object
    BY DEF First
<1>6. Second \subseteq Object /\ Second' \subseteq Object
    BY DEF Second
<1>7. Ahead \subseteq Ahead'
    BY <1>1 DEF Ahead
<1>8. ASSUME NEW x \in Object, e = Own(x) PROVE First' = First \cup {x} /\ Second' = Second
    <2>1. \A z \in Object : (Own(z) = e <=> z = x) /\ Final(z) # e
        BY <1>8, EntriesDiffer
    <2>2. QED
        BY <1>3, <1>4, <1>5, <1>6, <2>1
<1>9. ASSUME NEW x \in Object, e = Final(x) PROVE First' = First /\ Second' = Second \cup {x}
    <2>1. \A z \in Object : (Final(z) = e <=> z = x) /\ Own(z) # e
        BY <1>9, EntriesDiffer
    <2>2. QED
        BY <1>3, <1>4, <1>5, <1>6, <2>1
<1>10. QED
    BY <1>2, <1>7, <1>8, <1>9

\* give erases the one event.
LEMMA EraseRemoves ==
    ASSUME Numbered, NEW e \in Entry, register' = Erased(e), UNCHANGED <<nextId, cursor>>,
           \E i \in DOMAIN register : register[i] = e
    PROVE  /\ Numbered'
           /\ \A x \in Object : e = Own(x) =>
                 First' = First \ {x} /\ Second' = Second /\ Ahead \ {x} \subseteq Ahead'
           /\ \A x \in Object : e = Final(x) =>
                 First' = First /\ Second' = Second \ {x} /\ Ahead \subseteq Ahead'
<1>1. IdOf(e) \in DOMAIN register /\ register[IdOf(e)] = e
    BY DEF IdOf
<1>2. /\ DOMAIN register' = DOMAIN register \ {IdOf(e)}
      /\ \A i \in DOMAIN register' : register'[i] = register[i]
    BY DEF Erased
<1>3. \A i \in DOMAIN register : i \in DOMAIN register' <=> register[i] # e
    BY <1>1, <1>2 DEF Numbered
<1>4. Numbered'
    BY <1>2 DEF Numbered
<1>5. \A x \in Object : x \in First' <=> x \in First /\ Own(x) # e
    BY <1>2, <1>3 DEF First
<1>6. \A x \in Object : x \in Second' <=> x \in Second /\ Final(x) # e
    BY <1>2, <1>3 DEF Second
<1>7. \A x \in Object : x \in Ahead /\ Own(x) # e => x \in Ahead'
    BY <1>2, <1>3 DEF Ahead
<1>8. /\ First \subseteq Object /\ First' \subseteq Object /\ Second \subseteq Object
      /\ Second' \subseteq Object /\ Ahead \subseteq Object
    BY DEF First, Second, Ahead
<1>9. ASSUME NEW x \in Object, e = Own(x)
      PROVE  First' = First \ {x} /\ Second' = Second /\ Ahead \ {x} \subseteq Ahead'
    <2>1. \A z \in Object : (Own(z) = e <=> z = x) /\ Final(z) # e
        BY <1>9, EntriesDiffer
    <2>2. QED
        BY <1>5, <1>6, <1>7, <1>8, <2>1
<1>10. ASSUME NEW x \in Object, e = Final(x)
       PROVE  First' = First /\ Second' = Second \ {x} /\ Ahead \subseteq Ahead'
    <2>1. \A z \in Object : (Final(z) = e <=> z = x) /\ Own(z) # e
        BY <1>10, EntriesDiffer
    <2>2. QED
        BY <1>5, <1>6, <1>7, <1>8, <2>1
<1>11. QED
    BY <1>4, <1>9, <1>10

\* The destructor of y starts on t.
Dies(t, y) ==
    /\ life[y] = "alive" /\ life' = [life EXCEPT ![y] = "dead"]
    /\ dying' = [dying EXCEPT ![t] = y]

\* Letting go of a closure either leaves every object alive or starts one destructor.
LEMMA ReleaseKills ==
    ASSUME Typed, Referenced, NEW t \in Thread, dying[t] = None, NEW x \in Object,
           Release(t, x, held), held' = held
    PROVE  /\ Referenced' /\ captured' = [captured EXCEPT ![x] = None]
           /\ \/ UNCHANGED <<life, dying>>
              \/ \E y \in Object : Dies(t, y)
<1> DEFINE y == captured[x]
           last == y # None /\ y \notin held /\ \A z \in Object \ {x} : captured[z] # y
<1>1. /\ captured' = [captured EXCEPT ![x] = None]
      /\ dying' = [dying EXCEPT ![t] = IF last THEN y ELSE None]
      /\ life' = IF last THEN [life EXCEPT ![y] = "dead"] ELSE life
    BY DEF Release
<1>2. y # None => y \in Object /\ life[y] = "alive"
    BY DEF Typed, Referenced
<1>3. CASE last
    <2>1. Dies(t, y)
        BY <1>1, <1>2, <1>3 DEF Dies
    <2>2. Referenced'
        BY <1>1, <1>2, <1>3, RegistrarAssumption DEF Referenced, Typed
    <2>3. QED
        BY <1>1, <1>2, <1>3, <2>1, <2>2
<1>4. CASE ~last
    <2>1. UNCHANGED <<life, dying>>
        BY <1>1, <1>4 DEF Typed
    <2>2. Referenced'
        BY <1>1, <1>2, <1>4, <2>1, RegistrarAssumption DEF Referenced, Typed
    <2>3. QED
        BY <1>1, <2>1, <2>2
<1>5. QED
    BY <1>3, <1>4

\* A destructor that starts leaves the events where they are.
LEMMA DiesKeepsStages ==
    ASSUME Typed, Stages, Single, NEW t \in Thread, dying[t] = None, NEW y \in Object,
           Dies(t, y), UNCHANGED <<First, Second, queued, giving>>,
           t \in Strand => giving[t] = None
    PROVE  Stages' /\ Single'
<1>1. /\ \A x \in Object : life'[x] = IF x = y THEN "dead" ELSE life[x]
      /\ \A u \in Thread : dying'[u] = IF u = t THEN y ELSE dying[u]
      /\ y # None
    BY RegistrarAssumption DEF Dies, Typed
<1>2. /\ \A u \in Thread : dying[u] # y
      /\ y \notin queued /\ \A s \in Strand : giving[s] # None => giving[s].object # y
    BY <1>1 DEF Stages, Dies
<1>3. Strand \subseteq Thread
    BY DEF Thread
<1>4. \A s \in Strand : giving[s] # None => giving[s].object \in Object
    BY DEF Typed, Giving
<1>5. Stages'
    <2>1. y \in First /\ y \notin Second
        BY DEF Stages, Dies
    <2>2. \A u \in Thread : dying[u] # None => dying[u] \in Object
        BY DEF Typed
    <2>3. queued \subseteq Object
        BY DEF Typed
    <2>4. QED
        BY <1>1, <1>2, <1>4, <2>1, <2>2, <2>3 DEF Stages
<1>6. Single'
    BY <1>1, <1>2, <1>3 DEF Single
<1>7. QED
    BY <1>5, <1>6

LEMMA OnceInit == Init => OnceInv
<1> SUFFICES ASSUME Init PROVE OnceInv
    OBVIOUS
<1>1. Typed
    BY InvInit DEF Inv
<1>2. DOMAIN register = {}
    BY DEF Init
<1>3. First = {} /\ Second = {}
    BY <1>2 DEF First, Second
<1>4. Numbered
    BY <1>2 DEF Init, Numbered
<1>5. Referenced /\ Single /\ Closing
    BY DEF Init, Referenced, Single, Closing, Thread
<1>6. Stages /\ Reachable
    BY <1>3 DEF Init, Stages, Reachable
<1>7. QED
    BY <1>1, <1>4, <1>5, <1>6 DEF OnceInv

\* The program's calls.
LEMMA ConstructKeeps == ASSUME OnceInv, NEW x \in Object, Construct(x) PROVE OnceInv'
<1>1. /\ phase = "open" /\ phase' = "open" /\ life[x] = "unborn"
      /\ Take([object |-> x, final |-> FALSE]) /\ life' = [life EXCEPT ![x] = "alive"]
      /\ held' = held \cup {x}
      /\ UNCHANGED <<mutex, captured, dying, queued, giving, cursor>>
    BY DEF Construct, service
<1>2. x \notin First /\ x \notin Second /\ Stages /\ Reachable
    BY <1>1 DEF OnceInv, Stages
<1>3. Own(x) \in Entry /\ Take(Own(x)) /\ \A i \in DOMAIN register : register[i] # Own(x)
    BY <1>1, <1>2, EntriesDiffer DEF Own, First
<1>4. /\ Numbered' /\ First' = First \cup {x} /\ Second' = Second /\ Ahead \subseteq Ahead'
    BY <1>1, <1>3, TakeAdds DEF OnceInv
<1>5. Typed'
    <2>1. \A i \in DOMAIN register' : register'[i] \in Entry
        BY <1>4 DEF Numbered
    <2>2. QED
        BY <1>1, <2>1 DEF Typed, OnceInv
<1>6. \A z \in Object : life'[z] = IF z = x THEN "alive" ELSE life[z]
    BY <1>1 DEF OnceInv, Typed
<1>7. Referenced'
    BY <1>1, <1>6 DEF Referenced, OnceInv, Typed
<1>8. Stages'
    <2>1. /\ \A u \in Thread : dying[u] # None => dying[u] \in Object
          /\ queued \subseteq Object
          /\ \A s \in Strand : giving[s] # None => giving[s].object \in Object
        BY DEF OnceInv, Typed, Giving
    <2>2. QED
        BY <1>1, <1>2, <1>4, <1>6, <2>1 DEF Stages
<1>9. Single' /\ Closing' /\ Reachable'
    BY <1>1, <1>2, <1>4 DEF OnceInv, Single, Closing, Reachable
<1>10. QED
    BY <1>4, <1>5, <1>7, <1>8, <1>9 DEF OnceInv

LEMMA StartKeeps == ASSUME OnceInv, NEW x \in Object, StartOperation(x) PROVE OnceInv'
<1>1. PICK y \in Captures[x] : life[y] = "alive" /\ captured' = [captured EXCEPT ![x] = y]
    BY DEF StartOperation
<1>2. /\ phase = "open" /\ x \in held /\ captured[x] = None /\ y \in Object /\ cursor = 0
      /\ UNCHANGED <<register, nextId, mutex, held, life, dying, queued, giving, phase, cursor>>
    BY <1>1, RegistrarAssumption DEF StartOperation, service, OnceInv, Closing
<1>3. First' = First /\ Second' = Second /\ Ahead' = Ahead
    BY <1>2 DEF First, Second, Ahead
<1>4. x \in Ahead
    <2>1. x \in First
        BY <1>2 DEF OnceInv, Referenced, Stages
    <2>2. QED
        BY <1>2, <2>1 DEF First, Ahead, OnceInv, Numbered
<1>5. Typed' /\ Numbered'
    BY <1>1, <1>2 DEF OnceInv, Typed, Numbered
<1>6. Referenced' /\ Reachable'
    <2>1. \A z \in Object : captured'[z] = IF z = x THEN y ELSE captured[z]
        BY <1>1 DEF OnceInv, Typed
    <2>2. Referenced'
        BY <1>1, <1>2, <2>1, RegistrarAssumption DEF OnceInv, Referenced
    <2>3. Reachable'
        BY <1>2, <1>3, <1>4, <2>1 DEF OnceInv, Reachable
    <2>4. QED
        BY <2>2, <2>3
<1>7. Single' /\ Closing' /\ Stages'
    BY <1>2, <1>3 DEF OnceInv, Single, Closing, Stages
<1>8. QED
    BY <1>5, <1>6, <1>7 DEF OnceInv

LEMMA DropKeeps == ASSUME OnceInv, NEW t \in Thread, NEW x \in Object, Drop(t, x) PROVE OnceInv'
<1>1. /\ phase = "open" /\ phase' = "open" /\ Idle(t) /\ x \in held /\ held' = held \ {x}
      /\ UNCHANGED <<register, nextId, mutex, captured, queued, giving, cursor>>
    BY DEF Drop, service
<1>2. First' = First /\ Second' = Second /\ Ahead' = Ahead
    BY <1>1 DEF First, Second, Ahead
<1>3. Numbered' /\ Closing' /\ Reachable'
    BY <1>1, <1>2 DEF OnceInv, Numbered, Closing, Reachable
<1>4. CASE \E z \in Object : captured[z] = x
    <2>1. UNCHANGED <<life, dying>>
        BY <1>4 DEF Drop
    <2>2. QED
        BY <1>1, <1>2, <1>3, <1>4, <2>1 DEF OnceInv, Typed, Referenced, Single, Stages
<1>5. CASE ~ \E z \in Object : captured[z] = x
    <2>1. Dies(t, x)
        BY <1>1, <1>5 DEF Drop, Dies, OnceInv, Referenced
    <2>2. Stages' /\ Single'
        BY <1>1, <1>2, <2>1, DiesKeepsStages DEF OnceInv, Idle
    <2>3. Typed' /\ Referenced'
        BY <1>1, <1>5, <2>1 DEF OnceInv, Typed, Referenced, Dies
    <2>4. QED
        BY <1>1, <1>3, <2>2, <2>3 DEF OnceInv
<1>6. QED
    BY <1>4, <1>5

\* The final event of a dying object is its first.
LEMMA DisposeKeeps == ASSUME OnceInv, NEW t \in Thread, Dispose(t) PROVE OnceInv'
<1> DEFINE x == dying[t]
<1>1. /\ x # None /\ Take(Final(x)) /\ queued' = queued \cup {x}
      /\ dying' = [dying EXCEPT ![t] = None]
      /\ UNCHANGED <<mutex, captured, held, life, giving, phase, cursor>>
    BY DEF Dispose, service, Final
<1>2. /\ x \in Object /\ phase # "closed" /\ life[x] = "dead" /\ x \in First /\ x \notin Second
      /\ Stages /\ Reachable
    BY <1>1 DEF OnceInv, Typed, Closing, Stages, Thread
<1> HIDE DEF x
<1>3. Final(x) \in Entry /\ \A i \in DOMAIN register : register[i] # Final(x)
    BY <1>2, EntriesDiffer DEF Second
<1>4. /\ Numbered' /\ First' = First /\ Second' = Second \cup {x} /\ Ahead \subseteq Ahead'
    BY <1>1, <1>2, <1>3, TakeAdds DEF OnceInv
<1>5. Typed'
    <2>1. \A i \in DOMAIN register' : register'[i] \in Entry
        BY <1>4 DEF Numbered
    <2>2. QED
        BY <1>1, <1>2, <2>1 DEF Typed, OnceInv
<1>6. \A u \in Thread : dying'[u] = IF u = t THEN None ELSE dying[u]
    BY <1>1 DEF OnceInv, Typed
<1>7. Referenced' /\ Closing' /\ Reachable'
    BY <1>1, <1>2, <1>4, <1>6
    DEF OnceInv, Referenced, Closing, Reachable, Thread, NothingLeftToClear
<1>8. \A u \in Thread \ {t} : dying[u] # x
    BY <1>1 DEF x, OnceInv, Single
<1>9. \A s \in Strand : giving[s] # None => giving[s].object # x
    BY <1>2 DEF Stages
<1>10. Stages'
    BY <1>1, <1>2, <1>4, <1>6, <1>8 DEF Stages
<1>11. Single'
    BY <1>1, <1>6, <1>9 DEF OnceInv, Single, Thread
<1>12. QED
    BY <1>4, <1>5, <1>7, <1>10, <1>11 DEF OnceInv

\* A strand releases the closure of an operation that has completed.
LEMMA CompleteKeeps ==
    ASSUME OnceInv, NEW s \in Strand, NEW x \in Object, Complete(s, x)
    PROVE  OnceInv'
<1>1. /\ phase = "open" /\ phase' = "open" /\ Idle(s) /\ s \in Thread
      /\ Release(s, x, held)
      /\ UNCHANGED <<register, nextId, mutex, held, queued, giving, cursor>>
    BY DEF Complete, service, Thread
<1>2. /\ Referenced' /\ captured' = [captured EXCEPT ![x] = None]
      /\ UNCHANGED <<life, dying>> \/ \E y \in Object : Dies(s, y)
    BY <1>1, ReleaseKills DEF OnceInv, Idle
<1>3. First' = First /\ Second' = Second /\ Ahead' = Ahead
    BY <1>1 DEF First, Second, Ahead
<1>4. Numbered' /\ Closing' /\ Reachable'
    BY <1>1, <1>2, <1>3 DEF OnceInv, Numbered, Closing, Reachable, Typed
<1>5. Stages' /\ Single'
    <2>1. CASE UNCHANGED <<life, dying>>
        BY <1>1, <1>3, <2>1 DEF OnceInv, Stages, Single
    <2>2. CASE \E y \in Object : Dies(s, y)
        BY <1>1, <1>3, <2>2, DiesKeepsStages DEF OnceInv, Idle
    <2>3. QED
        BY <1>2, <2>1, <2>2
<1>6. Typed'
    BY <1>1, <1>2 DEF OnceInv, Typed, Dies
<1>7. QED
    BY <1>2, <1>4, <1>5, <1>6 DEF OnceInv

LEMMA GiveLockKeeps == ASSUME OnceInv, NEW s \in Strand, GiveLock(s) PROVE OnceInv'
<1>1. PICK x \in queued : /\ queued' = queued \ {x}
                          /\ giving' = [giving EXCEPT ![s] = [object |-> x, step |-> "erase"]]
    BY DEF GiveLock
<1>2. /\ phase = "open" /\ Idle(s) /\ x \in Object
      /\ UNCHANGED <<register, nextId, captured, held, life, dying, phase, cursor>>
    BY DEF GiveLock, service, OnceInv, Typed
<1> DEFINE g == [object |-> x, step |-> "erase"]
<1>3. g.object = x /\ g.step = "erase" /\ g \in Giving /\ g # None
    BY <1>2, RegistrarAssumption DEF Giving
<1> HIDE DEF g
<1>4. \A u \in Strand : giving'[u] = IF u = s THEN g ELSE giving[u]
    BY <1>1 DEF g, OnceInv, Typed
<1>5. First' = First /\ Second' = Second /\ Ahead' = Ahead
    BY <1>2 DEF First, Second, Ahead
<1>6. Typed'
    BY <1>1, <1>2, <1>3 DEF g, OnceInv, Typed
<1>7. Numbered' /\ Referenced' /\ Closing' /\ Reachable'
    BY <1>2, <1>5 DEF OnceInv, Numbered, Referenced, Closing, Reachable
<1>8. Stages'
    BY <1>1, <1>2, <1>3, <1>4, <1>5 DEF OnceInv, Stages
<1>9. Single'
    BY <1>1, <1>2, <1>3, <1>4 DEF OnceInv, Single, Idle
<1>10. QED
    BY <1>6, <1>7, <1>8, <1>9 DEF OnceInv

\* The event of a dead object leaves; what its closure held may begin to die.
LEMMA GiveEraseKeeps == ASSUME OnceInv, NEW s \in Strand, GiveErase(s) PROVE OnceInv'
<1> DEFINE x == giving[s].object
<1>1. /\ giving[s] # None /\ giving[s].step = "erase" /\ register' = Erased(Own(x))
      /\ Release(s, x, held) /\ giving' = [giving EXCEPT ![s].step = "unlock"]
      /\ UNCHANGED <<nextId, mutex, held, queued, phase, cursor>>
    BY DEF GiveErase, service, Own
<1>2. /\ x \in Object /\ s \in Thread /\ phase = "open" /\ Stages /\ Reachable
    BY <1>1 DEF OnceInv, Typed, Giving, Closing, Thread
<1>3. /\ life[x] = "dead" /\ x \in First /\ x \in Second /\ dying[s] = None /\ x \notin queued
    BY <1>1, <1>2 DEF OnceInv, Stages, Single
<1>4. giving'[s].object = x /\ giving'[s].step = "unlock" /\ giving'[s] \in Giving
    BY <1>1, <1>2 DEF OnceInv, Typed, Giving
<1>5. \A u \in Strand \ {s} : giving'[u] = giving[u]
    BY <1>1 DEF OnceInv, Typed
<1> HIDE DEF x
<1>6. Own(x) \in Entry /\ \E i \in DOMAIN register : register[i] = Own(x)
    BY <1>2, <1>3, EntriesDiffer DEF First
<1>7. Numbered' /\ First' = First \ {x} /\ Second' = Second /\ Ahead \ {x} \subseteq Ahead'
    BY <1>1, <1>2, <1>6, EraseRemoves DEF OnceInv
<1>8. /\ Referenced' /\ captured' = [captured EXCEPT ![x] = None]
      /\ UNCHANGED <<life, dying>> \/ \E y \in Object : Dies(s, y)
    BY <1>1, <1>2, <1>3, ReleaseKills DEF OnceInv
<1>9. giving'[s] # None /\ giving' \in [Strand -> {None} \cup Giving]
    BY <1>1, <1>4, <1>5, RegistrarAssumption DEF OnceInv, Typed
<1>10. Typed'
    <2>1. \A i \in DOMAIN register' : register'[i] \in Entry
        BY <1>7 DEF Numbered
    <2>2. QED
        BY <1>1, <1>8, <1>9, <2>1 DEF OnceInv, Typed, Dies
<1>11. Closing' /\ Reachable'
    BY <1>1, <1>2, <1>7, <1>8 DEF OnceInv, Closing, Reachable, Typed
\* Nobody else is at x's end.
<1>12. /\ \A t \in Thread : dying[t] # x
       /\ \A u \in Strand \ {s} : giving[u] # None => giving[u].object # x
    <2>1. \A t \in Thread : dying[t] # x
        BY <1>2, <1>3, RegistrarAssumption DEF Stages
    <2>2. \A u \in Strand \ {s} : giving[u] # None => giving[u].object # x
        BY <1>1 DEF x, OnceInv, Single
    <2>3. QED
        BY <2>1, <2>2
<1>13. CASE UNCHANGED <<life, dying>>
    <2>1. Stages'
        BY <1>1, <1>2, <1>3, <1>4, <1>5, <1>7, <1>12, <1>13 DEF Stages
    <2>2. Single'
        BY <1>1, <1>3, <1>4, <1>5, <1>12, <1>13 DEF OnceInv, Single
    <2>3. QED
        BY <1>7, <1>8, <1>10, <1>11, <2>1, <2>2 DEF OnceInv
<1>14. ASSUME NEW y \in Object, Dies(s, y) PROVE OnceInv'
    <2>1. /\ \A z \in Object : life'[z] = IF z = y THEN "dead" ELSE life[z]
          /\ \A u \in Thread : dying'[u] = IF u = s THEN y ELSE dying[u]
          /\ life[y] = "alive" /\ y # None /\ y # x /\ y \in First /\ y \notin Second
        BY <1>2, <1>3, <1>14, RegistrarAssumption DEF OnceInv, Typed, Dies, Stages
    <2>2. /\ \A u \in Thread : dying[u] # y
          /\ y \notin queued /\ \A u \in Strand : giving[u] # None => giving[u].object # y
        BY <1>2, <2>1 DEF Stages
    <2>3. /\ \A u \in Thread : dying[u] # None => dying[u] \in Object
          /\ queued \subseteq Object /\ Strand \subseteq Thread
          /\ \A u \in Strand : giving[u] # None => giving[u].object \in Object
        BY DEF OnceInv, Typed, Giving, Thread
    <2>4. Stages'
        BY <1>1, <1>2, <1>3, <1>4, <1>5, <1>7, <1>12, <2>1, <2>2, <2>3 DEF Stages
    <2>5. Single'
        BY <1>1, <1>3, <1>4, <1>5, <1>12, <2>1, <2>2, <2>3 DEF OnceInv, Single
    <2>6. QED
        BY <1>7, <1>8, <1>10, <1>11, <2>4, <2>5 DEF OnceInv
<1>15. QED
    BY <1>8, <1>13, <1>14

LEMMA GiveUnlockKeeps == ASSUME OnceInv, NEW s \in Strand, GiveUnlock(s) PROVE OnceInv'
<1>1. /\ giving[s] # None /\ giving[s].step = "unlock" /\ dying[s] = None
      /\ giving' = [giving EXCEPT ![s].step = "final"]
      /\ UNCHANGED <<register, nextId, captured, held, life, dying, queued, phase, cursor>>
    BY DEF GiveUnlock, service
<1>2. /\ giving'[s].object = giving[s].object /\ giving'[s].step = "final"
      /\ giving'[s] \in Giving /\ giving[s] \in Giving /\ phase = "open"
    BY <1>1 DEF OnceInv, Typed, Giving, Closing
<1>3. \A u \in Strand \ {s} : giving'[u] = giving[u]
    BY <1>1 DEF OnceInv, Typed
<1>4. First' = First /\ Second' = Second /\ Ahead' = Ahead
    BY <1>1 DEF First, Second, Ahead
<1>5. Typed'
    BY <1>1, <1>2, <1>3 DEF OnceInv, Typed
<1>6. Numbered' /\ Referenced' /\ Closing' /\ Reachable'
    BY <1>1, <1>2, <1>4 DEF OnceInv, Numbered, Referenced, Closing, Reachable
<1>7. Stages'
    BY <1>1, <1>2, <1>3, <1>4 DEF OnceInv, Stages
<1>8. Single'
    BY <1>1, <1>2, <1>3 DEF OnceInv, Single
<1>9. QED
    BY <1>5, <1>6, <1>7, <1>8 DEF OnceInv

LEMMA GiveFinalKeeps == ASSUME OnceInv, NEW s \in Strand, GiveFinal(s) PROVE OnceInv'
<1> DEFINE x == giving[s].object
<1>1. /\ giving[s] # None /\ giving[s].step = "final" /\ register' = Erased(Final(x))
      /\ giving' = [giving EXCEPT ![s] = None]
      /\ UNCHANGED <<nextId, mutex, captured, held, life, dying, queued, phase, cursor>>
    BY DEF GiveFinal, service, Final
<1>2. x \in Object /\ phase = "open" /\ Stages /\ Reachable
    BY <1>1 DEF OnceInv, Typed, Giving, Closing
<1>3. life[x] = "dead" /\ x \notin First /\ x \in Second
    BY <1>1, <1>2 DEF Stages
<1>4. \A u \in Strand : giving'[u] = IF u = s THEN None ELSE giving[u]
    BY <1>1 DEF OnceInv, Typed
<1>5. /\ \A u \in Strand \ {s} : giving[u] # None => giving[u].object # x
      /\ x \notin queued
    BY <1>1 DEF OnceInv, Single
<1> HIDE DEF x
<1>6. Final(x) \in Entry /\ \E i \in DOMAIN register : register[i] = Final(x)
    BY <1>2, <1>3, EntriesDiffer DEF Second
<1>7. Numbered' /\ First' = First /\ Second' = Second \ {x} /\ Ahead \subseteq Ahead'
    BY <1>1, <1>2, <1>6, EraseRemoves DEF OnceInv
<1>8. Typed'
    <2>1. \A i \in DOMAIN register' : register'[i] \in Entry
        BY <1>7 DEF Numbered
    <2>2. QED
        BY <1>1, <2>1 DEF OnceInv, Typed
<1>9. Referenced' /\ Closing' /\ Reachable'
    BY <1>1, <1>2, <1>7 DEF OnceInv, Referenced, Closing, Reachable
<1>10. Stages'
    BY <1>1, <1>2, <1>3, <1>4, <1>5, <1>7 DEF Stages
<1>11. Single'
    BY <1>1, <1>4 DEF OnceInv, Single
<1>12. QED
    BY <1>7, <1>8, <1>9, <1>10, <1>11 DEF OnceInv

LEMMA CloseBeginKeeps == ASSUME OnceInv, CloseBegin PROVE OnceInv'
<1>1. /\ phase = "open" /\ phase' = "closing" /\ held = {}
      /\ \A t \in Thread : dying[t] = None /\ (t \in Strand => giving[t] = None)
      /\ UNCHANGED <<register, nextId, captured, held, life, dying, queued, giving, cursor>>
    BY DEF CloseBegin, Idle
<1>2. First' = First /\ Second' = Second /\ Ahead' = Ahead
    BY <1>1 DEF First, Second, Ahead
<1>3. Typed' /\ Numbered' /\ Referenced' /\ Single' /\ Reachable' /\ Stages'
    BY <1>1, <1>2 DEF OnceInv, Typed, Numbered, Referenced, Single, Reachable, Stages
<1>4. Closing'
    BY <1>1 DEF Closing, Thread
<1>5. QED
    BY <1>3, <1>4 DEF OnceInv

\* The loop resets the first event it has not visited; its closure alone is released.
LEMMA CloseResetKeeps == ASSUME OnceInv, CloseReset PROVE OnceInv'
<1>1. PICK i \in Unvisited :
        /\ \A j \in Unvisited : i <= j
        /\ cursor' = i + 1
        /\ IF register[i].final
           THEN UNCHANGED <<captured, dying, life>>
           ELSE Release(Main, register[i].object, held)
    BY DEF CloseReset
<1>2. /\ phase = "closing" /\ phase' = "closing" /\ dying[Main] = None /\ Main \in Thread
      /\ Main \notin Strand
      /\ UNCHANGED <<register, nextId, held, queued, giving>>
    BY RegistrarAssumption DEF CloseReset, Thread
<1>3. /\ i \in DOMAIN register /\ i \in Nat /\ i >= cursor /\ cursor \in Nat
      /\ register[i] \in Entry
    BY DEF Unvisited, OnceInv, Numbered
<1>4. /\ First' = First /\ Second' = Second
      /\ \A z \in Ahead : register[i] # Own(z) => z \in Ahead'
    <2>1. \A j \in DOMAIN register : j >= cursor /\ j # i => j >= cursor'
        BY <1>1, <1>3 DEF Unvisited, OnceInv, Numbered
    <2>2. QED
        BY <1>2, <2>1 DEF First, Second, Ahead
<1>5. Numbered'
    BY <1>1, <1>2, <1>3 DEF OnceInv, Numbered
<1>6. Stages /\ Reachable
    BY <1>2 DEF OnceInv
<1>7. CASE register[i].final
    <2>1. UNCHANGED <<captured, dying, life>> /\ \A z \in Object : register[i] # Own(z)
        BY <1>1, <1>3, <1>7, EntriesDiffer
    <2>2. Typed' /\ Referenced' /\ Single' /\ Stages'
        BY <1>2, <1>4, <1>6, <2>1 DEF OnceInv, Typed, Referenced, Single, Stages
    <2>3. Closing' /\ Reachable'
        BY <1>2, <1>4, <1>6, <2>1 DEF OnceInv, Closing, Reachable
    <2>4. QED
        BY <1>5, <2>2, <2>3 DEF OnceInv
<1>8. CASE ~register[i].final
    <2> DEFINE x == register[i].object
    <2>1. x \in Object /\ register[i] = Own(x) /\ Release(Main, x, held)
        BY <1>1, <1>3, <1>8, EntriesDiffer
    <2> HIDE DEF x
    <2>2. /\ Referenced' /\ captured' = [captured EXCEPT ![x] = None]
          /\ UNCHANGED <<life, dying>> \/ \E y \in Object : Dies(Main, y)
        BY <1>2, <2>1, ReleaseKills DEF OnceInv
    <2>3. Reachable'
        <3>1. \A z \in Object \ {x} : z \in Ahead => z \in Ahead'
            BY <1>4, <2>1, EntriesDiffer
        <3>2. \A z \in Object : captured'[z] = IF z = x THEN None ELSE captured[z]
            BY <2>1, <2>2 DEF OnceInv, Typed
        <3>3. QED
            BY <1>6, <3>1, <3>2 DEF Reachable
    <2>4. Typed'
        BY <1>2, <2>2 DEF OnceInv, Typed, Dies
    <2>5. Stages' /\ Single'
        <3>1. CASE UNCHANGED <<life, dying>>
            BY <1>2, <1>4, <1>6, <3>1 DEF OnceInv, Stages, Single
        <3>2. CASE \E y \in Object : Dies(Main, y)
            BY <1>2, <1>4, <1>6, <3>2, DiesKeepsStages DEF OnceInv
        <3>3. QED
            BY <2>2, <3>1, <3>2
    <2>6. Closing'
        <3>1. \A s \in Strand : dying'[s] = dying[s]
            BY <1>2, <2>2 DEF Dies, OnceInv, Typed, Thread
        <3>2. QED
            BY <1>2, <3>1 DEF OnceInv, Closing
    <2>7. QED
        BY <1>5, <2>2, <2>3, <2>4, <2>5, <2>6 DEF OnceInv
<1>9. QED
    BY <1>7, <1>8

\* The loop has passed every event: whatever closure was left has been reset.
LEMMA CloseClearKeeps == ASSUME OnceInv, CloseClear PROVE OnceInv'
<1>1. /\ phase = "closing" /\ phase' = "closed" /\ dying[Main] = None /\ Unvisited = {}
      /\ register' = [i \in {} |-> None]
      /\ UNCHANGED <<nextId, captured, held, life, dying, queued, giving, cursor>>
    BY DEF CloseClear, LoopDone
<1>2. Ahead = {}
    BY <1>1 DEF Ahead, Unvisited
<1>3. \A x \in Object : captured[x] = None /\ life[x] # "alive"
    BY <1>1, <1>2, RegistrarAssumption DEF OnceInv, Reachable, Referenced, Closing
<1>4. DOMAIN register' = {}
    BY <1>1
<1>5. Typed' /\ Numbered'
    BY <1>1, <1>4 DEF OnceInv, Typed, Numbered
<1>6. Referenced' /\ Single'
    BY <1>1 DEF OnceInv, Referenced, Single
<1>7. Closing'
    BY <1>1, <1>3 DEF OnceInv, Closing, NothingLeftToClear
<1>8. QED
    BY <1>1, <1>5, <1>6, <1>7 DEF OnceInv

LEMMA OnceStep == OnceInv /\ [Next]_vars => OnceInv'
<1>1. ASSUME OnceInv, UNCHANGED vars PROVE OnceInv'
    <2>1. First' = First /\ Second' = Second /\ Ahead' = Ahead
        BY <1>1 DEF vars, service, First, Second, Ahead
    <2>2. QED
        BY <1>1, <2>1 DEF vars, service, OnceInv, Typed, Numbered, Referenced, Stages, Single,
                          Closing, Reachable, NothingLeftToClear
<1>2. QED
    BY <1>1, ConstructKeeps, StartKeeps, DropKeeps, DisposeKeeps, CompleteKeeps, GiveLockKeeps,
       GiveEraseKeeps, GiveUnlockKeeps, GiveFinalKeeps, CloseBeginKeeps, CloseResetKeeps,
       CloseClearKeeps
    DEF Next, Program, Give, Close

LEMMA OnceAlways == Spec => []OnceInv
BY OnceInit, OnceStep, PTL DEF Spec

\* An object has one event of each kind, or none.
LEMMA EventCount ==
    ASSUME Numbered, NEW x \in Object, NEW final \in BOOLEAN
    PROVE  Cardinality({i \in DOMAIN register :
                            register[i].object = x /\ register[i].final = final})
             = IF x \in (IF final THEN Second ELSE First) THEN 1 ELSE 0
<1> DEFINE e == IF final THEN Final(x) ELSE Own(x)
           E == {i \in DOMAIN register : register[i].object = x /\ register[i].final = final}
<1>1. \A i \in DOMAIN register :
          register[i].object = x /\ register[i].final = final <=> register[i] = e
    BY EntriesDiffer DEF Numbered, Own, Final, Entry
<1>2. E = {i \in DOMAIN register : register[i] = e}
    BY <1>1
<1>3. x \in (IF final THEN Second ELSE First) <=> \E i \in DOMAIN register : register[i] = e
    BY DEF First, Second
<1> HIDE DEF e
<1>4. CASE \E i \in DOMAIN register : register[i] = e
    <2>1. PICK i \in DOMAIN register : register[i] = e
        BY <1>4
    <2>2. E = {i}
        BY <1>2, <2>1 DEF Numbered
    <2>3. QED
        BY <1>3, <1>4, <2>2, FS_Singleton
<1>5. CASE ~ \E i \in DOMAIN register : register[i] = e
    <2>1. E = {}
        BY <1>2, <1>5
    <2>2. QED
        BY <1>3, <1>5, <2>1, FS_EmptySet
<1>6. QED
    BY <1>4, <1>5

\* Whatever callbacks capture, an event is in the registrar once from its take to
\* its give, and the final event of a dead object until it is given in turn.
THEOREM EventsOwnedOnce == Spec => []OwnedOnce
<1>1. OnceInv => OwnedOnce
    <2>1. SUFFICES ASSUME OnceInv, phase # "closed", NEW x \in Object
          PROVE  LET own(final) == Cardinality({i \in DOMAIN register :
                              register[i].object = x /\ register[i].final = final})
                     erased == \E s \in Strand : /\ giving[s] # None /\ giving[s].object = x
                                                 /\ giving[s].step # "erase"
                 IN  /\ life[x] = "alive" => own(FALSE) = 1 /\ own(TRUE) = 0
                     /\ x \in queued => own(FALSE) = 1 /\ own(TRUE) = 1
                     /\ erased => own(FALSE) = 0 /\ own(TRUE) = 1
        BY DEF OwnedOnce
    <2> DEFINE own(final) == Cardinality({i \in DOMAIN register :
                              register[i].object = x /\ register[i].final = final})
    <2>2. /\ own(FALSE) = IF x \in First THEN 1 ELSE 0
          /\ own(TRUE) = IF x \in Second THEN 1 ELSE 0
        BY <2>1, EventCount DEF OnceInv
    <2> HIDE DEF own
    <2>3. Stages
        BY <2>1 DEF OnceInv
    <2>4. /\ life[x] = "alive" => own(FALSE) = 1 /\ own(TRUE) = 0
          /\ x \in queued => own(FALSE) = 1 /\ own(TRUE) = 1
        BY <2>2, <2>3 DEF Stages
    <2>5. ASSUME NEW s \in Strand, giving[s] # None, giving[s].object = x,
                 giving[s].step # "erase"
          PROVE  own(FALSE) = 0 /\ own(TRUE) = 1
        BY <2>2, <2>3, <2>5 DEF Stages
    <2>6. QED
        BY <2>4, <2>5 DEF own
<1>2. QED
    BY <1>1, OnceAlways, PTL

\* close() clears a map whose events hold nothing: no destructor runs in clear, and no
\* object is left, whatever the callbacks that never ran had captured.
THEOREM CloseLeavesNothing == Spec => []NothingLeftToClear
<1>1. OnceInv => NothingLeftToClear
    BY DEF OnceInv, Closing, NothingLeftToClear
<1>2. QED
    BY <1>1, OnceAlways, PTL

=============================================================================
