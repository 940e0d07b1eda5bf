---------------------------- MODULE HandlesProofs ----------------------------
(***************************************************************************)
(* However a program moves, converts and replaces its io objects: two that  *)
(* are in use share nothing, and one that is in use is complete.  Both are  *)
(* invariant together only: a destructor takes from an object what it owns, *)
(* which leaves the others whole because they own something else.           *)
(***************************************************************************)
EXTENDS Handles, TLAPS

Typed ==
    /\ own \in [Handle -> Implementation \cup {None}]
    /\ file \in [Desc -> Desc \cup {None}]
    /\ inScope \in [Desc -> BOOLEAN]
    /\ open \subseteq Desc
    /\ registered \subseteq Event /\ disposed \subseteq registered
    /\ pending \in [acceptor : Handle \cup {None}, peer : Handle \cup {None}]

\* An implementation in use has all that is its own; any other has no descriptor.
Complete(h) ==
    LET x == own[h] IN
    /\ x.desc \in Desc /\ inScope[x.desc] /\ file[x.desc] \in open
    /\ x.evts = {x.desc} \X Slots(Kind[h])
    /\ x.evts \subseteq registered
    /\ \A e \in disposed : e[1] # x.desc

Whole == \A h \in Handle : own[h] # None =>
            IF own[h].strand THEN Complete(h) ELSE own[h].desc = None

Apart == \A g, h \in InUse : g # h =>
            own[g].desc # own[h].desc /\ file[own[g].desc] # file[own[h].desc]

\* The peer of an accept waits, not in use, for the socket it becomes.
PeerWaits == pending.peer # None =>
                /\ own[pending.peer] # None /\ pending.peer \notin InUse
                /\ Kind[pending.peer] = "socket"

Inv == Typed /\ Whole /\ Apart /\ PeerWaits

-----------------------------------------------------------------------------
LEMMA SlotsOf ==
    ASSUME NEW k \in Kinds
    PROVE  Slots(k) # {} /\ Slots(k) \subseteq Reads \cup Writes
BY DEF Kinds, Slots, Reads, Writes

LEMMA Constructed ==
    ASSUME NEW k \in Kinds, NEW d \in Desc
    PROVE  /\ Built(k, d) \in Implementation /\ Built(k, d) # None
           /\ Built(k, d).strand /\ Built(k, d).desc = d
           /\ Built(k, d).evts = {d} \X Slots(k)
           /\ {d} \X Slots(k) \subseteq Event
<1>1. {d} \X Slots(k) \subseteq Event
    BY SlotsOf DEF Event
<1>2. Built(k, d) \in Implementation
    BY <1>1 DEF Built, Implementation
<1>3. QED
    BY <1>1, <1>2, HandlesAssumption DEF Built

LEMMA Empty ==
    /\ Default \in Implementation /\ Default # None
    /\ Default.strand = FALSE /\ Default.desc = None
<1>1. Default \in Implementation
    BY DEF Default, Implementation
<1>2. QED
    BY <1>1, HandlesAssumption DEF Default

\* A connector that became a socket is not in use and has no descriptor.
LEMMA Converted ==
    ASSUME Typed, NEW c \in InUse
    PROVE  /\ ConvertedFrom(own[c]) \in Implementation /\ ConvertedFrom(own[c]) # None
           /\ ~ConvertedFrom(own[c]).strand /\ ConvertedFrom(own[c]).desc = None
<1>1. own[c] \in Implementation
    BY DEF Typed, InUse
<1>2. ConvertedFrom(own[c]) \in Implementation
    BY <1>1 DEF ConvertedFrom, Implementation
<1>3. QED
    BY <1>1, <1>2, HandlesAssumption DEF ConvertedFrom, Implementation

LEMMA InvInit == Init => Inv
BY Empty, HandlesAssumption
DEF Init, Inv, Typed, Whole, Apart, PeerWaits, InUse, NoAccept

\* What the destructor of g's implementation does, when d has been constructed
\* with the files F meanwhile.
LEMMA Destructor ==
    ASSUME Inv, NEW g \in Handle, NEW d, NEW F, Replace(Old(g), d, F)
    PROVE  LET D == IF g \in InUse THEN {own[g].desc} ELSE {} IN
           /\ inScope' = [e \in Desc |-> e = d \/ (inScope[e] /\ e \notin D)]
           /\ open' = (open \ {file[e] : e \in D}) \cup F
           /\ disposed' = disposed \cup (IF g \in InUse THEN own[g].evts ELSE {})
<1>1. CASE own[g] = None
    BY <1>1 DEF Replace, Old, InUse
<1>2. CASE own[g] # None
    <2>1. Old(g) = {own[g]}
        BY <1>2 DEF Old
    <2>2. Closing(own[g]) = IF g \in InUse THEN {own[g].desc} ELSE {}
        BY <1>2, HandlesAssumption DEF Closing, InUse, Inv, Whole, Complete, Typed, Implementation
    <2>3. UNION {Closing(x) : x \in Old(g)} = IF g \in InUse THEN {own[g].desc} ELSE {}
        BY <2>1, <2>2
    <2>4. UNION {Disposed(x) : x \in {x \in Old(g) : Closing(x) # {}}}
              = IF g \in InUse THEN own[g].evts ELSE {}
        BY <2>1, <2>2 DEF Disposed
    <2>5. QED
        BY <2>3, <2>4 DEF Replace
<1>3. QED
    BY <1>1, <1>2

\* The other objects in use are not touched by it, nor do they use what is free.
LEMMA OthersStay ==
    ASSUME Inv, NEW g \in Handle, NEW d, NEW F, Replace(Old(g), d, F),
           NEW h \in InUse, h # g
    PROVE  /\ own[h].desc \in Desc /\ inScope'[own[h].desc]
           /\ file[own[h].desc] \in open'
           /\ own[h].evts = {own[h].desc} \X Slots(Kind[h])
           /\ own[h].evts \subseteq registered
           /\ \A e \in disposed' : e[1] # own[h].desc
<1> DEFINE D == IF g \in InUse THEN {own[g].desc} ELSE {}
<1>1. h \in Handle /\ own[h] # None /\ Complete(h)
    BY DEF Inv, Whole, InUse
<1>2. /\ inScope' = [e \in Desc |-> e = d \/ (inScope[e] /\ e \notin D)]
      /\ open' = (open \ {file[e] : e \in D}) \cup F
      /\ disposed' = disposed \cup (IF g \in InUse THEN own[g].evts ELSE {})
    BY Destructor
<1>3. own[h].desc \notin D /\ file[own[h].desc] \notin {file[e] : e \in D}
    BY DEF Inv, Apart
<1>4. g \in InUse => \A e \in own[g].evts : e[1] # own[h].desc
    BY <1>1, <1>3 DEF Inv, Whole, InUse, Complete
<1>5. own[h].desc \in Desc /\ inScope'[own[h].desc]
    BY <1>1, <1>2, <1>3 DEF Complete
<1>6. file[own[h].desc] \in open'
    BY <1>1, <1>2, <1>3 DEF Complete
<1>7. \A e \in disposed' : e[1] # own[h].desc
    BY <1>1, <1>2, <1>4 DEF Complete
<1>8. QED
    BY <1>1, <1>5, <1>6, <1>7 DEF Complete

LEMMA FreeIsUnused ==
    ASSUME Inv, NEW d \in Lowest
    PROVE  /\ d \in Desc /\ d \notin open
           /\ \A h \in InUse : own[h].desc # d /\ file[own[h].desc] # d
           /\ \A e \in disposed : e[1] # d
<1>1. d \in Free
    BY DEF Lowest
<1>2. QED
    BY <1>1 DEF Free, Inv, Typed, Whole, Complete, InUse

LEMMA TypesAfter ==
    ASSUME Inv, NEW g \in Handle, NEW d, NEW F \in SUBSET Desc, Replace(Old(g), d, F)
    PROVE  /\ inScope' \in [Desc -> BOOLEAN]
           /\ open' \subseteq Desc
           /\ disposed' \subseteq registered
           /\ F \subseteq open'
           /\ d \in Desc => inScope'[d]
           /\ \A e \in disposed' : e \in disposed \/ (g \in InUse /\ e[1] = own[g].desc)
<1> DEFINE D == IF g \in InUse THEN {own[g].desc} ELSE {}
<1>1. /\ inScope' = [e \in Desc |-> e = d \/ (inScope[e] /\ e \notin D)]
      /\ open' = (open \ {file[e] : e \in D}) \cup F
      /\ disposed' = disposed \cup (IF g \in InUse THEN own[g].evts ELSE {})
    BY Destructor
<1>2. g \in InUse => /\ own[g].evts \subseteq registered
                     /\ \A e \in own[g].evts : e[1] = own[g].desc
    BY DEF Inv, Whole, InUse, Complete
<1>3. QED
    BY <1>1, <1>2 DEF Inv, Typed

\* The peer of an accept is not g when g may lose its implementation.
LEMMA PeerStays ==
    ASSUME Inv, NEW g \in Handle, MayLose(g)
    PROVE  /\ PendingWithout(g) \in [acceptor : Handle \cup {None}, peer : Handle \cup {None}]
           /\ PendingWithout(g).peer \in {pending.peer, None}
           /\ pending.peer # g
BY HandlesAssumption DEF Inv, Typed, PeerWaits, MayLose, PendingWithout, NoAccept

LEMMA InvStep == ASSUME FreshPeer PROVE Inv /\ [Next]_vars => Inv'
<1> SUFFICES ASSUME Inv, [Next]_vars PROVE Inv'
    OBVIOUS
<1> USE DEF Inv
<1>1. ASSUME NEW h \in Handle, AssignDefault(h) PROVE Inv'
    <2>1. /\ Replace(Old(h), None, {}) /\ MayLose(h)
          /\ own' = [own EXCEPT ![h] = Default]
          /\ pending' = PendingWithout(h)
          /\ UNCHANGED <<file, registered>>
        BY <1>1 DEF AssignDefault, Unchanged
    <2>2. InUse' = InUse \ {h}
        BY <2>1, Empty DEF InUse, Typed
    <2>3. Typed'
        BY <2>1, TypesAfter, PeerStays, Empty DEF Typed
    <2>4. Whole'
        BY <2>1, OthersStay, Empty DEF Whole, Typed, Complete, InUse
    <2>5. Apart'
        BY <2>1, <2>2 DEF Apart, InUse
    <2>6. PeerWaits'
        BY <2>1, <2>2, PeerStays DEF PeerWaits, InUse, Typed
    <2>7. QED
        BY <2>3, <2>4, <2>5, <2>6
<1>2. ASSUME NEW h \in Handle, AssignNew(h) PROVE Inv'
    <2>1. PICK d \in Lowest :
            /\ own' = [own EXCEPT ![h] = Built(Kind[h], d)]
            /\ file' = [file EXCEPT ![d] = d]
            /\ TakeEvents(Kind[h], d)
            /\ Replace(Old(h), d, {d})
        BY <1>2 DEF AssignNew
    <2>2. /\ MayLose(h) /\ pending' = PendingWithout(h)
          /\ registered' = registered \cup ({d} \X Slots(Kind[h]))
          /\ Kind[h] \in Kinds
        BY <1>2, <2>1, HandlesAssumption DEF AssignNew, TakeEvents
    <2>3. /\ d \in Desc /\ d \notin open
          /\ \A g \in InUse : own[g].desc # d /\ file[own[g].desc] # d
          /\ \A e \in disposed : e[1] # d
        BY FreeIsUnused
    <2>4. /\ inScope' \in [Desc -> BOOLEAN] /\ open' \subseteq Desc
          /\ disposed' \subseteq registered /\ d \in open' /\ inScope'[d]
          /\ \A e \in disposed' : e[1] # d
        BY <2>1, <2>3, TypesAfter
    <2>5. Typed'
        BY <2>1, <2>2, <2>3, <2>4, Constructed, PeerStays DEF Typed
    <2>6. Complete(h)' /\ own'[h].strand
        BY <2>1, <2>2, <2>3, <2>4, Constructed DEF Complete, Typed
    <2>7. ASSUME NEW g \in Handle, own'[g] # None, g # h
          PROVE  IF own'[g].strand THEN Complete(g)' ELSE own'[g].desc = None
        <3>1. own'[g] = own[g]
            BY <2>1, <2>7 DEF Typed
        <3>2. CASE g \in InUse
            BY <2>1, <2>2, <2>3, <2>7, <3>1, <3>2, OthersStay DEF Complete, Typed, InUse
        <3>3. CASE g \notin InUse
            BY <2>7, <3>1, <3>3 DEF Whole, InUse
        <3>4. QED
            BY <3>2, <3>3
    <2>8. Whole'
        BY <2>6, <2>7 DEF Whole
    <2>9. /\ InUse' = InUse \cup {h} /\ own'[h].desc = d /\ file'[d] = d
          /\ \A g \in InUse \ {h} : own'[g] = own[g] /\ file'[own[g].desc] = file[own[g].desc]
        BY <2>1, <2>2, <2>3, Constructed DEF InUse, Typed
    <2>10. Apart'
        BY <2>3, <2>9 DEF Apart
    <2>11. PeerWaits'
        BY <2>1, <2>2, <2>9, PeerStays DEF PeerWaits, InUse, Typed
    <2>12. QED
        BY <2>5, <2>8, <2>10, <2>11
<1>3. ASSUME NEW g \in Handle, NEW h \in Handle, Move(g, h) PROVE Inv'
    <2>1. /\ g # h /\ Kind[g] = Kind[h] /\ own[h] # None /\ MayLose(g)
          /\ own' = [own EXCEPT ![g] = own[h], ![h] = None]
          /\ Replace(Old(g), None, {})
          /\ UNCHANGED <<file, registered>>
        BY <1>3 DEF Move, Unchanged
    <2>2. /\ own'[g] = own[h] /\ own'[h] = None
          /\ \A x \in Handle \ {g, h} : own'[x] = own[x]
        BY <2>1 DEF Typed
    <2>3. LET p == PendingWithout(g)
          IN  pending' = [acceptor |-> Follow(p.acceptor, g, h), peer |-> Follow(p.peer, g, h)]
        BY <1>3 DEF Move
    <2>4. Typed'
        BY <2>1, <2>3, TypesAfter, PeerStays DEF Typed, Follow
    <2>5. Whole'
        BY <2>1, <2>2, OthersStay DEF Whole, Typed, Complete, InUse
    <2>6. Apart'
        <3> DEFINE from(x) == IF x = g THEN h ELSE x
        <3>1. \A x \in InUse' : x # h /\ from(x) \in InUse /\ own'[x] = own[from(x)]
            BY <2>1, <2>2 DEF InUse
        <3>2. \A x, y \in InUse' : x # y => from(x) # from(y)
            BY <3>1
        <3>3. QED
            <4> SUFFICES ASSUME NEW x \in InUse', NEW y \in InUse', x # y
                PROVE  own'[x].desc # own'[y].desc /\ file[own'[x].desc] # file[own'[y].desc]
                BY <2>1 DEF Apart
            <4> HIDE DEF from
            <4>1. QED
                BY <3>1, <3>2 DEF Apart
    <2>7. PeerWaits'
        <3>1. pending'.peer = Follow(PendingWithout(g).peer, g, h)
            BY <2>3
        <3>2. QED
            BY <2>1, <2>2, <3>1, PeerStays, HandlesAssumption DEF PeerWaits, InUse, Follow, Typed
    <2>8. QED
        BY <2>4, <2>5, <2>6, <2>7
<1>4. ASSUME NEW s \in Handle, NEW c \in Handle, ConvertConstruct(s, c) PROVE Inv'
    <2>0. /\ Kind[s] = "socket" /\ Kind[c] = "connector" /\ s # c
          /\ c \in InUse /\ MayLose(s) /\ pending' = pending
        BY <1>4 DEF ConvertConstruct
    <2>1. PICK d \in Lowest :
            /\ own' = [own EXCEPT ![s] = Built("socket", d), ![c] = ConvertedFrom(@)]
            /\ file' = [file EXCEPT ![d] = file[own[c].desc]]
            /\ TakeEvents("socket", d)
            /\ Replace(Old(s), d, {})
        BY <1>4 DEF ConvertConstruct
    <2>2. registered' = registered \cup ({d} \X Slots("socket")) /\ "socket" \in Kinds
        BY <2>1 DEF TakeEvents, Kinds
    <2>3. /\ d \in Desc /\ d \notin open
          /\ \A g \in InUse : own[g].desc # d /\ file[own[g].desc] # d
          /\ \A e \in disposed : e[1] # d
        BY FreeIsUnused
    <2>4. /\ inScope' \in [Desc -> BOOLEAN] /\ open' \subseteq Desc
          /\ disposed' \subseteq registered /\ inScope'[d]
          /\ \A e \in disposed' : e[1] # d
        BY <2>1, <2>3, TypesAfter
    <2>5. /\ own[c].desc \in Desc /\ file[own[c].desc] \in open' /\ file[own[c].desc] \in Desc
        BY <2>0, <2>1, <2>4, OthersStay
    <2>6. /\ ConvertedFrom(own[c]) \in Implementation /\ ConvertedFrom(own[c]) # None
          /\ ~ConvertedFrom(own[c]).strand /\ ConvertedFrom(own[c]).desc = None
        BY <2>0, Converted
    <2>7. /\ own'[s] = Built("socket", d) /\ own'[c] = ConvertedFrom(own[c])
          /\ \A g \in Handle \ {s, c} : own'[g] = own[g]
          /\ own' \in [Handle -> Implementation \cup {None}]
        BY <2>0, <2>1, <2>2, <2>3, <2>6, Constructed DEF Typed
    <2>8. Typed'
        BY <2>0, <2>1, <2>2, <2>3, <2>4, <2>5, <2>7, Constructed DEF Typed
    <2>9. Complete(s)' /\ own'[s].strand /\ own'[s].desc = d /\ own'[s] # None
        BY <2>0, <2>1, <2>2, <2>3, <2>4, <2>5, <2>7, Constructed DEF Complete, Typed
    <2>10. ASSUME NEW g \in Handle \ {s, c}, own[g] # None
           PROVE  IF own[g].strand THEN Complete(g)' ELSE own[g].desc = None
        <3>1. CASE g \in InUse
            BY <2>1, <2>2, <2>3, <2>7, <2>10, <3>1, OthersStay DEF Complete, Typed, InUse
        <3>2. CASE g \notin InUse
            BY <2>10, <3>2 DEF Whole, InUse
        <3>3. QED
            BY <3>1, <3>2
    <2>11. Whole'
        BY <2>6, <2>7, <2>9, <2>10 DEF Whole
    <2>12. /\ InUse' = (InUse \ {c}) \cup {s} /\ file'[d] = file[own[c].desc]
           /\ \A g \in InUse \ {s, c} : own'[g] = own[g] /\ file'[own[g].desc] = file[own[g].desc]
        BY <2>1, <2>3, <2>6, <2>7, <2>9 DEF InUse, Typed
    <2>13. Apart'
        BY <2>0, <2>3, <2>9, <2>12 DEF Apart
    <2>14. PeerWaits'
        BY <2>0, <2>7, <2>12, PeerStays DEF PeerWaits, Typed, InUse
    <2>15. QED
        BY <2>8, <2>11, <2>13, <2>14
<1>5. ASSUME NEW s \in Handle, NEW c \in Handle, ConvertAssign(s, c) PROVE Inv'
    <2>1. /\ Kind[s] = "socket" /\ s \notin InUse /\ c \in InUse /\ MayLose(s) /\ s # c
          /\ own[s] # None
          /\ own' = [own EXCEPT ![s] = Built("socket", own[c].desc), ![c] = ConvertedFrom(@)]
          /\ registered' = registered \cup ({own[c].desc} \X Slots("socket"))
          /\ UNCHANGED <<file, inScope, open, disposed, pending>>
        BY <1>5 DEF ConvertAssign, TakeEvents
    <2> DEFINE d == own[c].desc
    <2>2. d \in Desc /\ inScope[d] /\ file[d] \in open /\ "socket" \in Kinds
        BY <2>1 DEF Whole, Complete, InUse, Kinds
    <2>3. /\ {d} \X Slots("socket") \subseteq Event
          /\ Built("socket", d) \in Implementation /\ Built("socket", d) # None
          /\ Built("socket", d).strand /\ Built("socket", d).desc = d
          /\ Built("socket", d).evts = {d} \X Slots("socket")
        BY <2>2, Constructed
    <2>4. /\ ConvertedFrom(own[c]) \in Implementation /\ ConvertedFrom(own[c]) # None
          /\ ~ConvertedFrom(own[c]).strand /\ ConvertedFrom(own[c]).desc = None
        BY <2>1, Converted
    <2>5. /\ own'[s] = Built("socket", d) /\ own'[c] = ConvertedFrom(own[c])
          /\ \A g \in Handle \ {s, c} : own'[g] = own[g]
          /\ own' \in [Handle -> Implementation \cup {None}]
        BY <2>1, <2>3, <2>4 DEF Typed
    <2>6. Typed'
        BY <2>1, <2>3, <2>5 DEF Typed
    <2>7. Complete(s)' /\ own'[s].strand /\ own'[s] # None
        BY <2>1, <2>2, <2>3, <2>5 DEF Complete, Whole, InUse
    <2>8. Whole'
        BY <2>1, <2>4, <2>5, <2>7 DEF Whole, Complete
    <2>9. /\ InUse' = (InUse \ {c}) \cup {s} /\ own'[s].desc = d
          /\ \A g \in InUse \ {s, c} : own'[g] = own[g]
        BY <2>3, <2>4, <2>5 DEF InUse
    <2>10. Apart'
        <3> DEFINE from(x) == IF x = s THEN c ELSE x
        <3>1. \A x \in InUse' : from(x) \in InUse /\ own'[x].desc = own[from(x)].desc
            BY <2>1, <2>9
        <3>2. \A x, y \in InUse' : x # y => from(x) # from(y)
            BY <2>1, <2>9
        <3> SUFFICES ASSUME NEW x \in InUse', NEW y \in InUse', x # y
            PROVE  own'[x].desc # own'[y].desc /\ file[own'[x].desc] # file[own'[y].desc]
            BY <2>1 DEF Apart
        <3> HIDE DEF from
        <3>3. QED
            BY <3>1, <3>2 DEF Apart
    <2>11. PeerWaits'
        BY <2>1, <2>5, <2>9, PeerStays DEF PeerWaits, Typed, InUse
    <2>12. QED
        BY <2>6, <2>8, <2>10, <2>11
<1>6. ASSUME NEW a \in Handle, NEW s \in Handle, Accept(a, s) PROVE Inv'
    <2>1. /\ Kind[s] = "socket" /\ own[s] # None /\ s \notin InUse
          /\ pending' = [acceptor |-> a, peer |-> s]
          /\ UNCHANGED <<own, file, inScope, open, registered, disposed>>
        BY <1>6, FreshPeer DEF Accept, descriptor
    <2>2. QED
        BY <2>1 DEF Typed, Whole, Complete, Apart, InUse, PeerWaits
<1>7. CASE Accepted
    <2>0. PICK p \in Handle : p = pending.peer
        BY <1>7 DEF Accepted, Typed
    <2>1. /\ pending.peer = p /\ p \notin InUse /\ Kind[p] = "socket" /\ own[p] # None
          /\ pending' = NoAccept /\ disposed' = disposed
        BY <1>7, <2>0 DEF Accepted, PeerWaits
    <2>2. PICK d \in Lowest :
            /\ own' = [own EXCEPT ![p] = Built("socket", d)]
            /\ file' = [file EXCEPT ![d] = d]
            /\ TakeEvents("socket", d)
            /\ inScope' = [inScope EXCEPT ![d] = TRUE]
            /\ open' = open \cup {d}
        BY <1>7, <2>1, Empty DEF Accepted, MovedFrom
    <2>3. /\ d \in Desc /\ d \notin open
          /\ \A g \in InUse : own[g].desc # d /\ file[own[g].desc] # d
          /\ \A e \in disposed : e[1] # d
        BY FreeIsUnused
    <2>4. registered' = registered \cup ({d} \X Slots("socket")) /\ "socket" \in Kinds
        BY <2>2 DEF TakeEvents, Kinds
    <2>5. Typed'
        BY <2>1, <2>2, <2>3, <2>4, Constructed DEF Typed, NoAccept
    <2>6. Complete(p)' /\ own'[p].strand /\ own'[p] # None /\ own'[p].desc = d
        BY <2>1, <2>2, <2>3, <2>4, Constructed DEF Complete, Typed
    <2>7. \A g \in Handle \ {p} : own'[g] = own[g]
        BY <2>2 DEF Typed
    <2>8. ASSUME NEW g \in Handle \ {p}, own[g] # None
          PROVE  IF own[g].strand THEN Complete(g)' ELSE own[g].desc = None
        BY <2>1, <2>2, <2>3, <2>4, <2>7, <2>8 DEF Whole, Complete, Typed, InUse
    <2>9. Whole'
        BY <2>6, <2>7, <2>8 DEF Whole
    <2>10. /\ InUse' = InUse \cup {p} /\ file'[d] = d
           /\ \A g \in InUse : own'[g] = own[g] /\ file'[own[g].desc] = file[own[g].desc]
        BY <2>1, <2>2, <2>3, <2>6, <2>7 DEF InUse, Typed
    <2>11. Apart'
        BY <2>3, <2>6, <2>10 DEF Apart
    <2>12. PeerWaits'
        BY <2>1 DEF PeerWaits, NoAccept
    <2>13. QED
        BY <2>5, <2>9, <2>11, <2>12
<1>8. CASE AcceptFails
    BY <1>8 DEF AcceptFails, descriptor, Typed, Whole, Complete, Apart, InUse, PeerWaits, NoAccept
<1>9. ASSUME NEW d \in Desc, Reclaim(d) PROVE Inv'
    <2> DEFINE E == {e \in disposed : e[1] = d}
               last == \A e \in registered \ E : e[1] # d
    <2>1. /\ E # {}
          /\ registered' = registered \ E /\ disposed' = disposed \ E
          /\ file' = [file EXCEPT ![d] = IF last THEN None ELSE @]
          /\ UNCHANGED <<own, inScope, open, pending>>
        BY <1>9 DEF Reclaim, NotGiven
    <2>2. \A h \in InUse : own[h].desc # d /\ file'[own[h].desc] = file[own[h].desc]
        BY <2>1 DEF Whole, Complete, InUse, Typed
    <2>3. Typed'
        BY <2>1 DEF Typed
    <2>4. \A h \in InUse : Complete(h)'
        BY <2>1, <2>2 DEF Whole, Complete, InUse, Typed
    <2>5. Whole'
        BY <2>1, <2>4 DEF Whole, InUse
    <2>6. Apart' /\ PeerWaits'
        BY <2>1, <2>2 DEF Apart, PeerWaits, InUse
    <2>7. QED
        BY <2>3, <2>5, <2>6
<1>10. CASE UNCHANGED vars
    BY <1>10 DEF vars, descriptor, Typed, Whole, Complete, Apart, InUse, PeerWaits
<1>11. QED
    BY <1>1, <1>2, <1>3, <1>4, <1>5, <1>6, <1>7, <1>8, <1>9, <1>10 DEF Next

\* Whatever is moved where, no two objects in use share a file, a descriptor or
\* an event: each file is closed by one destructor.
THEOREM OneOwner == ASSUME FreshPeer PROVE Spec => []SoleOwner
<1>1. Inv => SoleOwner
    <2> SUFFICES ASSUME Inv, NEW g \in InUse, NEW h \in InUse, g # h
        PROVE  /\ file[own[g].desc] # file[own[h].desc] /\ own[g].desc # own[h].desc
               /\ own[g].evts \cap own[h].evts = {}
        BY DEF SoleOwner
    <2>1. /\ own[g].evts = {own[g].desc} \X Slots(Kind[g])
          /\ own[h].evts = {own[h].desc} \X Slots(Kind[h])
        BY DEF Inv, Whole, Complete, InUse
    <2>2. QED
        BY <2>1 DEF Inv, Apart
<1>2. QED
    BY <1>1, InvInit, InvStep, PTL DEF Spec

\* An object in use has its descriptor, its open file and its registered events,
\* and none of them has been disposed: its operations find them.
THEOREM InUseIsUsable == ASSUME FreshPeer PROVE Spec => []Usable
<1>1. Inv => Usable
    <2> SUFFICES ASSUME Inv, NEW h \in InUse
        PROVE  LET x == own[h] IN
               /\ x.desc # None /\ inScope[x.desc] /\ file[x.desc] \in open
               /\ x.evts = {x.desc} \X Slots(Kind[h])
               /\ x.evts \subseteq registered \ disposed
        BY DEF Usable
    <2>1. Complete(h)
        BY DEF Inv, Whole, InUse
    <2>2. QED
        BY <2>1, HandlesAssumption DEF Complete
<1>2. QED
    BY <1>1, InvInit, InvStep, PTL DEF Spec

-----------------------------------------------------------------------------
(* The pointers from a descriptor to its events.                            *)

PointsTo(d, k) == \A s \in Slots(k) :
    /\ s \in Reads => readEvent[d] = <<d, s>>
    /\ s \in Writes => writeEvent[d] = <<d, s>>

Pointing ==
    /\ readEvent = [d \in Desc |-> readEvent[d]]
    /\ writeEvent = [d \in Desc |-> writeEvent[d]]
    /\ \A h \in InUse : PointsTo(own[h].desc, Kind[h])

LEMMA TakenArePointed ==
    ASSUME Pointing, NEW k \in Kinds, NEW d \in Desc, TakeEvents(k, d)
    PROVE  /\ readEvent' = [e \in Desc |-> readEvent'[e]]
           /\ writeEvent' = [e \in Desc |-> writeEvent'[e]]
           /\ PointsTo(d, k)'
           /\ \A e \in Desc \ {d} : readEvent'[e] = readEvent[e] /\ writeEvent'[e] = writeEvent[e]
<1>1. \A S \in SUBSET (Reads \cup Writes) :
        /\ Pointer(readEvent, d, S) = [e \in Desc |-> Pointer(readEvent, d, S)[e]]
        /\ Pointer(writeEvent, d, S) = [e \in Desc |-> Pointer(writeEvent, d, S)[e]]
        /\ \A e \in Desc \ {d} : /\ Pointer(readEvent, d, S)[e] = readEvent[e]
                                 /\ Pointer(writeEvent, d, S)[e] = writeEvent[e]
    BY DEF Pointer, Pointing
<1>2. \A s : /\ Pointer(readEvent, d, {s})[d] = <<d, s>>
             /\ Pointer(writeEvent, d, {s})[d] = <<d, s>>
    BY DEF Pointer, Pointing
<1>3. \A s \in Slots(k) : /\ s \in Reads => Slots(k) \cap Reads = {s}
                          /\ s \in Writes => Slots(k) \cap Writes = {s}
    BY DEF Kinds, Slots, Reads, Writes
<1>4. /\ readEvent' = Pointer(readEvent, d, Slots(k) \cap Reads)
      /\ writeEvent' = Pointer(writeEvent, d, Slots(k) \cap Writes)
    BY DEF TakeEvents, Pointed
<1>5. ASSUME NEW s \in Slots(k)
      PROVE  /\ s \in Reads => readEvent'[d] = <<d, s>>
             /\ s \in Writes => writeEvent'[d] = <<d, s>>
    BY <1>2, <1>3, <1>4
<1>6. /\ Slots(k) \cap Reads \in SUBSET (Reads \cup Writes)
      /\ Slots(k) \cap Writes \in SUBSET (Reads \cup Writes)
    OBVIOUS
<1>7. PointsTo(d, k)'
    BY <1>5 DEF PointsTo
<1> QED
    BY <1>1, <1>4, <1>6, <1>7

\* No event is taken, and whoever is in use has the descriptor of one who was.
LEMMA PointingKept ==
    ASSUME Pointing, UNCHANGED <<readEvent, writeEvent>>,
           \A h \in InUse' : \E g \in InUse : own'[h].desc = own[g].desc /\ Kind[h] = Kind[g]
    PROVE  Pointing'
<1>1. ASSUME NEW h \in InUse' PROVE PointsTo(own[h].desc, Kind[h])'
  <2>1. PICK g \in InUse : own'[h].desc = own[g].desc /\ Kind[h] = Kind[g]
    OBVIOUS
  <2>2. PointsTo(own[g].desc, Kind[g])
    BY DEF Pointing
  <2> QED
    BY <2>1, <2>2 DEF PointsTo
<1> QED
    BY <1>1 DEF Pointing

\* Events are taken for d by s, and whoever is in use besides was so before.
LEMMA PointingTaken ==
    ASSUME Inv, Pointing, NEW s \in Handle, NEW d \in Desc, NEW k, k = Kind[s],
           TakeEvents(k, d), own'[s].desc = d,
           \A h \in InUse' \ {s} : h \in InUse /\ own'[h] = own[h] /\ own[h].desc # d
    PROVE  Pointing'
<1>1. k \in Kinds
    BY HandlesAssumption
<1>2. \A h \in InUse : own[h].desc \in Desc
    BY DEF Inv, Whole, Complete, InUse
<1>3. ASSUME NEW h \in InUse' PROVE PointsTo(own[h].desc, Kind[h])'
  <2>1. CASE h = s
    BY <1>1, <2>1, TakenArePointed
  <2>2. CASE h # s
    <3>1. own'[h] = own[h] /\ own[h].desc \in Desc \ {d} /\ PointsTo(own[h].desc, Kind[h])
      BY <1>2, <1>3, <2>2 DEF Pointing
    <3> QED
      BY <1>1, <3>1, TakenArePointed DEF PointsTo
  <2> QED
    BY <2>1, <2>2
<1> QED
    BY <1>1, <1>3, TakenArePointed DEF Pointing

LEMMA PointingStep == ASSUME FreshPeer PROVE Inv /\ Pointing /\ [Next]_vars => Pointing'
<1> SUFFICES ASSUME Inv, Pointing, [Next]_vars PROVE Pointing'
    OBVIOUS
<1>0. /\ own \in [Handle -> Implementation \cup {None}]
      /\ \A h \in InUse : own[h].desc \in Desc
    BY DEF Inv, Typed, Whole, Complete, InUse
<1>1. ASSUME NEW h \in Handle, AssignDefault(h) PROVE Pointing'
  <2>1. InUse' = InUse \ {h} /\ \A g \in InUse' : own'[g] = own[g]
    BY <1>0, <1>1, Empty DEF AssignDefault, InUse
  <2> QED
    BY <1>1, <2>1, PointingKept DEF AssignDefault, Unchanged
<1>2. ASSUME NEW h \in Handle, AssignNew(h) PROVE Pointing'
  <2>1. PICK d \in Lowest : own' = [own EXCEPT ![h] = Built(Kind[h], d)] /\ TakeEvents(Kind[h], d)
    BY <1>2 DEF AssignNew
  <2>2. d \in Desc /\ \A g \in InUse : own[g].desc # d
    BY FreeIsUnused
  <2>3. own'[h].desc = d /\ \A g \in InUse' \ {h} : g \in InUse /\ own'[g] = own[g]
    BY <1>0, <2>1, <2>2, Constructed, HandlesAssumption DEF InUse
  <2> QED
    BY <2>1, <2>2, <2>3, PointingTaken
<1>3. ASSUME NEW g \in Handle, NEW h \in Handle, Move(g, h) PROVE Pointing'
  <2>1. /\ Kind[g] = Kind[h] /\ UNCHANGED <<readEvent, writeEvent>>
        /\ own' = [own EXCEPT ![g] = own[h], ![h] = None]
    BY <1>3 DEF Move, Unchanged
  <2>2. \A x \in InUse' : IF x = g THEN h \in InUse /\ own'[x] = own[h]
                                   ELSE x \in InUse /\ own'[x] = own[x]
    BY <1>0, <2>1 DEF InUse
  <2> QED
    BY <2>1, <2>2, PointingKept
<1>4. ASSUME NEW s \in Handle, NEW c \in Handle, ConvertConstruct(s, c) PROVE Pointing'
  <2>1. PICK d \in Lowest :
            /\ own' = [own EXCEPT ![s] = Built("socket", d), ![c] = ConvertedFrom(@)]
            /\ TakeEvents("socket", d)
    BY <1>4 DEF ConvertConstruct
  <2>2. d \in Desc /\ \A g \in InUse : own[g].desc # d
    BY FreeIsUnused
  <2>3. /\ Kind[s] = "socket" /\ Kind[c] = "connector" /\ s # c /\ c \in InUse
        /\ ~ConvertedFrom(own[c]).strand
    BY <1>4, Converted DEF ConvertConstruct, Inv
  <2>4. own'[s].desc = d /\ \A g \in InUse' \ {s} : g \in InUse /\ own'[g] = own[g]
    BY <1>0, <2>1, <2>2, <2>3 DEF InUse, Built
  <2> QED
    BY <2>1, <2>2, <2>3, <2>4, PointingTaken
<1>5. ASSUME NEW s \in Handle, NEW c \in Handle, ConvertAssign(s, c) PROVE Pointing'
  <2> DEFINE d == own[c].desc
  <2>1. /\ own' = [own EXCEPT ![s] = Built("socket", d), ![c] = ConvertedFrom(@)]
        /\ TakeEvents("socket", d)
    BY <1>5 DEF ConvertAssign
  <2>2. /\ Kind[s] = "socket" /\ Kind[c] = "connector" /\ s # c /\ c \in InUse
        /\ ~ConvertedFrom(own[c]).strand
    BY <1>5, Converted DEF ConvertAssign, Inv
  <2>3. d \in Desc /\ \A g \in InUse : g # c => own[g].desc # d
    BY <1>0, <2>2 DEF Inv, Apart
  <2>4. own'[s].desc = d /\ \A g \in InUse' \ {s} : g \in InUse /\ g # c /\ own'[g] = own[g]
    BY <1>0, <2>1, <2>2, <2>3 DEF InUse, Built
  <2> QED
    BY <2>1, <2>2, <2>3, <2>4, PointingTaken
<1>6. ASSUME NEW a \in Handle, NEW s \in Handle, Accept(a, s) PROVE Pointing'
    BY <1>6 DEF Accept, descriptor, Pointing, PointsTo, InUse
<1>7. CASE Accepted
  <2>1. PICK p \in Handle : p = pending.peer /\ Kind[p] = "socket"
    BY <1>7 DEF Accepted, Inv, Typed, PeerWaits
  <2>2. PICK d \in Lowest : own' = [own EXCEPT ![p] = Built("socket", d)] /\ TakeEvents("socket", d)
    BY <1>7, <2>1 DEF Accepted
  <2>3. d \in Desc /\ \A g \in InUse : own[g].desc # d
    BY FreeIsUnused
  <2>4. own'[p].desc = d /\ \A g \in InUse' \ {p} : g \in InUse /\ own'[g] = own[g]
    BY <1>0, <2>1, <2>2, <2>3 DEF InUse, Built
  <2> QED
    BY <2>1, <2>2, <2>3, <2>4, PointingTaken
<1>8. CASE AcceptFails
    BY <1>8 DEF AcceptFails, descriptor, Pointing, PointsTo, InUse
<1>9. ASSUME NEW d \in Desc, Reclaim(d) PROVE Pointing'
  <2>1. \A h \in InUse : own[h].desc # d
    BY <1>9 DEF Reclaim, Inv, Whole, Complete, InUse
  <2>2. /\ readEvent' = [e \in Desc |-> readEvent'[e]]
        /\ writeEvent' = [e \in Desc |-> writeEvent'[e]]
        /\ \A e \in Desc \ {d} : readEvent'[e] = readEvent[e] /\ writeEvent'[e] = writeEvent[e]
        /\ own' = own
    BY <1>9 DEF Reclaim, Pointing
  <2> QED
    BY <1>0, <2>1, <2>2 DEF Pointing, PointsTo, InUse
<1>10. CASE UNCHANGED vars
    BY <1>10 DEF vars, descriptor, Pointing, PointsTo, InUse
<1> QED
    BY <1>1, <1>2, <1>3, <1>4, <1>5, <1>6, <1>7, <1>8, <1>9, <1>10 DEF Next

\* The reactor finds, through the descriptor, the events of the object that owns it
\* now, also when the object was moved or was a connector.
THEOREM EventsAreFound == ASSUME FreshPeer PROVE Spec => []ReactorFindsEvents
<1>1. Init => Pointing
    BY Empty DEF Init, Pointing, InUse
<1>2. Inv /\ Pointing => ReactorFindsEvents
  <2> SUFFICES ASSUME Inv, Pointing, NEW h \in InUse, NEW e \in own[h].evts
      PROVE e = IF e[2] \in Reads THEN readEvent[e[1]] ELSE writeEvent[e[1]]
    BY DEF ReactorFindsEvents
  <2>1. own[h].evts = {own[h].desc} \X Slots(Kind[h]) /\ h \in Handle
    BY DEF Inv, Whole, Complete, InUse
  <2>2. e = <<own[h].desc, e[2]>> /\ e[2] \in Slots(Kind[h]) /\ e[1] = own[h].desc
    BY <2>1
  <2>3. e[2] \in Reads \cup Writes
    BY <2>1, <2>2, SlotsOf, HandlesAssumption
  <2>4. PointsTo(own[h].desc, Kind[h])
    BY DEF Pointing
  <2> QED
    BY <2>2, <2>3, <2>4 DEF PointsTo
<1> QED
    BY <1>1, <1>2, InvInit, InvStep, PointingStep, PTL DEF Spec

-----------------------------------------------------------------------------
(* What is lost.                                                            *)

FilesOf(H) == {file[own[h].desc] : h \in H}
EventsOf(H) == UNION {own[h].evts : h \in H}

\* The event of a connector that became a socket is nobody's.
Orphans ==
    /\ converted \subseteq registered /\ converted \cap disposed = {}
    /\ converted \cap EventsOf(InUse) = {}
    /\ \A e \in converted : e[2] = "connect"

Balanced == open = FilesOf(InUse) /\ registered = disposed \cup converted \cup EventsOf(InUse)
StrandsKept ==
    /\ \A h \in InUse : Kind[h] # "timer" => h \in strand
    /\ pending.peer # None => pending.peer \in strand

\* The destructor of g's implementation closes what is g's alone.
LEMMA BooksWithout ==
    ASSUME Inv, Balanced, Orphans, NEW g \in Handle, NEW d, NEW F, Replace(Old(g), d, F)
    PROVE  /\ open' = FilesOf(InUse \ {g}) \cup F
           /\ registered = disposed' \cup converted \cup EventsOf(InUse \ {g})
           /\ converted \cap disposed' = {}
           /\ converted \cap EventsOf(InUse \ {g}) = {}
<1>1. CASE g \in InUse
  <2>1. open' = (open \ {file[own[g].desc]}) \cup F /\ disposed' = disposed \cup own[g].evts
    BY <1>1, Destructor
  <2>2. FilesOf(InUse) \ {file[own[g].desc]} = FilesOf(InUse \ {g})
    BY <1>1 DEF FilesOf, Inv, Apart
  <2>3. EventsOf(InUse) = EventsOf(InUse \ {g}) \cup own[g].evts
    BY <1>1 DEF EventsOf
  <2> QED
    BY <2>1, <2>2, <2>3 DEF Balanced, Orphans
<1>2. CASE g \notin InUse
  <2>1. open' = (open \ {file[e] : e \in {}}) \cup F /\ disposed' = disposed \cup {}
    BY <1>2, Destructor
  <2>2. open' = open \cup F /\ disposed' = disposed /\ InUse \ {g} = InUse
    BY <1>2, <2>1
  <2> QED
    BY <2>2 DEF Balanced, Orphans
<1> QED
    BY <1>1, <1>2

\* The objects in H are in use and keep what they have, another has been given F.
Keep(H) ==
    /\ H \subseteq InUse'
    /\ \A h \in H : own'[h] = own[h] /\ file'[own[h].desc] = file[own[h].desc]

LEMMA KeptBooks ==
    ASSUME NEW H, Keep(H)
    PROVE  /\ {file'[own'[h].desc] : h \in H} = FilesOf(H)
           /\ UNION {own'[h].evts : h \in H} = EventsOf(H)
    BY DEF Keep, FilesOf, EventsOf

LEMMA GivenBooks ==
    ASSUME NEW H, Keep(H), NEW s, InUse' = H \cup {s}
    PROVE  /\ FilesOf(InUse)' = FilesOf(H) \cup {file'[own'[s].desc]}
           /\ EventsOf(InUse)' = EventsOf(H) \cup own'[s].evts
<1>1. /\ FilesOf(InUse)' = {file'[own'[h].desc] : h \in H \cup {s}}
      /\ EventsOf(InUse)' = UNION {own'[h].evts : h \in H \cup {s}}
    BY DEF FilesOf, EventsOf
<1>2. {file'[own'[h].desc] : h \in H \cup {s}} =
        {file'[own'[h].desc] : h \in H} \cup {file'[own'[s].desc]}
    OBVIOUS
<1>3. UNION {own'[h].evts : h \in H \cup {s}} = (UNION {own'[h].evts : h \in H}) \cup own'[s].evts
    OBVIOUS
<1> QED
    BY <1>1, <1>2, <1>3, KeptBooks

LEMMA StrandsStep == ASSUME FreshPeer PROVE Inv /\ StrandsKept /\ [Next]_vars => StrandsKept'
<1> SUFFICES ASSUME Inv, StrandsKept, [Next]_vars PROVE StrandsKept'
    OBVIOUS
<1>0. own \in [Handle -> Implementation \cup {None}] /\ None \notin Handle
    BY HandlesAssumption DEF Inv, Typed
<1> USE DEF StrandsKept, InUse
<1>1. ASSUME NEW h \in Handle, AssignDefault(h) PROVE StrandsKept'
    BY <1>0, <1>1, Empty, PeerStays DEF AssignDefault
<1>2. ASSUME NEW h \in Handle, AssignNew(h) PROVE StrandsKept'
    BY <1>0, <1>2, PeerStays DEF AssignNew, StrandAfter
<1>3. ASSUME NEW g \in Handle, NEW h \in Handle, Move(g, h) PROVE StrandsKept'
  <2>1. pending'.peer = Follow(PendingWithout(g).peer, g, h)
    BY <1>3 DEF Move
  <2> QED
    BY <1>0, <1>3, <2>1, PeerStays DEF Move, Follow
<1>4. ASSUME NEW s \in Handle, NEW c \in Handle, ConvertConstruct(s, c) PROVE StrandsKept'
  <2>1. ~ConvertedFrom(own[c]).strand
    BY <1>4, Converted DEF ConvertConstruct, Inv
  <2> QED
    BY <1>0, <1>4, <2>1, PeerStays DEF ConvertConstruct
<1>5. ASSUME NEW s \in Handle, NEW c \in Handle, ConvertAssign(s, c) PROVE StrandsKept'
  <2>1. ~ConvertedFrom(own[c]).strand
    BY <1>5, Converted DEF ConvertAssign, Inv
  <2> QED
    BY <1>0, <1>5, <2>1, PeerStays DEF ConvertAssign
<1>6. ASSUME NEW a \in Handle, NEW s \in Handle, Accept(a, s) PROVE StrandsKept'
    BY <1>6 DEF Accept
<1>7. CASE Accepted
    BY <1>0, <1>7 DEF Accepted, NoAccept
<1>8. CASE AcceptFails
    BY <1>8 DEF AcceptFails, NoAccept
<1>9. CASE (\E d \in Desc : Reclaim(d)) \/ UNCHANGED vars
    BY <1>9 DEF Reclaim, vars
<1> QED
    BY <1>1, <1>2, <1>3, <1>4, <1>5, <1>6, <1>7, <1>8, <1>9 DEF Next

LEMMA BooksStep ==
    ASSUME FreshPeer
    PROVE  Inv /\ Balanced /\ Orphans /\ [Next]_vars => Balanced' /\ Orphans'
<1> SUFFICES ASSUME Inv, Balanced, Orphans, [Next]_vars PROVE Balanced' /\ Orphans'
    OBVIOUS
<1>0. /\ own \in [Handle -> Implementation \cup {None}]
      /\ file \in [Desc -> Desc \cup {None}]
      /\ \A h \in InUse : /\ h \in Handle /\ own[h].desc \in Desc
                          /\ own[h].evts = {own[h].desc} \X Slots(Kind[h])
                          /\ \A e \in disposed : e[1] # own[h].desc
    BY DEF Inv, Typed, Whole, Complete, InUse
<1>a. \A d \in Lowest : d \in Desc /\ \A e \in registered : e[1] # d
    BY DEF Lowest, Free
<1>1. ASSUME NEW h \in Handle, AssignDefault(h) PROVE Balanced' /\ Orphans'
  <2>1. InUse' = InUse \ {h} /\ Keep(InUse \ {h})
    BY <1>0, <1>1, Empty DEF AssignDefault, InUse, Keep, Unchanged
  <2>2. /\ FilesOf(InUse)' = FilesOf(InUse \ {h})
        /\ EventsOf(InUse)' = EventsOf(InUse \ {h})
    BY <2>1, KeptBooks DEF FilesOf, EventsOf
  <2>3. Replace(Old(h), None, {}) /\ UNCHANGED <<registered, converted>>
    BY <1>1 DEF AssignDefault, Unchanged
  <2> QED
    BY <2>2, <2>3, BooksWithout DEF Balanced, Orphans
<1>2. ASSUME NEW h \in Handle, AssignNew(h) PROVE Balanced' /\ Orphans'
  <2>1. PICK d \in Lowest : /\ own' = [own EXCEPT ![h] = Built(Kind[h], d)]
                            /\ file' = [file EXCEPT ![d] = d]
                            /\ registered' = registered \cup ({d} \X Slots(Kind[h]))
                            /\ Replace(Old(h), d, {d})
    BY <1>2 DEF AssignNew, TakeEvents
  <2>2. converted' = converted
    BY <1>2 DEF AssignNew
  <2>3. d \in Desc /\ \A g \in InUse : own[g].desc # d
    BY FreeIsUnused
  <2>4. own'[h] = Built(Kind[h], d) /\ own'[h].desc = d /\ own'[h].evts = {d} \X Slots(Kind[h])
        /\ own'[h] # None /\ own'[h].strand
    <3>1. Kind[h] \in Kinds
      BY HandlesAssumption
    <3> QED
      BY <1>0, <2>1, <2>3, <3>1, Constructed
  <2>5. InUse' = (InUse \ {h}) \cup {h} /\ Keep(InUse \ {h}) /\ file'[d] = d
    BY <1>0, <2>1, <2>3, <2>4 DEF InUse, Keep
  <2>6. /\ FilesOf(InUse)' = FilesOf(InUse \ {h}) \cup {d}
        /\ EventsOf(InUse)' = EventsOf(InUse \ {h}) \cup ({d} \X Slots(Kind[h]))
    <3>1. /\ FilesOf(InUse)' = FilesOf(InUse \ {h}) \cup {file'[own'[h].desc]}
          /\ EventsOf(InUse)' = EventsOf(InUse \ {h}) \cup own'[h].evts
      BY <2>5, GivenBooks
    <3> QED
      BY <2>4, <2>5, <3>1
  <2>7. converted \cap ({d} \X Slots(Kind[h])) = {}
    BY <1>a DEF Orphans
  <2>8. Balanced'
    BY <2>1, <2>2, <2>6, BooksWithout DEF Balanced
  <2> QED
    BY <2>1, <2>2, <2>6, <2>7, <2>8, BooksWithout DEF Orphans
<1>3. ASSUME NEW g \in Handle, NEW h \in Handle, Move(g, h) PROVE Balanced' /\ Orphans'
  <2>1. /\ g # h /\ own' = [own EXCEPT ![g] = own[h], ![h] = None]
        /\ own[h] # None /\ Replace(Old(g), None, {})
        /\ UNCHANGED <<file, registered, converted>>
    BY <1>3 DEF Move, Unchanged
  <2>2. own'[g] = own[h] /\ own'[h] = None /\ \A x \in Handle \ {g, h} : own'[x] = own[x]
    BY <1>0, <2>1
  <2> DEFINE H == (InUse \ {g}) \ {h}
  <2>3. Keep(H)
    BY <2>1, <2>2, <1>0 DEF Keep, InUse
  <2>4. FilesOf(InUse)' = FilesOf(InUse \ {g}) /\ EventsOf(InUse)' = EventsOf(InUse \ {g})
    <3>1. CASE h \in InUse
      <4>1. InUse' = H \cup {g} /\ InUse \ {g} = H \cup {h}
        BY <2>1, <2>2, <3>1 DEF InUse
      <4> HIDE DEF H
      <4>2. /\ FilesOf(InUse)' = FilesOf(H) \cup {file[own[h].desc]}
            /\ EventsOf(InUse)' = EventsOf(H) \cup own[h].evts
        <5>1. /\ FilesOf(InUse)' = FilesOf(H) \cup {file'[own'[g].desc]}
              /\ EventsOf(InUse)' = EventsOf(H) \cup own'[g].evts
          BY <2>3, <4>1, GivenBooks
        <5> QED
          BY <2>1, <2>2, <5>1
      <4>3. /\ FilesOf(H \cup {h}) = FilesOf(H) \cup {file[own[h].desc]}
            /\ EventsOf(H \cup {h}) = EventsOf(H) \cup own[h].evts
        BY DEF FilesOf, EventsOf
      <4> QED
        BY <4>1, <4>2, <4>3
    <3>2. CASE h \notin InUse
      <4>1. InUse' = H /\ InUse \ {g} = H
        BY <2>1, <2>2, <3>2 DEF InUse
      <4> HIDE DEF H
      <4>2. FilesOf(InUse)' = FilesOf(H) /\ EventsOf(InUse)' = EventsOf(H)
        BY <2>3, <4>1, KeptBooks DEF FilesOf, EventsOf
      <4> QED
        BY <4>1, <4>2
    <3> QED
      BY <3>1, <3>2
  <2> HIDE DEF H
  <2>5. /\ open' = FilesOf(InUse \ {g}) \cup {}
        /\ registered = disposed' \cup converted \cup EventsOf(InUse \ {g})
        /\ converted \cap disposed' = {} /\ converted \cap EventsOf(InUse \ {g}) = {}
    BY <2>1, BooksWithout
  <2>6. registered' = registered /\ converted' = converted
    BY <2>1
  <2>7. Balanced'
    BY <2>4, <2>5, <2>6 DEF Balanced
  <2> QED
    BY <2>4, <2>5, <2>6, <2>7 DEF Orphans
<1>4. ASSUME NEW s \in Handle, NEW c \in Handle, ConvertConstruct(s, c)
      PROVE Balanced' /\ Orphans'
  <2>0. c \in InUse /\ Kind[c] = "connector" /\ s # c /\ converted' = converted \cup own[c].evts
    BY <1>4 DEF ConvertConstruct
  <2>1. PICK d \in Lowest :
            /\ own' = [own EXCEPT ![s] = Built("socket", d), ![c] = ConvertedFrom(@)]
            /\ file' = [file EXCEPT ![d] = file[own[c].desc]]
            /\ registered' = registered \cup ({d} \X Slots("socket"))
            /\ Replace(Old(s), d, {})
    BY <1>4 DEF ConvertConstruct, TakeEvents
  <2>2. d \in Desc /\ \A g \in InUse : own[g].desc # d
    BY FreeIsUnused
  <2>3. /\ own'[s] = Built("socket", d) /\ own'[s].desc = d
        /\ own'[s].evts = {d} \X Slots("socket") /\ own'[s] # None /\ own'[s].strand
    BY <1>0, <2>0, <2>1, <2>2, Constructed DEF Kinds
  <2>4. own'[c] = ConvertedFrom(own[c]) /\ ~own'[c].strand
    BY <1>0, <2>0, <2>1, Converted DEF Inv
  <2> DEFINE H == (InUse \ {s}) \ {c}
  <2>5. InUse' = H \cup {s} /\ Keep(H) /\ file'[d] = file[own[c].desc]
    BY <1>0, <2>0, <2>1, <2>2, <2>3, <2>4 DEF InUse, Keep
  <2>6. InUse \ {s} = H \cup {c}
    BY <2>0
  <2> HIDE DEF H
  <2>7. /\ FilesOf(InUse)' = FilesOf(H) \cup {file[own[c].desc]}
        /\ EventsOf(InUse)' = EventsOf(H) \cup ({d} \X Slots("socket"))
    <3>1. /\ FilesOf(InUse)' = FilesOf(H) \cup {file'[own'[s].desc]}
          /\ EventsOf(InUse)' = EventsOf(H) \cup own'[s].evts
      BY <2>5, GivenBooks
    <3> QED
      BY <2>3, <2>5, <3>1
  <2>8. /\ FilesOf(H \cup {c}) = FilesOf(H) \cup {file[own[c].desc]}
        /\ EventsOf(H \cup {c}) = EventsOf(H) \cup own[c].evts
    BY DEF FilesOf, EventsOf
  <2>9. Balanced'
    BY <2>0, <2>1, <2>6, <2>7, <2>8, BooksWithout DEF Balanced
  <2>10. own[c].evts = {own[c].desc} \X {"connect"}
    BY <1>0, <2>0 DEF Slots
  <2>11. \A e \in converted' : e[2] = "connect"
    BY <2>0, <2>10 DEF Orphans
  <2>12. converted' \subseteq registered'
    BY <2>0, <2>1, <2>6, <2>8, BooksWithout DEF Orphans
  <2>13. converted' \cap disposed' = {}
    <3>1. \A e \in disposed' : e[1] # own[c].desc
      BY <2>0, <2>1, OthersStay
    <3> QED
      BY <2>0, <2>1, <2>10, <3>1, BooksWithout
  <2>14. converted' \cap ({d} \X Slots("socket")) = {}
    BY <2>11 DEF Slots
  <2>15. own[c].evts \cap EventsOf(H) = {}
    <3> SUFFICES ASSUME NEW g \in H PROVE own[c].evts \cap own[g].evts = {}
      BY DEF EventsOf
    <3>1. g \in InUse /\ g # c
      BY DEF H
    <3>2. own[g].desc # own[c].desc
      BY <2>0, <3>1 DEF Inv, Apart
    <3>3. own[g].evts = {own[g].desc} \X Slots(Kind[g])
      BY <1>0, <3>1
    <3> QED
      BY <2>10, <3>2, <3>3
  <2>16. converted \cap EventsOf(H) = {}
    BY <2>1, <2>6, <2>8, BooksWithout
  <2>17. converted' \cap EventsOf(InUse)' = {}
    BY <2>0, <2>7, <2>14, <2>15, <2>16
  <2> QED
    BY <2>9, <2>11, <2>12, <2>13, <2>17 DEF Orphans
<1>5. ASSUME NEW s \in Handle, NEW c \in Handle, ConvertAssign(s, c)
      PROVE Balanced' /\ Orphans'
  <2>1. /\ c \in InUse /\ s \notin InUse /\ Kind[c] = "connector" /\ s # c
        /\ own' = [own EXCEPT ![s] = Built("socket", own[c].desc), ![c] = ConvertedFrom(@)]
        /\ registered' = registered \cup ({own[c].desc} \X Slots("socket"))
        /\ converted' = converted \cup own[c].evts
        /\ UNCHANGED <<file, open, disposed>>
    BY <1>5 DEF ConvertAssign, TakeEvents
  <2> DEFINE d == own[c].desc
             H == InUse \ {c}
  <2>2. /\ own'[s] = Built("socket", d) /\ own'[s].desc = d
        /\ own'[s].evts = {d} \X Slots("socket") /\ own'[s] # None /\ own'[s].strand
    BY <1>0, <2>1, Constructed DEF Kinds
  <2>3. own'[c] = ConvertedFrom(own[c]) /\ ~own'[c].strand
    BY <1>0, <2>1, Converted DEF Inv
  <2>4. InUse' = H \cup {s} /\ Keep(H)
    BY <1>0, <2>1, <2>2, <2>3 DEF InUse, Keep
  <2>5. InUse = H \cup {c}
    BY <2>1
  <2>6. own[c].evts = {d} \X {"connect"}
    BY <1>0, <2>1 DEF Slots
  <2>7. own[c].evts \cap EventsOf(H) = {}
    <3> SUFFICES ASSUME NEW g \in H PROVE own[c].evts \cap own[g].evts = {}
      BY DEF EventsOf
    <3>1. g \in InUse /\ g # c
      OBVIOUS
    <3>2. own[g].desc # own[c].desc
      BY <2>1, <3>1 DEF Inv, Apart
    <3>3. own[g].evts = {own[g].desc} \X Slots(Kind[g])
      BY <1>0, <3>1
    <3> QED
      BY <2>6, <3>2, <3>3
  <2>8. own[c].evts \cap disposed = {}
    BY <1>0, <2>1, <2>6
  <2> HIDE DEF H, d
  <2>9. /\ FilesOf(InUse)' = FilesOf(H) \cup {file[d]}
        /\ EventsOf(InUse)' = EventsOf(H) \cup ({d} \X Slots("socket"))
    BY <2>1, <2>2, <2>4, GivenBooks
  <2>10. FilesOf(H \cup {c}) = FilesOf(H) \cup {file[d]}
    BY DEF FilesOf, d
  <2>11. EventsOf(H \cup {c}) = EventsOf(H) \cup own[c].evts
    BY DEF EventsOf
  <2>12. Balanced'
    <3>1. open' = FilesOf(InUse)'
      BY <2>1, <2>5, <2>9, <2>10 DEF Balanced
    <3>2. registered' = disposed' \cup converted' \cup EventsOf(InUse)'
      BY <2>1, <2>5, <2>9, <2>11 DEF Balanced, d
    <3> QED
      BY <3>1, <3>2 DEF Balanced
  <2>13. \A e \in converted' : e[2] = "connect"
    BY <2>1, <2>6 DEF Orphans
  <2>14. converted' \cap ({d} \X Slots("socket")) = {}
    BY <2>13 DEF Slots
  <2>15. converted' \subseteq registered' /\ converted' \cap disposed' = {}
    BY <2>1, <2>5, <2>8, <2>11 DEF Orphans, Balanced
  <2>16. converted' \cap EventsOf(InUse)' = {}
    BY <2>1, <2>5, <2>7, <2>9, <2>11, <2>14 DEF Orphans
  <2> QED
    BY <2>12, <2>13, <2>15, <2>16 DEF Orphans
<1>6. CASE Accepted
  <2>0. PICK p \in Handle : p = pending.peer
    BY <1>6 DEF Accepted, Inv, Typed
  <2>1. p \notin InUse
    BY <1>6, <2>0 DEF Accepted, Inv, PeerWaits
  <2>2. PICK d \in Lowest : /\ own' = [own EXCEPT ![p] = Built("socket", d)]
                            /\ file' = [file EXCEPT ![d] = d]
                            /\ registered' = registered \cup ({d} \X Slots("socket"))
                            /\ open' = open \cup {d}
    BY <1>6, <2>0, Empty DEF Accepted, MovedFrom, TakeEvents
  <2>3. disposed' = disposed /\ converted' = converted
    BY <1>6 DEF Accepted
  <2>4. d \in Desc /\ \A g \in InUse : own[g].desc # d
    BY FreeIsUnused
  <2>5. /\ own'[p].desc = d /\ own'[p].evts = {d} \X Slots("socket")
        /\ own'[p] # None /\ own'[p].strand
    BY <1>0, <2>2, <2>4, Constructed DEF Kinds
  <2>6. InUse' = InUse \cup {p} /\ Keep(InUse) /\ file'[d] = d
    BY <1>0, <2>1, <2>2, <2>4, <2>5 DEF InUse, Keep
  <2>7. /\ FilesOf(InUse)' = FilesOf(InUse) \cup {d}
        /\ EventsOf(InUse)' = EventsOf(InUse) \cup ({d} \X Slots("socket"))
    BY <2>5, <2>6, GivenBooks
  <2>8. converted \cap ({d} \X Slots("socket")) = {}
    BY <1>a DEF Orphans
  <2>9. Balanced'
    BY <2>2, <2>3, <2>7 DEF Balanced
  <2> QED
    BY <2>2, <2>3, <2>7, <2>8, <2>9 DEF Orphans
<1>7. ASSUME NEW d \in Desc, Reclaim(d) PROVE Balanced' /\ Orphans'
  <2> DEFINE E == {e \in disposed : e[1] = d}
  <2>1. /\ E # {} /\ registered' = registered \ E /\ disposed' = disposed \ E
        /\ \A e \in Desc \ {d} : file'[e] = file[e]
        /\ UNCHANGED <<own, open, converted>>
    BY <1>0, <1>7 DEF Reclaim, NotGiven
  <2>2. InUse' = InUse /\ Keep(InUse)
    BY <1>0, <2>1 DEF InUse, Keep
  <2>3. FilesOf(InUse)' = FilesOf(InUse) /\ EventsOf(InUse)' = EventsOf(InUse)
    BY <2>2, KeptBooks DEF FilesOf, EventsOf
  <2>4. E \cap EventsOf(InUse) = {}
    BY <1>0 DEF EventsOf
  <2>5. E \subseteq disposed
    OBVIOUS
  <2> HIDE DEF E
  <2> QED
    BY <2>1, <2>3, <2>4, <2>5 DEF Balanced, Orphans
<1>8. CASE (\E a, s \in Handle : Accept(a, s)) \/ AcceptFails \/ UNCHANGED vars
  <2>1. UNCHANGED <<own, file, open, registered, disposed, converted>>
    BY <1>8 DEF Accept, AcceptFails, vars, descriptor
  <2>2. InUse' = InUse /\ Keep(InUse)
    BY <2>1 DEF InUse, Keep
  <2>3. FilesOf(InUse)' = FilesOf(InUse) /\ EventsOf(InUse)' = EventsOf(InUse)
    BY <2>2, KeptBooks DEF FilesOf, EventsOf
  <2> QED
    BY <2>1, <2>3 DEF Balanced, Orphans
<1> QED
    BY <1>1, <1>2, <1>3, <1>4, <1>5, <1>6, <1>7, <1>8 DEF Next

\* Moves lose nothing: each open file and each event is an object's or is on its way
\* back, but for the events of converted connectors, and strand() has one to return.
THEOREM NothingLost == ASSUME FreshPeer PROVE Spec => []Accounted
<1>1. Init => StrandsKept /\ Balanced /\ Orphans
    BY Empty, HandlesAssumption
    DEF Init, StrandsKept, Balanced, Orphans, InUse, FilesOf, EventsOf, NoAccept
<1>2. StrandsKept /\ Balanced => Accounted
    BY DEF StrandsKept, Balanced, FilesOf, EventsOf, Accounted
<1> QED
    BY <1>1, <1>2, InvInit, InvStep, StrandsStep, BooksStep, PTL DEF Spec
-----------------------------------------------------------------------------
(* Types.                                                                   *)

PointersTyped ==
    /\ strand \subseteq Handle
    /\ readEvent \in [Desc -> Event \cup {None}]
    /\ writeEvent \in [Desc -> Event \cup {None}]

LEMMA TakenTyped ==
    ASSUME PointersTyped, NEW k \in Kinds, NEW d \in Desc, TakeEvents(k, d)
    PROVE  /\ readEvent' \in [Desc -> Event \cup {None}]
           /\ writeEvent' \in [Desc -> Event \cup {None}]
<1>1. \A S \in SUBSET (Reads \cup Writes) : S # {} => <<d, CHOOSE s \in S : TRUE>> \in Event
    BY DEF Event
<1>2. ASSUME NEW f \in [Desc -> Event \cup {None}], NEW S \in SUBSET (Reads \cup Writes)
      PROVE  Pointer(f, d, S) \in [Desc -> Event \cup {None}]
  <2>1. CASE S = {}
    BY <2>1 DEF Pointer
  <2>2. CASE S # {}
    <3>1. <<d, CHOOSE s \in S : TRUE>> \in Event
      BY <1>1, <2>2
    <3>2. Pointer(f, d, S) = [f EXCEPT ![d] = <<d, CHOOSE s \in S : TRUE>>]
      BY <2>2 DEF Pointer
    <3> QED
      BY <3>1, <3>2
  <2> QED
    BY <2>1, <2>2
<1>3. /\ readEvent' = Pointer(readEvent, d, Slots(k) \cap Reads)
      /\ writeEvent' = Pointer(writeEvent, d, Slots(k) \cap Writes)
    BY DEF TakeEvents, Pointed
<1>4. /\ Slots(k) \cap Reads \in SUBSET (Reads \cup Writes)
      /\ Slots(k) \cap Writes \in SUBSET (Reads \cup Writes)
    OBVIOUS
<1> QED
    BY <1>2, <1>3, <1>4 DEF PointersTyped

LEMMA PointersStep == Inv /\ PointersTyped /\ [Next]_vars => PointersTyped'
<1> SUFFICES ASSUME Inv, PointersTyped, [Next]_vars PROVE PointersTyped'
    OBVIOUS
<1>1. \A h \in Handle : Kind[h] \in Kinds
    BY HandlesAssumption
<1>2. Lowest \subseteq Desc
    BY DEF Lowest, Free
<1>3. ASSUME NEW h \in Handle, AssignDefault(h) PROVE PointersTyped'
    BY <1>3 DEF AssignDefault, Unchanged, PointersTyped
<1>4. ASSUME NEW h \in Handle, AssignNew(h) PROVE PointersTyped'
  <2>1. strand' \subseteq Handle
    BY <1>4 DEF AssignNew, StrandAfter, PointersTyped
  <2>2. PICK d \in Lowest : TakeEvents(Kind[h], d)
    BY <1>4 DEF AssignNew
  <2> QED
    BY <1>1, <1>2, <2>1, <2>2, TakenTyped DEF PointersTyped
<1>5. ASSUME NEW g \in Handle, NEW h \in Handle, Move(g, h) PROVE PointersTyped'
    BY <1>5 DEF Move, Unchanged, PointersTyped
<1>6. ASSUME NEW s \in Handle, NEW c \in Handle, ConvertConstruct(s, c) PROVE PointersTyped'
  <2>1. strand' \subseteq Handle
    BY <1>6 DEF ConvertConstruct, PointersTyped
  <2>2. PICK d \in Lowest : TakeEvents("socket", d)
    BY <1>6 DEF ConvertConstruct
  <2>3. "socket" \in Kinds
    BY DEF Kinds
  <2> QED
    BY <1>2, <2>1, <2>2, <2>3, TakenTyped DEF PointersTyped
<1>7. ASSUME NEW s \in Handle, NEW c \in Handle, ConvertAssign(s, c) PROVE PointersTyped'
  <2>1. strand' \subseteq Handle
    BY <1>7 DEF ConvertAssign, PointersTyped
  <2>2. TakeEvents("socket", own[c].desc) /\ own[c].desc \in Desc
    BY <1>7 DEF ConvertAssign, Inv, Whole, Complete, InUse
  <2>3. "socket" \in Kinds
    BY DEF Kinds
  <2> QED
    BY <2>1, <2>2, <2>3, TakenTyped DEF PointersTyped
<1>8. ASSUME NEW a \in Handle, NEW s \in Handle, Accept(a, s) PROVE PointersTyped'
    BY <1>8 DEF Accept, descriptor, PointersTyped
<1>9. CASE Accepted
  <2>1. UNCHANGED strand
    BY <1>9 DEF Accepted
  <2>2. PICK d \in Lowest : TakeEvents("socket", d)
    BY <1>9 DEF Accepted
  <2>3. "socket" \in Kinds
    BY DEF Kinds
  <2> QED
    BY <1>2, <2>1, <2>2, <2>3, TakenTyped DEF PointersTyped
<1>10. CASE AcceptFails \/ UNCHANGED vars
    BY <1>10 DEF AcceptFails, vars, descriptor, PointersTyped
<1>11. ASSUME NEW d \in Desc, Reclaim(d) PROVE PointersTyped'
    BY <1>11 DEF Reclaim, PointersTyped
<1> QED
    BY <1>3, <1>4, <1>5, <1>6, <1>7, <1>8, <1>9, <1>10, <1>11 DEF Next

\* The variables have their types: in particular disposed and converted events are
\* registered ones, which a give of an event that has left would break.
THEOREM TypeCorrect == ASSUME FreshPeer PROVE Spec => []TypeOK
<1>1. Init => Balanced /\ Orphans /\ PointersTyped
    BY Empty, HandlesAssumption
    DEF Init, Balanced, Orphans, PointersTyped, InUse, FilesOf, EventsOf
<1>2. Inv /\ Orphans /\ PointersTyped => TypeOK
    BY DEF Inv, Typed, Orphans, PointersTyped, TypeOK
<1> QED
    BY <1>1, <1>2, InvInit, InvStep, BooksStep, PointersStep, PTL DEF Spec

=============================================================================
