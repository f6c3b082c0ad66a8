------------------------ MODULE SingleFlight_proofs ------------------------
(***************************************************************************)
(* Proofs about SingleFlight, for any number of keys, VMs and calls.       *)
(***************************************************************************)
EXTENDS SingleFlight, FiniteSetTheorems, TLAPS

FlightTable == [Keys -> Flight \cup {NoFlight}]
FrameTable == [Frames -> Frame \cup {Idle}]

-----------------------------------------------------------------------------
(* What the operators on the flight table return. *)

LEMMA EdgeUpType ==
    ASSUME TypeOK, NEW chain, NEW key \in Keys
    PROVE  /\ EdgeUp(chain, key) \in FlightTable
           /\ \A k \in Keys :
                /\ EdgeUp(chain, key)[k] = NoFlight <=> flights[k] = NoFlight
                /\ Led(k) => /\ EdgeUp(chain, key)[k].id = flights[k].id
                             /\ EdgeUp(chain, key)[k].owner = flights[k].owner
                             /\ EdgeUp(chain, key)[k].depth = flights[k].depth
                             /\ \A q \in Keys :
                                    EdgeUp(chain, key)[k].waits[q] > 0 =>
                                        \/ flights[k].waits[q] > 0
                                        \/ q = key /\ SameLead(k, chain)
<1> DEFINE new(k) == [flights[k] EXCEPT !.waits[key] = @ + 1]
<1>1. ASSUME NEW k \in Keys, Led(k)
      PROVE  /\ new(k) \in Flight
             /\ new(k).id = flights[k].id
             /\ new(k).owner = flights[k].owner
             /\ new(k).depth = flights[k].depth
             /\ \A q \in Keys : q # key => new(k).waits[q] = flights[k].waits[q]
  BY <1>1 DEF TypeOK, Flight, Led
<1>2. QED
  BY <1>1, SentinelAssumption DEF EdgeUp, SameLead, Led, TypeOK, FlightTable

LEMMA EdgeDownType ==
    ASSUME TypeOK, NEW chain, NEW key \in Keys
    PROVE  /\ EdgeDown(chain, key) \in FlightTable
           /\ \A k \in Keys :
                /\ EdgeDown(chain, key)[k] = NoFlight <=> flights[k] = NoFlight
                /\ Led(k) => /\ EdgeDown(chain, key)[k].id = flights[k].id
                             /\ EdgeDown(chain, key)[k].owner = flights[k].owner
                             /\ EdgeDown(chain, key)[k].depth = flights[k].depth
                             /\ \A q \in Keys :
                                    EdgeDown(chain, key)[k].waits[q] > 0 =>
                                        flights[k].waits[q] > 0
<1> DEFINE new(k) == [flights[k] EXCEPT !.waits[key] = @ - 1]
<1>1. ASSUME NEW k \in Keys, Led(k), flights[k].waits[key] > 0
      PROVE  /\ new(k) \in Flight
             /\ new(k).id = flights[k].id
             /\ new(k).owner = flights[k].owner
             /\ new(k).depth = flights[k].depth
             /\ \A q \in Keys : q # key => new(k).waits[q] = flights[k].waits[q]
  BY <1>1 DEF TypeOK, Flight, Led
<1>2. QED
  BY <1>1, SentinelAssumption DEF EdgeDown, SameLead, Led, TypeOK, FlightTable

LEMMA FlightsWithoutType ==
    ASSUME TypeOK, NEW S
    PROVE  FlightsWithout(S) \in FlightTable
  BY DEF FlightsWithout, TypeOK, FlightTable

(* What the operators on the calls return. *)

LEMMA NotifiedType ==
    ASSUME TypeOK, NEW S, NEW box \in Box
    PROVE  /\ Notified(S, box) \in FrameTable
           /\ \A x \in Frames : frames[x] # Idle => Notified(S, box)[x] # Idle
<1>1. ASSUME NEW x \in Frames, frames[x] # Idle
      PROVE  [frames[x] EXCEPT !.box = box] \in Frame
  BY <1>1 DEF TypeOK, Frame
<1>2. QED
  BY <1>1, SentinelAssumption DEF Notified, Subscribed, TypeOK, FrameTable

LEMMA DoomedType ==
    ASSUME NEW fr \in FrameTable, NEW S, \A x \in S : x \in Frames => fr[x] # Idle
    PROVE  Doomed(fr, S) \in FrameTable
<1>1. ASSUME NEW x \in Frames, fr[x] # Idle
      PROVE  [fr[x] EXCEPT !.run = "dead"] \in Frame
  BY <1>1 DEF Frame, FrameTable
<1>2. QED
  BY <1>1 DEF Doomed, FrameTable

LEMMA EndedType ==
    ASSUME NEW fr \in FrameTable, NEW c
    PROVE  Ended(fr, c) \in FrameTable
<1>1. ASSUME NEW x \in Frames, fr[x] # Idle
      PROVE  [fr[x] EXCEPT !.within = @ \ {c}] \in Frame
  BY <1>1 DEF Frame, FrameTable
<1>2. QED
  BY <1>1 DEF Ended, FrameTable

-----------------------------------------------------------------------------
(* The counts of VmLeads. *)

LEMMA FiniteOwned ==
    ASSUME NEW v
    PROVE  IsFiniteSet(OwnedBy(v)) /\ IsFiniteSet(NestedOf(v))
<1>1. OwnedBy(v) \in SUBSET Keys /\ NestedOf(v) \in SUBSET Keys
  BY DEF OwnedBy, NestedOf
<1>2. QED
  BY <1>1, FiniteAssumption, FS_Subset

LEMMA LeadsWithoutType ==
    ASSUME TypeOK, LeadCountsExact, NEW S
    PROVE  /\ LeadsWithout(S) \in [Vms -> VmLeads]
           /\ \A w \in Vms :
                /\ LeadsWithout(S)[w].all = Cardinality(OwnedBy(w) \ S)
                /\ LeadsWithout(S)[w].nested = Cardinality(NestedOf(w) \ S)
                /\ LeadsWithout(S)[w].depth = leads[w].depth
<1> SUFFICES ASSUME NEW w \in Vms
             PROVE  /\ LeadsWithout(S)[w] \in VmLeads
                    /\ LeadsWithout(S)[w].all = Cardinality(OwnedBy(w) \ S)
                    /\ LeadsWithout(S)[w].nested = Cardinality(NestedOf(w) \ S)
                    /\ LeadsWithout(S)[w].depth = leads[w].depth
  BY DEF LeadsWithout
<1>1. /\ Cardinality(OwnedBy(w) \ S) = Cardinality(OwnedBy(w)) - Cardinality(S \cap OwnedBy(w))
      /\ Cardinality(NestedOf(w) \ S) = Cardinality(NestedOf(w)) - Cardinality(S \cap NestedOf(w))
  <2>1. S \cap OwnedBy(w) = OwnedBy(w) \cap S /\ S \cap NestedOf(w) = NestedOf(w) \cap S
    OBVIOUS
  <2>2. /\ Cardinality(OwnedBy(w) \ S) = Cardinality(OwnedBy(w)) - Cardinality(OwnedBy(w) \cap S)
        /\ Cardinality(NestedOf(w) \ S) = Cardinality(NestedOf(w)) - Cardinality(NestedOf(w) \cap S)
    BY FiniteOwned, FS_Difference
  <2>3. QED
    BY <2>1, <2>2
<1>2. Cardinality(OwnedBy(w) \ S) \in Nat /\ Cardinality(NestedOf(w) \ S) \in Nat
  BY FiniteOwned, FS_Difference, FS_CardinalityType
<1>3. leads[w].all = Cardinality(OwnedBy(w)) /\ leads[w].nested = Cardinality(NestedOf(w))
  BY DEF LeadCountsExact
<1>4. leads[w] \in VmLeads
  BY DEF TypeOK
<1>5. QED
  BY <1>1, <1>2, <1>3, <1>4 DEF LeadsWithout, VmLeads

LEMMA OwnedWithout ==
    ASSUME TypeOK, NEW S, flights' = FlightsWithout(S), NEW w \in Vms
    PROVE  OwnedBy(w)' = OwnedBy(w) \ S /\ NestedOf(w)' = NestedOf(w) \ S
  BY DEF OwnedBy, NestedOf, Led, FlightsWithout, TypeOK

(* A step that leaves the leaderships as they are keeps the counts. *)
LEMMA SameOwners ==
    ASSUME TypeOK, LeadCountsExact,
           \A k \in Keys :
              /\ flights'[k] = NoFlight <=> flights[k] = NoFlight
              /\ Led(k) => /\ flights'[k].owner = flights[k].owner
                           /\ flights'[k].depth = flights[k].depth,
           \A w \in Vms : /\ leads'[w].all = leads[w].all
                          /\ leads'[w].nested = leads[w].nested
    PROVE  LeadCountsExact'
<1>1. ASSUME NEW w \in Vms
      PROVE  OwnedBy(w)' = OwnedBy(w) /\ NestedOf(w)' = NestedOf(w)
  BY DEF OwnedBy, NestedOf, Led
<1>2. QED
  BY <1>1 DEF LeadCountsExact

(* A step that hands the flights of S off, and may set a VM's depth. *)
LEMMA HandOff ==
    ASSUME TypeOK, LeadCountsExact, NEW S,
           flights' = FlightsWithout(S),
           \/ leads' = LeadsWithout(S)
           \/ \E v \in Vms, d \in Nat : leads' = [LeadsWithout(S) EXCEPT ![v].depth = d]
    PROVE  /\ flights' \in FlightTable
           /\ leads' \in [Vms -> VmLeads]
           /\ LeadCountsExact'
<1>1. leads' \in [Vms -> VmLeads]
  BY LeadsWithoutType DEF VmLeads
<1>2. ASSUME NEW w \in Vms
      PROVE  /\ leads'[w].all = LeadsWithout(S)[w].all
             /\ leads'[w].nested = LeadsWithout(S)[w].nested
  BY LeadsWithoutType DEF VmLeads
<1>3. ASSUME NEW w \in Vms
      PROVE  /\ leads'[w].all = Cardinality(OwnedBy(w)')
             /\ leads'[w].nested = Cardinality(NestedOf(w)')
  <2>1. OwnedBy(w)' = OwnedBy(w) \ S /\ NestedOf(w)' = NestedOf(w) \ S
    BY OwnedWithout
  <2>2. /\ leads'[w].all = Cardinality(OwnedBy(w) \ S)
        /\ leads'[w].nested = Cardinality(NestedOf(w) \ S)
    BY <1>2, LeadsWithoutType
  <2>3. QED
    BY <2>1, <2>2
<1>4. LeadCountsExact'
  BY <1>3 DEF LeadCountsExact
<1>5. QED
  BY <1>1, <1>4, FlightsWithoutType

-----------------------------------------------------------------------------
(* TypeOK is not inductive alone: that a count of VmLeads never drops below *)
(* zero takes that it is exact.                                             *)
CountInv == TypeOK /\ LeadCountsExact

LEMMA CountInit == Init => CountInv
<1> SUFFICES ASSUME Init PROVE CountInv
  OBVIOUS
<1>1. TypeOK
  BY DEF Init, TypeOK, VmLeads, Cell
<1>2. \A v \in Vms : OwnedBy(v) = {} /\ NestedOf(v) = {}
  BY DEF Init, OwnedBy, NestedOf, Led
<1>3. LeadCountsExact
  BY <1>2, FS_EmptySet DEF Init, LeadCountsExact
<1>4. QED
  BY <1>1, <1>3 DEF CountInv

(* The calls are typed after each step that touches them. *)

LEMMA FrameUpdate ==
    ASSUME NEW f \in Frame, NEW pc \in {"join", "wait", "load", "inline"}, NEW id \in Nat
    PROVE  [f EXCEPT !.pc = pc, !.id = id] \in Frame
<1>1. [f EXCEPT !.pc = pc] \in Frame
  BY DEF Frame
<1>2. \A g \in Frame : [g EXCEPT !.id = id] \in Frame
  BY DEF Frame
<1>3. [f EXCEPT !.pc = pc, !.id = id] = [[f EXCEPT !.pc = pc] EXCEPT !.id = id]
  BY DEF Frame
<1>4. QED
  BY <1>1, <1>2, <1>3

LEMMA FrameUpdateBox ==
    ASSUME NEW f \in Frame, NEW pc \in {"join", "wait", "load", "inline"}, NEW id \in Nat,
           NEW box \in Box
    PROVE  [f EXCEPT !.pc = pc, !.id = id, !.box = box] \in Frame
<1>1. [f EXCEPT !.pc = pc, !.id = id] \in Frame
  BY FrameUpdate
<1>2. \A g \in Frame : [g EXCEPT !.box = box] \in Frame
  BY DEF Frame
<1>3. [f EXCEPT !.pc = pc, !.id = id, !.box = box]
        = [[f EXCEPT !.pc = pc, !.id = id] EXCEPT !.box = box]
  BY DEF Frame
<1>4. QED
  BY <1>1, <1>2, <1>3

LEMMA NewFrameType ==
    ASSUME TypeOK, NEW v \in Vms, NEW k \in Keys,
           NEW chain \in SUBSET (Keys \X Nat), NEW within \in SUBSET Frames
    PROVE  NewFrame(v, k, chain, within) \in Frame
  BY DEF NewFrame, Frame, Box, TypeOK, VmLeads

LEMMA LoaderChainType ==
    ASSUME TypeOK, NEW p \in Frames, frames[p] # Idle
    PROVE  LoaderChain(p) \in SUBSET (Keys \X Nat)
  BY DEF LoaderChain, TypeOK, Frame

LEMMA CallsStep ==
    ASSUME CountInv, NEW c \in Frames, NEW v \in Vms, NEW p \in Frames, NEW k \in Keys,
           Call(c, v, k) \/ CallInside(c, p, k)
    PROVE  CountInv'
<1>1. frames' \in FrameTable
  <2>1. CASE Call(c, v, k)
    BY <2>1, NewFrameType DEF Call, CountInv, TypeOK, FrameTable
  <2>2. CASE CallInside(c, p, k)
    <3>1. frames[p] # Idle /\ frames[p] \in Frame
      BY <2>2 DEF CallInside, On, CountInv, TypeOK
    <3>2. frames[p].vm \in Vms /\ frames[p].within \cup {p} \in SUBSET Frames
      BY <3>1 DEF Frame
    <3>3. QED
      BY <2>2, <3>1, <3>2, NewFrameType, LoaderChainType
         DEF CallInside, CountInv, TypeOK, FrameTable
  <2>3. QED
    BY <2>1, <2>2
<1>2. UNCHANGED <<cell, flights, next_flight, leads, running>>
  BY DEF Call, CallInside
<1>3. LeadCountsExact'
  BY <1>2, SameOwners DEF CountInv
<1>4. QED
  BY <1>1, <1>2, <1>3 DEF CountInv, TypeOK, FrameTable

LEMMA JoinLeadStep ==
    ASSUME CountInv, NEW c \in Frames, JoinLead(c)
    PROVE  CountInv'
<1> DEFINE k == frames[c].key
           v == frames[c].vm
           f == [id |-> next_flight + 1, owner |-> v, depth |-> leads[v].depth,
                 waits |-> [q \in Keys |-> 0]]
<1>1. frames[c] \in Frame /\ k \in Keys /\ v \in Vms /\ ~Led(k)
  BY DEF JoinLead, AtJoin, AtDepth, On, CountInv, TypeOK, Frame
<1>2. leads[v] \in VmLeads /\ next_flight \in Nat
  BY <1>1 DEF CountInv, TypeOK
<1>3. /\ flights' = [flights EXCEPT ![k] = f]
      /\ f \in Flight
  BY <1>1, <1>2 DEF JoinLead, Flight, VmLeads
<1>4. flights' \in FlightTable
  BY <1>1, <1>3 DEF CountInv, TypeOK, FlightTable
<1>5. frames' \in FrameTable
  <2> next_flight + 1 \in Nat
    BY <1>2
  <2>1. [frames[c] EXCEPT !.pc = "load", !.id = next_flight + 1] \in Frame
    BY <1>1, FrameUpdate
  <2>2. frames' = [frames EXCEPT ![c] = [frames[c] EXCEPT !.pc = "load", !.id = next_flight + 1]]
    BY DEF JoinLead
  <2>3. QED
    BY <2>1, <2>2 DEF CountInv, TypeOK, FrameTable
<1>6. leads' \in [Vms -> VmLeads]
      /\ \A w \in Vms :
            /\ leads'[w].all = IF w = v THEN leads[w].all + 1 ELSE leads[w].all
            /\ leads'[w].nested = IF w = v /\ leads[v].depth > 0
                                  THEN leads[w].nested + 1 ELSE leads[w].nested
  BY <1>1, <1>2 DEF JoinLead, CountInv, TypeOK, VmLeads
<1>7. ASSUME NEW w \in Vms
      PROVE  /\ OwnedBy(w)' = IF w = v THEN OwnedBy(w) \cup {k} ELSE OwnedBy(w)
             /\ NestedOf(w)' = IF w = v /\ leads[v].depth > 0
                               THEN NestedOf(w) \cup {k} ELSE NestedOf(w)
             /\ k \notin OwnedBy(w) /\ k \notin NestedOf(w)
  <2>1. f # NoFlight
    BY <1>3, SentinelAssumption
  <2>2. ASSUME NEW x \in Keys
        PROVE  flights'[x] = IF x = k THEN f ELSE flights[x]
    BY <1>1, <1>3 DEF CountInv, TypeOK
  <2>3. f.owner = v /\ f.depth = leads[v].depth
    OBVIOUS
  <2> HIDE DEF f
  <2>4. OwnedBy(w)' = IF w = v THEN OwnedBy(w) \cup {k} ELSE OwnedBy(w)
    BY <1>1, <2>1, <2>2, <2>3 DEF OwnedBy, Led
  <2>5. NestedOf(w)' = IF w = v /\ leads[v].depth > 0
                       THEN NestedOf(w) \cup {k} ELSE NestedOf(w)
    BY <1>1, <2>1, <2>2, <2>3, <2>4 DEF OwnedBy, NestedOf, Led
  <2>6. QED
    BY <1>1, <2>4, <2>5 DEF OwnedBy, NestedOf
<1>8. ASSUME NEW w \in Vms
      PROVE  /\ leads'[w].all = Cardinality(OwnedBy(w)')
             /\ leads'[w].nested = Cardinality(NestedOf(w)')
  <2>1. /\ leads[w].all = Cardinality(OwnedBy(w))
        /\ leads[w].nested = Cardinality(NestedOf(w))
    BY DEF CountInv, LeadCountsExact
  <2>2. /\ Cardinality(OwnedBy(w) \cup {k}) = Cardinality(OwnedBy(w)) + 1
        /\ Cardinality(NestedOf(w) \cup {k}) = Cardinality(NestedOf(w)) + 1
    BY <1>7, FiniteOwned, FS_AddElement
  <2> HIDE DEF k, v
  <2>3. leads'[w].all = Cardinality(OwnedBy(w)')
    BY <1>6, <1>7, <2>1, <2>2
  <2>4. leads'[w].nested = Cardinality(NestedOf(w)')
    BY <1>6, <1>7, <2>1, <2>2
  <2>5. QED
    BY <2>3, <2>4
<1>9. LeadCountsExact'
  BY <1>8 DEF LeadCountsExact
<1>10. QED
  BY <1>2, <1>4, <1>5, <1>6, <1>9 DEF JoinLead, CountInv, TypeOK, FlightTable, FrameTable

LEMMA JoinWaitStep ==
    ASSUME CountInv, NEW c \in Frames, JoinWait(c)
    PROVE  CountInv'
<1> DEFINE k == frames[c].key
<1>1. /\ frames[c] # Idle /\ frames[c] \in Frame /\ k \in Keys
      /\ Led(k) /\ flights[k] \in Flight
  BY DEF JoinWait, AtJoin, AtDepth, On, CountInv, TypeOK, Frame, Led
<1>2. flights' = EdgeUp(frames[c].chain, k)
      /\ UNCHANGED <<cell, next_flight, leads, running>>
  BY DEF JoinWait
<1>3. frames' \in FrameTable
  <2>1. flights[k].id \in Nat /\ "none" \in Box
    BY <1>1 DEF Flight, Box
  <2>2. [frames[c] EXCEPT !.pc = "wait", !.id = flights[k].id, !.box = "none"] \in Frame
    BY <1>1, <2>1, FrameUpdateBox
  <2>3. frames' = [frames EXCEPT ![c] =
            [frames[c] EXCEPT !.pc = "wait", !.id = flights[k].id, !.box = "none"]]
    BY DEF JoinWait
  <2>4. QED
    BY <2>2, <2>3 DEF CountInv, TypeOK, FrameTable
<1>4. /\ flights' \in FlightTable
      /\ \A x \in Keys :
            /\ flights'[x] = NoFlight <=> flights[x] = NoFlight
            /\ Led(x) => /\ flights'[x].owner = flights[x].owner
                         /\ flights'[x].depth = flights[x].depth
  BY <1>1, <1>2, EdgeUpType DEF CountInv
<1>5. LeadCountsExact'
  BY <1>2, <1>4, SameOwners DEF CountInv
<1>6. QED
  BY <1>2, <1>3, <1>4, <1>5 DEF CountInv, TypeOK, FlightTable, FrameTable

LEMMA WakeStep ==
    ASSUME CountInv, NEW c \in Frames, Wake(c)
    PROVE  CountInv'
<1>1. frames[c] # Idle /\ frames[c] \in Frame /\ frames[c].key \in Keys
  BY DEF Wake, Turn, AtDepth, On, CountInv, TypeOK, Frame
<1>2. flights' = EdgeDown(frames[c].chain, frames[c].key)
      /\ UNCHANGED <<cell, next_flight, leads, running>>
  BY DEF Wake
<1>3. frames' \in FrameTable
  <2>1. frames \in FrameTable
    BY DEF CountInv, TypeOK, FrameTable
  <2>2. [frames[c] EXCEPT !.pc = "join", !.id = 0, !.box = "none"] \in Frame
    <3> 0 \in Nat /\ "none" \in Box
      BY DEF Box
    <3>1. QED
      BY <1>1, FrameUpdateBox
  <2>3. CASE frames[c].box = "closed"
    <3>1. frames' = [frames EXCEPT ![c] =
            [frames[c] EXCEPT !.pc = "join", !.id = 0, !.box = "none"]]
      BY <2>3 DEF Wake
    <3>2. QED
      BY <2>1, <2>2, <3>1 DEF FrameTable
  <2>4. CASE frames[c].box # "closed"
    BY <2>1, <2>4, EndedType DEF Wake
  <2>5. QED
    BY <2>3, <2>4
<1>4. /\ flights' \in FlightTable
      /\ \A x \in Keys :
            /\ flights'[x] = NoFlight <=> flights[x] = NoFlight
            /\ Led(x) => /\ flights'[x].owner = flights[x].owner
                         /\ flights'[x].depth = flights[x].depth
  BY <1>1, <1>2, EdgeDownType DEF CountInv
<1>5. LeadCountsExact'
  BY <1>2, <1>4, SameOwners DEF CountInv
<1>6. QED
  BY <1>2, <1>3, <1>4, <1>5 DEF CountInv, TypeOK, FlightTable, FrameTable

LEMMA LoaderEndsStep ==
    ASSUME CountInv, NEW c \in Frames, NEW stores \in BOOLEAN, LoaderEnds(c, stores)
    PROVE  CountInv'
<1>1. /\ flights' = FlightsWithout(TakeFlight(c))
      /\ leads' = LeadsWithout(TakeFlight(c))
      /\ frames' = Ended(Notified(TakeFlight(c), "outcome"), c)
      /\ UNCHANGED <<next_flight, running>>
  BY DEF LoaderEnds
<1>2. cell' \in [Keys -> Cell]
  BY DEF LoaderEnds, StoreLoaded, Cell, FreshCell, CountInv, TypeOK
<1>3. frames' \in FrameTable
  <2> "outcome" \in Box
    BY DEF Box
  <2>1. QED
    BY <1>1, NotifiedType, EndedType DEF CountInv
<1>4. /\ flights' \in FlightTable
      /\ leads' \in [Vms -> VmLeads]
      /\ LeadCountsExact'
  BY <1>1, HandOff DEF CountInv
<1>5. QED
  BY <1>1, <1>2, <1>3, <1>4 DEF CountInv, TypeOK, FlightTable, FrameTable

(* The guards of c drop, in a step that leaves the rest to fr. *)
LEMMA GuardsDropStep ==
    ASSUME CountInv, NEW c \in Frames, frames[c] # Idle, NEW fr \in FrameTable,
           GuardsDrop(c, fr), UNCHANGED <<cell, next_flight, running>>
    PROVE  CountInv'
<1>1. frames' \in FrameTable
  BY EndedType DEF GuardsDrop
<1>2. frames[c] \in Frame /\ frames[c].key \in Keys
  BY DEF CountInv, TypeOK, Frame
<1>3. /\ flights' \in FlightTable
      /\ leads' \in [Vms -> VmLeads]
      /\ LeadCountsExact'
  <2>1. CASE frames[c].pc = "wait"
    <3>1. TakeFlight(c) = {}
      BY <2>1 DEF TakeFlight
    <3>2. leads' = LeadsWithout({})
      BY <3>1 DEF GuardsDrop
    <3>3. /\ leads' \in [Vms -> VmLeads]
          /\ \A w \in Vms : /\ leads'[w].all = leads[w].all
                            /\ leads'[w].nested = leads[w].nested
      <4>1. \A w \in Vms : OwnedBy(w) \ {} = OwnedBy(w) /\ NestedOf(w) \ {} = NestedOf(w)
        OBVIOUS
      <4>2. QED
        BY <3>2, <4>1, LeadsWithoutType DEF CountInv, LeadCountsExact
    <3>4. /\ flights' \in FlightTable
          /\ \A x \in Keys :
                /\ flights'[x] = NoFlight <=> flights[x] = NoFlight
                /\ Led(x) => /\ flights'[x].owner = flights[x].owner
                             /\ flights'[x].depth = flights[x].depth
      BY <1>2, <2>1, EdgeDownType DEF GuardsDrop, CountInv
    <3>5. QED
      BY <3>3, <3>4, SameOwners DEF CountInv
  <2>2. CASE frames[c].pc # "wait"
    BY <2>2, HandOff DEF GuardsDrop, CountInv
  <2>3. QED
    BY <2>1, <2>2
<1>4. QED
  BY <1>1, <1>3 DEF CountInv, TypeOK, FlightTable, FrameTable

LEMMA DropStep ==
    ASSUME CountInv, NEW c \in Frames, Drop(c) \/ Collect(c)
    PROVE  CountInv'
<1> DEFINE fr == Notified(TakeFlight(c), "closed")
<1>1. /\ fr \in FrameTable
      /\ \A x \in Frames : frames[x] # Idle => fr[x] # Idle
  <2> "closed" \in Box
    BY DEF Box
  <2>1. QED
    BY NotifiedType DEF CountInv
<1>2. CASE Drop(c)
  <2>1. \A x \in Inside(c) : x \in Frames => fr[x] # Idle
    BY <1>1 DEF Inside, On
  <2>2. Doomed(fr, Inside(c)) \in FrameTable
    BY <1>1, <2>1, DoomedType
  <2>3. QED
    BY <1>2, <2>2, GuardsDropStep DEF Drop, Turn, AtDepth, On
<1>3. CASE Collect(c)
  BY <1>1, <1>3, GuardsDropStep DEF Collect
<1>4. QED
  BY <1>2, <1>3

LEMMA KillStep ==
    ASSUME CountInv, NEW c \in Frames, Kill(c)
    PROVE  CountInv'
<1>1. UNCHANGED <<cell, flights, next_flight, leads, running>>
  BY DEF Kill
<1>2. frames' \in FrameTable
  <2>1. frames \in FrameTable
    BY DEF CountInv, TypeOK, FrameTable
  <2>2. \A x \in Inside(c) \cup {c} : x \in Frames => frames[x] # Idle
    BY DEF Kill, Turn, AtDepth, Inside, On
  <2>3. QED
    BY <2>1, <2>2, DoomedType DEF Kill
<1>3. LeadCountsExact'
  BY <1>1, SameOwners DEF CountInv
<1>4. QED
  BY <1>1, <1>2, <1>3 DEF CountInv, TypeOK, FrameTable

LEMMA InlineOrHitStep ==
    ASSUME CountInv, NEW c \in Frames, JoinInline(c) \/ JoinHit(c)
    PROVE  CountInv'
<1>1. UNCHANGED <<cell, flights, next_flight, leads, running>>
  BY DEF JoinInline, JoinHit
<1>2. frames \in FrameTable /\ frames[c] # Idle
  BY DEF CountInv, TypeOK, FrameTable, JoinInline, JoinHit, AtJoin, AtDepth, On
<1>3. frames' \in FrameTable
  <2>1. CASE JoinInline(c)
    <3> 0 \in Nat
      OBVIOUS
    <3>1. [frames[c] EXCEPT !.pc = "inline", !.id = 0] \in Frame
      BY <1>2, FrameUpdate DEF FrameTable
    <3>2. frames' = [frames EXCEPT ![c] = [frames[c] EXCEPT !.pc = "inline", !.id = 0]]
      BY <2>1 DEF JoinInline
    <3>3. QED
      BY <1>2, <3>1, <3>2 DEF FrameTable
  <2>2. CASE JoinHit(c)
    BY <1>2, <2>2, EndedType DEF JoinHit
  <2>3. QED
    BY <2>1, <2>2
<1>4. LeadCountsExact'
  BY <1>1, SameOwners DEF CountInv
<1>5. QED
  BY <1>1, <1>3, <1>4 DEF CountInv, TypeOK, FrameTable

LEMMA ResumeStep ==
    ASSUME CountInv, NEW v \in Vms, Resume(v)
    PROVE  CountInv'
<1>1. /\ leads' \in [Vms -> VmLeads]
      /\ \A w \in Vms : /\ leads'[w].all = leads[w].all
                        /\ leads'[w].nested = leads[w].nested
  BY DEF Resume, CountInv, TypeOK, VmLeads
<1>2. UNCHANGED <<cell, flights, next_flight, running, frames>>
  BY DEF Resume
<1>3. LeadCountsExact'
  BY <1>1, <1>2, SameOwners DEF CountInv
<1>4. QED
  BY <1>1, <1>2, <1>3 DEF CountInv, TypeOK

LEMMA ResumeReturnsStep ==
    ASSUME CountInv, NEW v \in Vms, ResumeReturns(v)
    PROVE  CountInv'
<1> DEFINE d == leads[v].depth
           S == IF leads[v].nested # 0 THEN StartedAt(v, d) ELSE {}
           fr == Notified(S, "closed")
<1>1. d - 1 \in Nat
  BY DEF ResumeReturns, CountInv, TypeOK, VmLeads
<1>2. /\ flights' = FlightsWithout(S)
      /\ leads' = [LeadsWithout(S) EXCEPT ![v].depth = d - 1]
      /\ UNCHANGED <<cell, next_flight, running>>
  BY DEF ResumeReturns
<1>3. /\ fr \in FrameTable
      /\ \A x \in Frames : frames[x] # Idle => fr[x] # Idle
  <2> "closed" \in Box
    BY DEF Box
  <2>1. QED
    BY NotifiedType DEF CountInv
<1>4. frames' \in FrameTable
  <2> HIDE DEF fr
  <2>1. ASSUME NEW x \in Frames, fr[x] # Idle
        PROVE  [fr[x] EXCEPT !.run = "parked"] \in Frame
    BY <1>3, <2>1 DEF Frame, FrameTable
  <2>2. frames' = [x \in Frames |->
            IF x \in {c \in Frames : On(c) /\ frames[c].vm = v /\ frames[c].depth >= d}
            THEN [fr[x] EXCEPT !.run = "parked"] ELSE fr[x]]
    BY DEF ResumeReturns, fr
  <2>3. QED
    BY <1>3, <2>1, <2>2 DEF On, FrameTable
<1>5. /\ flights' \in FlightTable
      /\ leads' \in [Vms -> VmLeads]
      /\ LeadCountsExact'
  <2> HIDE DEF S, d
  <2>1. QED
    BY <1>1, <1>2, HandOff DEF CountInv
<1>6. QED
  BY <1>2, <1>4, <1>5 DEF CountInv, TypeOK, FlightTable, FrameTable

LEMMA EndRunStep ==
    ASSUME CountInv, NEW v \in Vms, EndRun(v)
    PROVE  CountInv'
<1> DEFINE S == IF leads[v].all # 0 THEN StartedAt(v, 0) ELSE {}
           left == {c \in Frames : On(c) /\ frames[c].vm = v}
<1>1. /\ flights' = FlightsWithout(S)
      /\ leads' = [LeadsWithout(S) EXCEPT ![v].depth = 0]
      /\ frames' = Doomed(Notified(S, "closed"), left)
      /\ UNCHANGED <<cell, next_flight>>
      /\ running' \in SUBSET Vms
  BY DEF EndRun, CountInv, TypeOK
<1> HIDE DEF S
<1>2. frames' \in FrameTable
  <2> "closed" \in Box
    BY DEF Box
  <2>1. /\ Notified(S, "closed") \in FrameTable
        /\ \A x \in Frames : frames[x] # Idle => Notified(S, "closed")[x] # Idle
    BY NotifiedType DEF CountInv
  <2>2. \A x \in left : x \in Frames => Notified(S, "closed")[x] # Idle
    BY <2>1 DEF On
  <2>3. QED
    BY <1>1, <2>1, <2>2, DoomedType
<1>3. /\ flights' \in FlightTable
      /\ leads' \in [Vms -> VmLeads]
      /\ LeadCountsExact'
  <2> 0 \in Nat
    OBVIOUS
  <2>1. QED
    BY <1>1, HandOff DEF CountInv
<1>4. QED
  BY <1>1, <1>2, <1>3 DEF CountInv, TypeOK, FlightTable, FrameTable

(* Steps that touch neither a flight nor a count. *)
LEMMA OtherStep ==
    ASSUME CountInv,
           \/ \E c \in Frames : ResumeParked(c)
           \/ \E v \in Vms : StartRun(v)
           \/ \E k \in Keys, to \in {"written", "missing"} : CellChanges(k, to)
           \/ UNCHANGED vars
    PROVE  CountInv'
<1>1. UNCHANGED <<flights, next_flight, leads>>
  BY DEF ResumeParked, StartRun, CellChanges, vars
<1>2. cell' \in [Keys -> Cell] /\ running' \in SUBSET Vms
  BY DEF ResumeParked, StartRun, CellChanges, vars, CountInv, TypeOK, Cell, FreshCell
<1>3. frames' \in FrameTable
  <2>1. ASSUME NEW c \in Frames, ResumeParked(c)
        PROVE  frames' \in FrameTable
    <3> DEFINE d == leads[frames[c].vm].depth
    <3>1. frames[c] \in Frame /\ d \in Nat
      BY <2>1 DEF ResumeParked, CountInv, TypeOK, Frame, VmLeads
    <3>2. [frames[c] EXCEPT !.run = "on"] \in Frame
      BY <3>1 DEF Frame
    <3>3. [[frames[c] EXCEPT !.run = "on"] EXCEPT !.depth = d] \in Frame
      BY <3>1, <3>2 DEF Frame
    <3>4. frames' = [frames EXCEPT ![c] =
                        [[frames[c] EXCEPT !.run = "on"] EXCEPT !.depth = d]]
      BY <2>1 DEF ResumeParked
    <3>5. QED
      BY <3>3, <3>4 DEF CountInv, TypeOK, FrameTable
  <2>2. QED
    BY <2>1 DEF StartRun, CellChanges, vars, CountInv, TypeOK, FrameTable
<1>4. LeadCountsExact'
  BY <1>1, SameOwners DEF CountInv
<1>5. QED
  BY <1>1, <1>2, <1>3, <1>4 DEF CountInv, TypeOK, FrameTable

LEMMA CountStep == CountInv /\ [Next]_vars => CountInv'
<1> SUFFICES ASSUME CountInv, [Next]_vars PROVE CountInv'
  OBVIOUS
<1>1. ASSUME NEW c \in Frames, NEW v \in Vms, NEW k \in Keys, Call(c, v, k)
      PROVE  CountInv'
  BY <1>1, CallsStep
<1>2. ASSUME NEW c \in Frames, NEW p \in Frames, NEW k \in Keys, CallInside(c, p, k)
      PROVE  CountInv'
  <2>1. frames[p].vm \in Vms
    BY <1>2 DEF CallInside, On, CountInv, TypeOK, Frame
  <2>2. QED
    BY <1>2, <2>1, CallsStep
<1>3. ASSUME NEW c \in Frames, NEW stores \in BOOLEAN, LoaderEnds(c, stores)
      PROVE  CountInv'
  BY <1>3, LoaderEndsStep
<1>4. ASSUME NEW c \in Frames,
             \/ JoinHit(c) \/ JoinInline(c) \/ JoinLead(c) \/ JoinWait(c)
             \/ Wake(c) \/ Drop(c) \/ Kill(c) \/ Collect(c)
      PROVE  CountInv'
  BY <1>4, InlineOrHitStep, JoinLeadStep, JoinWaitStep, WakeStep, DropStep, KillStep
<1>5. ASSUME NEW v \in Vms, Resume(v) \/ ResumeReturns(v) \/ EndRun(v)
      PROVE  CountInv'
  BY <1>5, ResumeStep, ResumeReturnsStep, EndRunStep
<1>6. QED
  BY <1>1, <1>2, <1>3, <1>4, <1>5, OtherStep DEF Next

(* Every variable keeps its type. *)
THEOREM TypeCorrect == Spec => []TypeOK
<1>1. CountInv => TypeOK
  BY DEF CountInv
<1>2. QED
  BY <1>1, CountInit, CountStep, PTL DEF Spec

(* VmLeads counts exactly the flights of its VM (join, remove_flight): the *)
(* zero that end_run and resumed look for means there is nothing to end.   *)
THEOREM CountsCorrect == Spec => []LeadCountsExact
<1>1. CountInv => LeadCountsExact
  BY DEF CountInv
<1>2. QED
  BY <1>1, CountInit, CountStep, PTL DEF Spec

-----------------------------------------------------------------------------
(* The wait edges never close a cycle.  Only JoinWait adds edges, all to    *)
(* one key, from flights of the waiter's chain; every other step takes      *)
(* edges away or adds a flight that waits on nothing.                       *)

LEMMA FewerEdges ==
    ASSUME NoCircularWait, \A k, q \in Keys : Recorded(k, q)' => Recorded(k, q)
    PROVE  NoCircularWait'
<1> SUFFICES ASSUME NEW S \in SUBSET Keys, \A k \in S : \E q \in S : Recorded(k, q)'
             PROVE  S = {}
  BY DEF NoCircularWait
<1>1. \A k \in S : \E q \in S : Recorded(k, q)
  OBVIOUS
<1>2. QED
  BY <1>1 DEF NoCircularWait

(* The search of waits_for is what keeps the new edges harmless.  It found  *)
(* a set T that holds key, is closed under the edges and misses the chain.  *)
(* A cycle that uses a new edge passes through key, so its part inside T is *)
(* not empty; leaving T is impossible, and no flight in T got an edge: that *)
(* part was a cycle before the step.                                        *)
LEMMA JoinWaitNoCycle ==
    ASSUME TypeOK, NoCircularWait, NEW c \in Frames, JoinWait(c)
    PROVE  NoCircularWait'
<1> DEFINE key == frames[c].key
           chain == frames[c].chain
<1>1. /\ frames[c] \in Frame /\ key \in Keys
      /\ flights' = EdgeUp(chain, key)
  BY DEF JoinWait, AtJoin, AtDepth, On, TypeOK, Frame
<1>2. \A k, q \in Keys : Recorded(k, q)' =>
            Recorded(k, q) \/ (q = key /\ SameLead(k, chain))
  BY <1>1, EdgeUpType DEF Recorded, Led
<1>3. CASE chain = {}
  <2>1. \A k \in Keys : ~SameLead(k, chain)
    BY <1>3 DEF SameLead
  <2>2. QED
    BY <1>2, <2>1, FewerEdges
<1>4. CASE ~WaitsFor(key, chain)
  <2>1. PICK T \in SUBSET Keys :
            /\ key \in T /\ ClosedUnderWaits(T)
            /\ ~\E link \in chain : link[1] \in T
    BY <1>4 DEF WaitsFor
  <2>2. \A k \in T : ~SameLead(k, chain)
    BY <2>1 DEF SameLead
  <2>3. \A k \in T, q \in Keys : Recorded(k, q) => q \in T
    BY <2>1 DEF ClosedUnderWaits, Recorded
  <2> SUFFICES ASSUME NEW S \in SUBSET Keys,
                      \A k \in S : \E q \in S : Recorded(k, q)'
               PROVE  S = {}
    BY DEF NoCircularWait
  <2>4. S \cap T = {}
    <3>1. \A k \in S \cap T : \E q \in S \cap T : Recorded(k, q)
      BY <1>2, <2>2, <2>3
    <3>2. QED
      BY <3>1 DEF NoCircularWait
  <2>5. \A k \in S : \E q \in S : Recorded(k, q)
    BY <1>2, <2>1, <2>4
  <2>6. QED
    BY <2>5 DEF NoCircularWait
<1>5. QED
  BY <1>3, <1>4 DEF JoinWait

LEMMA JoinLeadNoCycle ==
    ASSUME TypeOK, NoCircularWait, NEW c \in Frames, JoinLead(c)
    PROVE  NoCircularWait'
<1> DEFINE k == frames[c].key
<1>1. k \in Keys
  BY DEF JoinLead, AtJoin, AtDepth, On, TypeOK, Frame
<1>2. \A x \in Keys \ {k} : flights'[x] = flights[x]
  BY <1>1 DEF JoinLead, TypeOK
<1>3. \A q \in Keys : flights'[k].waits[q] = 0
  BY <1>1 DEF JoinLead, TypeOK
<1>4. QED
  BY <1>1, <1>2, <1>3, FewerEdges DEF Recorded, Led

(* A step that ends flights or takes a guard's edges off. *)
LEMMA WithoutNoCycle ==
    ASSUME TypeOK, NoCircularWait, NEW S, flights' = FlightsWithout(S)
    PROVE  NoCircularWait'
  BY FewerEdges DEF FlightsWithout, Recorded, Led

LEMMA EdgeDownNoCycle ==
    ASSUME TypeOK, NoCircularWait, NEW chain, NEW key \in Keys,
           flights' = EdgeDown(chain, key)
    PROVE  NoCircularWait'
  BY EdgeDownType, FewerEdges DEF Recorded, Led

LEMMA NoCycleStep == TypeOK /\ NoCircularWait /\ [Next]_vars => NoCircularWait'
<1> SUFFICES ASSUME TypeOK, NoCircularWait, [Next]_vars PROVE NoCircularWait'
  OBVIOUS
<1>1. ASSUME NEW c \in Frames, Wake(c) PROVE NoCircularWait'
  <2>1. frames[c].key \in Keys
    BY <1>1 DEF Wake, Turn, AtDepth, On, TypeOK, Frame
  <2>2. QED
    BY <1>1, <2>1, EdgeDownNoCycle DEF Wake
<1>2. ASSUME NEW c \in Frames, NEW fr, frames[c] # Idle, GuardsDrop(c, fr)
      PROVE  NoCircularWait'
  <2>1. frames[c].key \in Keys
    BY <1>2 DEF TypeOK, Frame
  <2>2. QED
    BY <1>2, <2>1, EdgeDownNoCycle, WithoutNoCycle DEF GuardsDrop
<1>3. ASSUME NEW c \in Frames, Drop(c) PROVE NoCircularWait'
  BY <1>2, <1>3 DEF Drop, Turn, AtDepth, On
<1>4. ASSUME NEW c \in Frames, Collect(c) PROVE NoCircularWait'
  BY <1>2, <1>4 DEF Collect
<1>5. ASSUME NEW c \in Frames, NEW stores \in BOOLEAN, LoaderEnds(c, stores)
      PROVE  NoCircularWait'
  BY <1>5, WithoutNoCycle DEF LoaderEnds
<1>6. ASSUME NEW v \in Vms, ResumeReturns(v) \/ EndRun(v) PROVE NoCircularWait'
  BY <1>6, WithoutNoCycle DEF ResumeReturns, EndRun
<1>7. ASSUME UNCHANGED flights PROVE NoCircularWait'
  BY <1>7, FewerEdges DEF Recorded, Led
<1>8. QED
  BY <1>1, <1>3, <1>4, <1>5, <1>6, <1>7, JoinLeadNoCycle, JoinWaitNoCycle
     DEF Next, Call, CallInside, JoinHit, JoinInline, Kill, Resume, ResumeParked,
         StartRun, CellChanges, vars

(* However many VMs, keys and nested calls there are, no set of flights     *)
(* ever waits on itself: waits_for refuses every wait that would close a    *)
(* cycle, whatever hand-offs came before.                                   *)
THEOREM NoCycle == Spec => []NoCircularWait
<1>1. Init => NoCircularWait
  BY DEF Init, NoCircularWait, Recorded, Led
<1>2. TypeOK /\ TypeOK' /\ NoCircularWait /\ [Next]_vars => NoCircularWait'
  BY NoCycleStep
<1>3. QED
  BY <1>1, <1>2, TypeCorrect, PTL DEF Spec

-----------------------------------------------------------------------------
(* The edges are those of the calls that wait, so calls never deadlock.     *)
(* A call that carried the id of a leadership still to come would gain an   *)
(* edge on it that nobody recorded: no id is ahead of next_flight.          *)
IdsInv ==
    \A c \in Frames : frames[c] # Idle =>
        /\ frames[c].pc = "load" => frames[c].id <= next_flight
        /\ \A link \in frames[c].chain : link[2] <= next_flight

SameCall(f, g) == f.pc = g.pc /\ f.key = g.key /\ f.chain = g.chain /\ f.id = g.id

(* In table fr the calls of X are the calls of frames, and still go on.     *)
KeptIn(fr, X) ==
    \A x \in X : /\ fr[x] = Idle <=> frames[x] = Idle
                 /\ frames[x] # Idle => SameCall(fr[x], frames[x])

LEMMA NotifiedKeeps ==
    ASSUME TypeOK, NEW S, NEW box \in Box
    PROVE  KeptIn(Notified(S, box), Frames)
<1>1. ASSUME NEW x \in Frames, frames[x] # Idle
      PROVE  SameCall(Notified(S, box)[x], frames[x])
  <2>1. frames[x] \in Frame
    BY <1>1 DEF TypeOK
  <2>2. QED
    BY <2>1 DEF Notified, SameCall, Frame
<1>2. ASSUME NEW x \in Frames, frames[x] = Idle
      PROVE  Notified(S, box)[x] = Idle
  BY <1>2 DEF Notified, Subscribed
<1>3. QED
  BY <1>1, <1>2, NotifiedType DEF KeptIn

LEMMA DoomedKeeps ==
    ASSUME NEW fr \in FrameTable, KeptIn(fr, Frames), NEW S,
           \A x \in S : x \in Frames => fr[x] # Idle
    PROVE  KeptIn(Doomed(fr, S), Frames)
<1> SUFFICES ASSUME NEW x \in Frames
             PROVE  /\ Doomed(fr, S)[x] = Idle <=> fr[x] = Idle
                    /\ fr[x] # Idle => SameCall(Doomed(fr, S)[x], fr[x])
  BY DEF KeptIn, SameCall
<1>1. CASE fr[x] = Idle
  BY <1>1 DEF Doomed
<1>2. CASE fr[x] # Idle
  <2>1. fr[x] \in Frame /\ [fr[x] EXCEPT !.run = "dead"] \in Frame
    BY <1>2 DEF FrameTable, Frame
  <2>2. SameCall([fr[x] EXCEPT !.run = "dead"], fr[x]) /\ SameCall(fr[x], fr[x])
    BY <2>1 DEF SameCall, Frame
  <2>3. QED
    BY <1>2, <2>1, <2>2, SentinelAssumption DEF Doomed
<1>3. QED
  BY <1>1, <1>2

LEMMA EndedKeeps ==
    ASSUME NEW fr \in FrameTable, KeptIn(fr, Frames), NEW c \in Frames
    PROVE  KeptIn(Ended(fr, c), Frames \ {c}) /\ Ended(fr, c)[c] = Idle
<1> SUFFICES ASSUME NEW x \in Frames \ {c}
             PROVE  /\ Ended(fr, c)[x] = Idle <=> fr[x] = Idle
                    /\ fr[x] # Idle => SameCall(Ended(fr, c)[x], fr[x])
  BY DEF KeptIn, SameCall, Ended
<1>1. CASE fr[x] = Idle
  BY <1>1 DEF Ended
<1>2. CASE fr[x] # Idle
  <2>1. fr[x] \in Frame /\ [fr[x] EXCEPT !.within = @ \ {c}] \in Frame
    BY <1>2 DEF FrameTable, Frame
  <2>2. SameCall([fr[x] EXCEPT !.within = @ \ {c}], fr[x])
    BY <2>1 DEF SameCall, Frame
  <2>3. QED
    BY <1>2, <2>1, <2>2, SentinelAssumption DEF Ended
<1>3. QED
  BY <1>1, <1>2

(* The ways a step touches flights and calls. *)

LEMMA EdgesKept ==
    ASSUME EdgesExact,
           \A k \in Keys : flights'[k] = NoFlight \/ flights'[k] = flights[k],
           \A x \in Frames : /\ Waiting(x)' <=> Waiting(x)
                             /\ Waiting(x) => SameCall(frames'[x], frames[x])
    PROVE  EdgesExact'
<1>1. ASSUME NEW k \in Keys, NEW q \in Keys, Led(k)'
      PROVE  /\ Led(k) /\ flights'[k] = flights[k]
             /\ EdgeHolders(k, q)' = EdgeHolders(k, q)
  BY <1>1 DEF Led, EdgeHolders, SameLead, SameCall
<1>2. QED
  BY <1>1 DEF EdgesExact

LEMMA FiniteHolders ==
    ASSUME NEW k, NEW q
    PROVE  IsFiniteSet(EdgeHolders(k, q))
<1>1. EdgeHolders(k, q) \in SUBSET Frames
  BY DEF EdgeHolders
<1>2. QED
  BY <1>1, FiniteAssumption, FS_Subset

LEMMA EdgesDown ==
    ASSUME TypeOK, EdgesExact, NEW c \in Frames,
           Waiting(c), ~Waiting(c)', KeptIn(frames', Frames \ {c}),
           flights' = EdgeDown(frames[c].chain, frames[c].key)
    PROVE  EdgesExact'
<1> DEFINE chain == frames[c].chain
           key == frames[c].key
<1>1. ASSUME NEW k \in Keys, NEW q \in Keys, Led(k)'
      PROVE  flights'[k].waits[q] = Cardinality(EdgeHolders(k, q)')
  <2>1. key \in Keys /\ c \in Frames
    BY DEF Waiting, TypeOK, Frame
  <2>2. Led(k) /\ flights[k] \in Flight
    BY <1>1, <2>1, EdgeDownType DEF Led, TypeOK
  <2>3. flights[k].waits[q] = Cardinality(EdgeHolders(k, q)) /\ flights[k].waits[q] \in Nat
    BY <2>2 DEF EdgesExact, Flight
  <2>4. flights'[k].id = flights[k].id
    BY <2>1, <2>2 DEF EdgeDown, Flight
  <2>5. SameLead(k, chain) /\ q = key <=> c \in EdgeHolders(k, q)
    BY DEF EdgeHolders
  <2>6. EdgeHolders(k, q)' = EdgeHolders(k, q) \ {c}
    BY <1>1, <2>2, <2>4 DEF EdgeHolders, SameLead, KeptIn, SameCall, Waiting, Led
  <2>7. Cardinality(EdgeHolders(k, q) \ {c}) =
            IF c \in EdgeHolders(k, q) THEN Cardinality(EdgeHolders(k, q)) - 1
                                       ELSE Cardinality(EdgeHolders(k, q))
    BY FiniteHolders, FS_RemoveElement
  <2>8. flights'[k].waits[q] =
            IF SameLead(k, chain) /\ q = key /\ flights[k].waits[q] > 0
            THEN flights[k].waits[q] - 1 ELSE flights[k].waits[q]
    BY <2>1, <2>2 DEF EdgeDown, Flight
  <2>9. Cardinality(EdgeHolders(k, q) \ {c}) \in Nat
    BY FiniteHolders, FS_RemoveElement, FS_CardinalityType
  <2>10. flights'[k].waits[q] = Cardinality(EdgeHolders(k, q) \ {c})
    BY <2>3, <2>5, <2>7, <2>8, <2>9
  <2>11. QED
    BY <2>6, <2>10
<1>2. QED
  BY <1>1 DEF EdgesExact

LEMMA EdgesUp ==
    ASSUME TypeOK, EdgesExact, NEW c \in Frames, JoinWait(c)
    PROVE  EdgesExact'
<1> DEFINE chain == frames[c].chain
           key == frames[c].key
<1>1. /\ frames[c] # Idle /\ frames[c] \in Frame /\ key \in Keys
      /\ flights' = EdgeUp(chain, key)
      /\ ~Waiting(c)
  BY DEF JoinWait, AtJoin, AtDepth, On, TypeOK, Frame, Waiting
<1>2. /\ \A x \in Frames \ {c} : frames'[x] = frames[x]
      /\ frames'[c] # Idle /\ frames'[c].pc = "wait"
      /\ frames'[c].key = key /\ frames'[c].chain = chain
  <2> DEFINE g == [frames[c] EXCEPT !.pc = "wait", !.id = flights[key].id, !.box = "none"]
  <2>1. frames' = [frames EXCEPT ![c] = g]
    BY DEF JoinWait
  <2>2. frames'[c] = g /\ \A x \in Frames \ {c} : frames'[x] = frames[x]
    BY <2>1 DEF TypeOK
  <2>3. g.pc = "wait" /\ g.key = key /\ g.chain = chain
    BY <1>1 DEF Frame
  <2>4. g \in Frame
    <3>1. flights[key].id \in Nat /\ "none" \in Box
      BY <1>1 DEF JoinWait, Led, TypeOK, Flight, Box
    <3>2. QED
      BY <1>1, <3>1, FrameUpdateBox
  <2>5. QED
    BY <2>2, <2>3, <2>4, SentinelAssumption
<1>3. ASSUME NEW k \in Keys, NEW q \in Keys, Led(k)'
      PROVE  flights'[k].waits[q] = Cardinality(EdgeHolders(k, q)')
  <2>1. Led(k) /\ flights[k] \in Flight
    BY <1>1, <1>3, EdgeUpType DEF Led, TypeOK
  <2>2. flights[k].waits[q] = Cardinality(EdgeHolders(k, q)) /\ flights[k].waits[q] \in Nat
    BY <2>1 DEF EdgesExact, Flight
  <2>3. flights'[k].id = flights[k].id
    BY <1>1, <2>1 DEF EdgeUp, Flight
  <2>4. EdgeHolders(k, q)' = IF SameLead(k, chain) /\ q = key
                             THEN EdgeHolders(k, q) \cup {c} ELSE EdgeHolders(k, q)
    BY <1>1, <1>2, <1>3, <2>1, <2>3 DEF EdgeHolders, SameLead, Waiting, Led
  <2>5. Cardinality(EdgeHolders(k, q) \cup {c}) = Cardinality(EdgeHolders(k, q)) + 1
    <3>1. c \notin EdgeHolders(k, q)
      BY <1>1 DEF EdgeHolders
    <3>2. QED
      BY <3>1, FiniteHolders, FS_AddElement
  <2>6. flights'[k].waits[q] = IF SameLead(k, chain) /\ q = key
                               THEN flights[k].waits[q] + 1 ELSE flights[k].waits[q]
    BY <1>1, <2>1 DEF EdgeUp, Flight
  <2> HIDE DEF chain, key
  <2>7. CASE SameLead(k, chain) /\ q = key
    <3>1. EdgeHolders(k, q)' = EdgeHolders(k, q) \cup {c}
      BY <2>4, <2>7
    <3>2. flights'[k].waits[q] = Cardinality(EdgeHolders(k, q) \cup {c})
      BY <2>2, <2>5, <2>6, <2>7
    <3>3. QED
      BY <3>1, <3>2
  <2>8. CASE ~(SameLead(k, chain) /\ q = key)
    <3>1. EdgeHolders(k, q)' = EdgeHolders(k, q)
      BY <2>4, <2>8
    <3>2. QED
      BY <2>2, <2>6, <2>8, <3>1
  <2>9. QED
    BY <2>7, <2>8
<1>4. QED
  BY <1>3 DEF EdgesExact

LEMMA EdgesLead ==
    ASSUME TypeOK, IdsInv, EdgesExact, NEW c \in Frames, JoinLead(c)
    PROVE  EdgesExact'
<1>1. frames[c] # Idle /\ frames[c].key \in Keys /\ ~Waiting(c)
  BY DEF JoinLead, AtJoin, AtDepth, On, TypeOK, Frame, Waiting
<1> PICK key \in Keys : key = frames[c].key
  BY <1>1
<1>2. /\ \A x \in Frames \ {c} : frames'[x] = frames[x]
      /\ ~Waiting(c)'
  <2>1. frames[c] \in Frame
    BY <1>1 DEF TypeOK
  <2>2. QED
    BY <2>1 DEF JoinLead, TypeOK, Waiting, Frame
<1>3. /\ flights'[key].id = next_flight + 1
      /\ \A q \in Keys : flights'[key].waits[q] = 0
      /\ \A k \in Keys \ {key} : flights'[k] = flights[k]
  BY <1>1 DEF JoinLead, TypeOK
<1>4. ASSUME NEW q \in Keys
      PROVE  EdgeHolders(key, q)' = {}
  <2>1. \A x \in Frames : Waiting(x)' => <<key, next_flight + 1>> \notin frames'[x].chain
    <3> SUFFICES ASSUME NEW x \in Frames \ {c}, Waiting(x),
                        <<key, next_flight + 1>> \in frames[x].chain
                 PROVE  FALSE
      BY <1>2 DEF Waiting
    <3>1. next_flight + 1 <= next_flight
      BY DEF IdsInv, Waiting
    <3>2. QED
      BY <3>1 DEF TypeOK
  <2>2. QED
    BY <1>3, <2>1 DEF EdgeHolders, SameLead
<1>5. ASSUME NEW k \in Keys \ {key}, NEW q \in Keys
      PROVE  EdgeHolders(k, q)' = EdgeHolders(k, q)
  BY <1>1, <1>2, <1>3 DEF EdgeHolders, SameLead, Waiting, Led
<1>6. ASSUME NEW k \in Keys, NEW q \in Keys, Led(k)'
      PROVE  flights'[k].waits[q] = Cardinality(EdgeHolders(k, q)')
  <2>1. CASE k = key
    BY <1>3, <1>4, <2>1, FS_EmptySet
  <2>2. CASE k # key
    <3>1. EdgeHolders(k, q)' = EdgeHolders(k, q)
      BY <1>5, <2>2
    <3>2. flights'[k].waits[q] = Cardinality(EdgeHolders(k, q))
      BY <1>3, <1>6, <2>2 DEF EdgesExact, Led
    <3>3. QED
      BY <3>1, <3>2
  <2>3. QED
    BY <2>1, <2>2
<1>7. QED
  BY <1>6 DEF EdgesExact

EdgeInv == TypeOK /\ IdsInv /\ EdgesExact

LEMMA IdsKept ==
    ASSUME IdsInv, UNCHANGED next_flight, NEW c \in Frames,
           KeptIn(frames', Frames \ {c}),
           frames'[c] # Idle =>
                /\ frames[c] # Idle /\ frames'[c].chain = frames[c].chain
                /\ frames'[c].pc = "load" => SameCall(frames'[c], frames[c])
    PROVE  IdsInv'
<1> SUFFICES ASSUME NEW x \in Frames, frames'[x] # Idle
             PROVE  /\ frames'[x].pc = "load" => frames'[x].id <= next_flight
                    /\ \A link \in frames'[x].chain : link[2] <= next_flight
  BY DEF IdsInv
<1>1. /\ frames[x] # Idle /\ frames'[x].chain = frames[x].chain
      /\ frames'[x].pc = "load" => SameCall(frames'[x], frames[x])
  BY DEF KeptIn, SameCall
<1>2. QED
  BY <1>1 DEF IdsInv, SameCall

LEMMA SelfKept == KeptIn(frames, Frames)
  BY DEF KeptIn, SameCall

(* The other calls stay as they are, and c does not wait before or after.   *)
LEMMA QuietEdges ==
    ASSUME EdgesExact, NEW c \in Frames, KeptIn(frames', Frames \ {c}),
           ~Waiting(c), ~Waiting(c)',
           \A k \in Keys : flights'[k] = NoFlight \/ flights'[k] = flights[k]
    PROVE  EdgesExact'
<1>1. ASSUME NEW x \in Frames
      PROVE  /\ Waiting(x)' <=> Waiting(x)
             /\ Waiting(x) => SameCall(frames'[x], frames[x])
  BY DEF KeptIn, SameCall, Waiting
<1>2. QED
  BY <1>1, EdgesKept

LEMMA NewCallEdges ==
    ASSUME EdgeInv, NEW c \in Frames, NEW v, NEW k, NEW chain, NEW within,
           frames[c] = Idle, UNCHANGED <<flights, next_flight>>,
           frames' = [frames EXCEPT ![c] = NewFrame(v, k, chain, within)],
           \A link \in chain : link[2] <= next_flight
    PROVE  IdsInv' /\ EdgesExact'
<1>1. /\ frames'[c].pc = "join" /\ frames'[c].chain = chain
      /\ \A x \in Frames \ {c} : frames'[x] = frames[x]
  BY DEF NewFrame, EdgeInv, TypeOK
<1>2. IdsInv'
  BY <1>1 DEF EdgeInv, IdsInv
<1>3. \A x \in Frames : /\ Waiting(x)' <=> Waiting(x)
                        /\ Waiting(x) => SameCall(frames'[x], frames[x])
  BY <1>1 DEF Waiting, SameCall
<1>4. EdgesExact'
  BY <1>3, EdgesKept DEF EdgeInv
<1>5. QED
  BY <1>2, <1>4

LEMMA CallEdges ==
    ASSUME EdgeInv, NEW c \in Frames, NEW v, NEW k, NEW p \in Frames,
           Call(c, v, k) \/ CallInside(c, p, k)
    PROVE  IdsInv' /\ EdgesExact'
<1>1. CASE Call(c, v, k)
  <2> DEFINE none == {}
  <2>1. \A link \in none : link[2] <= next_flight
    OBVIOUS
  <2>2. /\ frames[c] = Idle /\ UNCHANGED <<flights, next_flight>>
        /\ frames' = [frames EXCEPT ![c] = NewFrame(v, k, none, none)]
    BY <1>1 DEF Call
  <2> HIDE DEF none
  <2>3. QED
    BY <2>1, <2>2, NewCallEdges
<1>2. CASE CallInside(c, p, k)
  <2>1. \A link \in LoaderChain(p) : link[2] <= next_flight
    BY <1>2 DEF CallInside, On, LoaderChain, EdgeInv, IdsInv
  <2>2. QED
    BY <1>2, <2>1, NewCallEdges DEF CallInside
<1>3. QED
  BY <1>1, <1>2

LEMMA JoinEdges ==
    ASSUME EdgeInv, NEW c \in Frames, JoinLead(c) \/ JoinWait(c) \/ JoinInline(c)
    PROVE  IdsInv' /\ EdgesExact'
<1>1. /\ frames[c] # Idle /\ frames[c] \in Frame /\ ~Waiting(c)
      /\ next_flight \in Nat
  BY DEF JoinLead, JoinWait, JoinInline, AtJoin, AtDepth, On, EdgeInv, TypeOK, Waiting
<1>2. /\ frames'[c].chain = frames[c].chain
      /\ \A x \in Frames \ {c} : frames'[x] = frames[x]
      /\ JoinLead(c) => frames'[c].id = next_flight + 1 /\ next_flight' = next_flight + 1
      /\ JoinWait(c) => frames'[c].pc = "wait" /\ next_flight' = next_flight
      /\ JoinInline(c) => /\ frames'[c].pc = "inline" /\ ~Waiting(c)'
                          /\ UNCHANGED <<flights, next_flight>>
  <2> DEFINE lead == [frames[c] EXCEPT !.pc = "load", !.id = next_flight + 1]
             wait == [frames[c] EXCEPT !.pc = "wait", !.id = flights[frames[c].key].id,
                                       !.box = "none"]
             inline == [frames[c] EXCEPT !.pc = "inline", !.id = 0]
  <2>1. /\ lead.chain = frames[c].chain /\ lead.id = next_flight + 1
        /\ wait.chain = frames[c].chain /\ wait.pc = "wait"
        /\ inline.chain = frames[c].chain /\ inline.pc = "inline"
    BY <1>1 DEF Frame
  <2>2. /\ JoinLead(c) => frames' = [frames EXCEPT ![c] = lead] /\ next_flight' = next_flight + 1
        /\ JoinWait(c) => frames' = [frames EXCEPT ![c] = wait] /\ UNCHANGED next_flight
        /\ JoinInline(c) => /\ frames' = [frames EXCEPT ![c] = inline]
                            /\ UNCHANGED <<flights, next_flight>>
    BY DEF JoinLead, JoinWait, JoinInline
  <2> HIDE DEF lead, wait, inline
  <2>3. QED
    BY <2>1, <2>2 DEF EdgeInv, TypeOK, Waiting
<1>3. ASSUME NEW x \in Frames, frames'[x] # Idle
      PROVE  /\ frames'[x].pc = "load" => frames'[x].id <= next_flight'
             /\ \A link \in frames'[x].chain : link[2] <= next_flight'
  <2>1. next_flight' \in Nat /\ next_flight <= next_flight'
    BY <1>1, <1>2
  <2>2. frames[x] # Idle /\ frames[x] \in Frame /\ frames'[x].chain = frames[x].chain
    BY <1>1, <1>2, <1>3 DEF EdgeInv, TypeOK
  <2>3. frames'[x].pc = "load" => frames'[x].id <= next_flight'
    <3>1. CASE x = c
      BY <1>1, <1>2, <3>1
    <3>2. CASE x # c
      BY <1>1, <1>2, <2>1, <2>2, <3>2 DEF EdgeInv, IdsInv, Frame
    <3>3. QED
      BY <3>1, <3>2
  <2>4. \A link \in frames'[x].chain : link[2] <= next_flight'
    <3> SUFFICES ASSUME NEW link \in frames[x].chain PROVE link[2] <= next_flight'
      BY <2>2
    <3>1. link[2] <= next_flight /\ link[2] \in Nat
      BY <2>2 DEF EdgeInv, IdsInv, Frame
    <3>2. QED
      BY <1>1, <2>1, <3>1
  <2>5. QED
    BY <2>3, <2>4
<1>4. IdsInv'
  BY <1>3 DEF IdsInv
<1>5. JoinInline(c) => EdgesExact'
  <2>1. JoinInline(c) => KeptIn(frames', Frames \ {c})
    BY <1>2 DEF KeptIn, SameCall
  <2>2. QED
    BY <1>1, <1>2, <2>1, QuietEdges DEF EdgeInv
<1>6. QED
  BY <1>4, <1>5, EdgesUp, EdgesLead DEF EdgeInv

LEMMA EndEdges ==
    ASSUME EdgeInv, NEW c \in Frames,
           \/ JoinHit(c) \/ Wake(c) \/ \E stores \in BOOLEAN : LoaderEnds(c, stores)
    PROVE  IdsInv' /\ EdgesExact'
<1>1. /\ TypeOK /\ IdsInv /\ EdgesExact /\ frames \in FrameTable
      /\ frames[c] # Idle /\ frames[c] \in Frame
  BY DEF EdgeInv, TypeOK, FrameTable, JoinHit, AtJoin, Wake, Turn, LoaderEnds, AtDepth, On
<1>2. CASE JoinHit(c)
  <2>1. KeptIn(frames', Frames \ {c}) /\ frames'[c] = Idle
    BY <1>1, <1>2, SelfKept, EndedKeeps DEF JoinHit
  <2>2. ~Waiting(c) /\ ~Waiting(c)' /\ UNCHANGED <<flights, next_flight>>
    BY <1>2, <2>1 DEF JoinHit, AtJoin, Waiting
  <2>3. QED
    BY <1>1, <2>1, <2>2, IdsKept, QuietEdges
<1>3. CASE Wake(c)
  <2>1. /\ KeptIn(frames', Frames \ {c})
        /\ frames'[c] # Idle => /\ frames'[c].chain = frames[c].chain
                                /\ frames'[c].pc = "join"
    <3>1. CASE frames[c].box = "closed"
      <4>1. frames' = [frames EXCEPT ![c] =
                [frames[c] EXCEPT !.pc = "join", !.id = 0, !.box = "none"]]
        BY <1>3, <3>1 DEF Wake
      <4>2. QED
        BY <1>1, <4>1 DEF FrameTable, Frame, KeptIn, SameCall
    <3>2. CASE frames[c].box # "closed"
      BY <1>1, <1>3, <3>2, SelfKept, EndedKeeps DEF Wake
    <3>3. QED
      BY <3>1, <3>2
  <2>2. Waiting(c) /\ ~Waiting(c)' /\ UNCHANGED next_flight
    BY <1>1, <1>3, <2>1 DEF Wake, Waiting
  <2>3. flights' = EdgeDown(frames[c].chain, frames[c].key)
    BY <1>3 DEF Wake
  <2>4. EdgesExact'
    BY <1>1, <2>1, <2>2, <2>3, EdgesDown
  <2>5. IdsInv'
    BY <1>1, <2>1, <2>2, IdsKept
  <2>6. QED
    BY <2>4, <2>5
<1>4. ASSUME NEW stores \in BOOLEAN, LoaderEnds(c, stores)
      PROVE  IdsInv' /\ EdgesExact'
  <2> DEFINE fr == Notified(TakeFlight(c), "outcome")
  <2>1. fr \in FrameTable /\ KeptIn(fr, Frames)
    <3> "outcome" \in Box
      BY DEF Box
    <3>1. QED
      BY <1>1, NotifiedType, NotifiedKeeps
  <2>2. KeptIn(frames', Frames \ {c}) /\ frames'[c] = Idle
    BY <1>4, <2>1, EndedKeeps DEF LoaderEnds
  <2>3. /\ ~Waiting(c) /\ ~Waiting(c)' /\ UNCHANGED next_flight
        /\ \A k \in Keys : flights'[k] = NoFlight \/ flights'[k] = flights[k]
    BY <1>4, <2>2 DEF LoaderEnds, Waiting, FlightsWithout
  <2>4. QED
    BY <1>1, <2>2, <2>3, IdsKept, QuietEdges
<1>5. QED
  BY <1>2, <1>3, <1>4

LEMMA DropEdges ==
    ASSUME EdgeInv, NEW c \in Frames, frames[c] # Idle,
           NEW fr \in FrameTable, KeptIn(fr, Frames), GuardsDrop(c, fr),
           UNCHANGED next_flight
    PROVE  IdsInv' /\ EdgesExact'
<1>1. KeptIn(frames', Frames \ {c}) /\ frames'[c] = Idle
  BY EndedKeeps DEF GuardsDrop
<1>2. IdsInv'
  BY <1>1, IdsKept DEF EdgeInv
<1>3. CASE frames[c].pc = "wait"
  <2>1. Waiting(c) /\ ~Waiting(c)' /\ flights' = EdgeDown(frames[c].chain, frames[c].key)
    BY <1>1, <1>3 DEF GuardsDrop, Waiting
  <2>2. QED
    BY <1>1, <1>2, <2>1, EdgesDown DEF EdgeInv
<1>4. CASE frames[c].pc # "wait"
  <2>1. /\ ~Waiting(c) /\ ~Waiting(c)'
        /\ \A k \in Keys : flights'[k] = NoFlight \/ flights'[k] = flights[k]
    BY <1>1, <1>4 DEF GuardsDrop, Waiting, FlightsWithout
  <2>2. QED
    BY <1>1, <1>2, <2>1, QuietEdges DEF EdgeInv
<1>5. QED
  BY <1>3, <1>4

LEMMA LostEdges ==
    ASSUME EdgeInv, NEW c \in Frames, Drop(c) \/ Collect(c)
    PROVE  IdsInv' /\ EdgesExact'
<1> DEFINE fr == Notified(TakeFlight(c), "closed")
<1>1. /\ fr \in FrameTable /\ KeptIn(fr, Frames)
      /\ \A x \in Frames : frames[x] # Idle => fr[x] # Idle
  <2> "closed" \in Box
    BY DEF Box
  <2>1. QED
    BY NotifiedType, NotifiedKeeps DEF EdgeInv
<1> HIDE DEF fr
<1>2. CASE Drop(c)
  <2>1. \A x \in Inside(c) : x \in Frames => fr[x] # Idle
    BY <1>1 DEF Inside, On
  <2>2. Doomed(fr, Inside(c)) \in FrameTable /\ KeptIn(Doomed(fr, Inside(c)), Frames)
    BY <1>1, <2>1, DoomedType, DoomedKeeps
  <2>3. QED
    BY <1>2, <2>2, DropEdges DEF Drop, Turn, AtDepth, On, fr
<1>3. CASE Collect(c)
  BY <1>1, <1>3, DropEdges DEF Collect, fr
<1>4. QED
  BY <1>2, <1>3

(* Steps that keep every call going on as it is. *)
LEMMA KeptEdges ==
    ASSUME EdgeInv, KeptIn(frames', Frames), UNCHANGED next_flight,
           \A k \in Keys : flights'[k] = NoFlight \/ flights'[k] = flights[k]
    PROVE  IdsInv' /\ EdgesExact'
<1>1. IdsInv'
  BY DEF EdgeInv, IdsInv, KeptIn, SameCall
<1>2. \A x \in Frames : /\ Waiting(x)' <=> Waiting(x)
                        /\ Waiting(x) => SameCall(frames'[x], frames[x])
  BY DEF KeptIn, SameCall, Waiting
<1>3. QED
  BY <1>1, <1>2, EdgesKept DEF EdgeInv

LEMMA RunEdges ==
    ASSUME EdgeInv, NEW v \in Vms,
           Resume(v) \/ StartRun(v) \/ ResumeReturns(v) \/ EndRun(v)
    PROVE  IdsInv' /\ EdgesExact'
<1>1. CASE Resume(v) \/ StartRun(v)
  BY <1>1, SelfKept, KeptEdges DEF Resume, StartRun
<1>2. CASE ResumeReturns(v)
  <2> DEFINE d == leads[v].depth
             S == IF leads[v].nested # 0 THEN StartedAt(v, d) ELSE {}
             parked == {c \in Frames : On(c) /\ frames[c].vm = v /\ frames[c].depth >= d}
             fr == Notified(S, "closed")
  <2>1. fr \in FrameTable /\ KeptIn(fr, Frames)
    <3>1. "closed" \in Box
      BY DEF Box
    <3>2. QED
      BY <3>1, NotifiedType, NotifiedKeeps DEF EdgeInv
  <2>2. /\ frames' = [x \in Frames |-> IF x \in parked THEN [fr[x] EXCEPT !.run = "parked"]
                                                       ELSE fr[x]]
        /\ flights' = FlightsWithout(S) /\ UNCHANGED next_flight
    BY <1>2 DEF ResumeReturns
  <2>3. \A x \in parked : x \in Frames /\ frames[x] # Idle
    BY DEF On
  <2> HIDE DEF S, parked, fr
  <2>4. ASSUME NEW x \in Frames
        PROVE  /\ frames'[x] = Idle <=> frames[x] = Idle
               /\ frames[x] # Idle => SameCall(frames'[x], frames[x])
    <3>1. CASE x \in parked
      <4>1. fr[x] \in Frame /\ frames[x] # Idle /\ SameCall(fr[x], frames[x])
        BY <2>1, <2>3, <3>1 DEF FrameTable, KeptIn
      <4>2. /\ [fr[x] EXCEPT !.run = "parked"] \in Frame
            /\ SameCall([fr[x] EXCEPT !.run = "parked"], fr[x])
        BY <4>1 DEF SameCall, Frame
      <4>3. QED
        BY <2>2, <3>1, <4>1, <4>2, SentinelAssumption DEF SameCall
    <3>2. CASE x \notin parked
      BY <2>1, <2>2, <3>2 DEF KeptIn
    <3>3. QED
      BY <3>1, <3>2
  <2>5. KeptIn(frames', Frames)
    BY <2>4 DEF KeptIn
  <2>6. QED
    BY <2>2, <2>5, KeptEdges DEF FlightsWithout
<1>3. CASE EndRun(v)
  <2> DEFINE S == IF leads[v].all # 0 THEN StartedAt(v, 0) ELSE {}
             left == {c \in Frames : On(c) /\ frames[c].vm = v}
             fr == Notified(S, "closed")
  <2>1. fr \in FrameTable /\ KeptIn(fr, Frames)
    <3>1. "closed" \in Box
      BY DEF Box
    <3>2. QED
      BY <3>1, NotifiedType, NotifiedKeeps DEF EdgeInv
  <2>2. frames' = Doomed(fr, left) /\ flights' = FlightsWithout(S) /\ UNCHANGED next_flight
    BY <1>3 DEF EndRun
  <2>3. \A x \in left : x \in Frames /\ frames[x] # Idle
    BY DEF On
  <2> HIDE DEF S, left, fr
  <2>4. KeptIn(frames', Frames)
    <3>1. \A x \in left : x \in Frames => fr[x] # Idle
      BY <2>1, <2>3 DEF KeptIn
    <3>2. QED
      BY <2>1, <2>2, <3>1, DoomedKeeps
  <2>5. QED
    BY <2>2, <2>4, KeptEdges DEF FlightsWithout
<1>4. QED
  BY <1>1, <1>2, <1>3

LEMMA StillEdges ==
    ASSUME EdgeInv, NEW c \in Frames, Kill(c) \/ ResumeParked(c)
    PROVE  IdsInv' /\ EdgesExact'
<1>1. UNCHANGED <<flights, next_flight>> /\ frames[c] # Idle /\ frames \in FrameTable
  BY DEF Kill, ResumeParked, Turn, AtDepth, On, EdgeInv, TypeOK, FrameTable
<1>2. KeptIn(frames', Frames)
  <2>1. CASE Kill(c)
    <3>1. \A x \in Inside(c) \cup {c} : x \in Frames => frames[x] # Idle
      BY <1>1 DEF Inside, On
    <3>2. QED
      BY <1>1, <2>1, <3>1, SelfKept, DoomedKeeps DEF Kill
  <2>2. CASE ResumeParked(c)
    <3> DEFINE g == [frames[c] EXCEPT !.run = "on", !.depth = leads[frames[c].vm].depth]
    <3>1. frames' = [frames EXCEPT ![c] = g]
      BY <2>2 DEF ResumeParked
    <3>2. g # Idle /\ SameCall(g, frames[c])
      <4>1. frames[c] \in Frame /\ leads[frames[c].vm].depth \in Nat
        BY <1>1 DEF FrameTable, EdgeInv, TypeOK, Frame, VmLeads
      <4>2. SameCall(g, frames[c])
        BY <4>1 DEF SameCall, Frame
      <4>3. [frames[c] EXCEPT !.run = "on"] \in Frame
        BY <4>1 DEF Frame
      <4>4. \A h \in Frame : [h EXCEPT !.depth = leads[frames[c].vm].depth] \in Frame
        BY <4>1 DEF Frame
      <4>5. g = [[frames[c] EXCEPT !.run = "on"] EXCEPT !.depth = leads[frames[c].vm].depth]
        BY <4>1 DEF Frame
      <4>6. QED
        BY <4>2, <4>3, <4>4, <4>5, SentinelAssumption
    <3> HIDE DEF g
    <3>3. QED
      BY <1>1, <3>1, <3>2 DEF KeptIn, SameCall, FrameTable
  <2>3. QED
    BY <2>1, <2>2
<1>3. QED
  BY <1>1, <1>2, KeptEdges

LEMMA EdgeStep ==
    ASSUME EdgeInv, [Next]_vars
    PROVE  IdsInv' /\ EdgesExact'
<1>1. CASE UNCHANGED vars
  BY <1>1, SelfKept, KeptEdges DEF vars
<1>2. CASE \E k \in Keys, to \in {"written", "missing"} : CellChanges(k, to)
  BY <1>2, SelfKept, KeptEdges DEF CellChanges
<1>3. CASE Next
  BY <1>2, <1>3, CallEdges, JoinEdges, EndEdges, LostEdges, RunEdges, StillEdges DEF Next
<1>4. QED
  BY <1>1, <1>3

LEMMA EdgeInit == Init => IdsInv /\ EdgesExact
  BY DEF Init, IdsInv, EdgesExact, Led

LEMMA EdgeInvAlways == Spec => []EdgeInv
<1>1. Init => IdsInv /\ EdgesExact
  BY EdgeInit
<1>2. TypeOK /\ (IdsInv /\ EdgesExact) /\ [Next]_vars => (IdsInv /\ EdgesExact)'
  BY EdgeStep DEF EdgeInv
<1>3. Spec => [](IdsInv /\ EdgesExact)
  BY <1>1, <1>2, TypeCorrect, PTL DEF Spec
<1>4. TypeOK /\ IdsInv /\ EdgesExact => EdgeInv
  BY DEF EdgeInv
<1>5. QED
  BY <1>3, <1>4, TypeCorrect, PTL

(* Each wait edge counts exactly the WaitGuards that hold it (join, Drop    *)
(* for WaitGuard), so an edge is there as long as one call still waits and  *)
(* not a step longer.                                                       *)
THEOREM EdgesCorrect == Spec => []EdgesExact
<1>1. EdgeInv => EdgesExact
  BY DEF EdgeInv
<1>2. QED
  BY <1>1, EdgeInvAlways, PTL

(* No fetch calls ever wait on each other in a cycle, whatever VMs their    *)
(* loaders run on: a call that waits has its edge recorded (EdgesExact),    *)
(* and the recorded edges have no cycle (NoCircularWait).                   *)
THEOREM DeadlockFree == Spec => []NoDeadlock
<1>1. ASSUME EdgesExact, NEW k \in Keys, NEW q \in Keys, Led(k), BlockedOn(k, q)
      PROVE  Recorded(k, q)
  <2>1. IsFiniteSet(EdgeHolders(k, q)) /\ EdgeHolders(k, q) # {}
    BY <1>1, FiniteHolders DEF BlockedOn, EdgeHolders
  <2>2. Cardinality(EdgeHolders(k, q)) \in Nat /\ Cardinality(EdgeHolders(k, q)) # 0
    BY <2>1, FS_CardinalityType, FS_EmptySet
  <2>3. flights[k].waits[q] = Cardinality(EdgeHolders(k, q))
    BY <1>1 DEF EdgesExact
  <2>4. QED
    BY <1>1, <2>2, <2>3 DEF Recorded
<1>2. EdgesExact /\ NoCircularWait => NoDeadlock
  <2> SUFFICES ASSUME EdgesExact, NoCircularWait, NEW S \in SUBSET Keys,
                      \A k \in S : Led(k) /\ \E q \in S : BlockedOn(k, q)
               PROVE  S = {}
    BY DEF NoDeadlock
  <2>1. \A k \in S : \E q \in S : Recorded(k, q)
    BY <1>1
  <2>2. QED
    BY <2>1 DEF NoCircularWait
<1>3. QED
  BY <1>2, NoCycle, EdgesCorrect, PTL

(* The edges, and what the calls really wait for, together. *)
THEOREM WaitsCorrect == Spec => []WaitsSound
<1>1. EdgesExact /\ NoCircularWait /\ NoDeadlock => WaitsSound
  BY DEF WaitsSound
<1>2. QED
  BY <1>1, EdgesCorrect, NoCycle, DeadlockFree, PTL


-----------------------------------------------------------------------------
(* Who leads a flight.  A flight in the table has one leader: the call that *)
(* loads its key, on its VM, since its resume, and that the script has not  *)
(* parked.  A call of a run's own tasks that loads is always such a leader; *)
(* one that was resumed out of a coroutine may have lost its flight.        *)
Loads(c) == frames[c] # Idle /\ frames[c].pc = "load"

Leads(c, k) ==
    /\ Loads(c) /\ frames[c].run # "parked"
    /\ frames[c].key = k
    /\ frames[c].id = flights[k].id
    /\ frames[c].vm = flights[k].owner
    /\ frames[c].depth = flights[k].depth

(* Every leadership is one call's. *)
OwnIds == \A c, d \in Frames : Loads(c) /\ Loads(d) /\ frames[c].id = frames[d].id => c = d

AllLed ==
    \A k \in Keys : Led(k) => flights[k].owner \in running /\ \E c \in Frames : Leads(c, k)

OutsideLeads ==
    \A c \in Frames : On(c) /\ Loads(c) /\ frames[c].depth = 0
        => Led(frames[c].key) /\ flights[frames[c].key].id = frames[c].id

LeadInv == OwnIds /\ AllLed /\ OutsideLeads /\ WaiterHasFlight

SameRole(f, g) ==
    f.pc = g.pc /\ f.key = g.key /\ f.id = g.id /\ f.vm = g.vm /\ f.depth = g.depth

(* The flights of S end, the others keep their leaders. *)
EndFlights(S) ==
    \A k \in Keys :
        /\ k \in S => flights'[k] = NoFlight
        /\ k \notin S => /\ flights'[k] = NoFlight <=> flights[k] = NoFlight
                         /\ Led(k) => /\ flights'[k].id = flights[k].id
                                      /\ flights'[k].owner = flights[k].owner
                                      /\ flights'[k].depth = flights[k].depth
                                      /\ flights[k].owner \in running'

LoadersFrom(x) == Loads(x)' => Loads(x) /\ frames'[x].key = frames[x].key
                                        /\ frames'[x].id = frames[x].id

LeadersStay(x, S) ==
    \A k \in Keys : k \notin S /\ Led(k) /\ Leads(x, k) =>
        frames'[x] # Idle /\ SameRole(frames'[x], frames[x]) /\ frames'[x].run # "parked"

OutsideStays(x, S) ==
    On(x)' /\ Loads(x)' /\ frames'[x].depth = 0 =>
        On(x) /\ frames[x].depth = 0 /\ frames[x].key \notin S

WaitersTold(x, S) ==
    Waiting(x)' /\ frames'[x].box = "none" =>
        /\ Led(frames'[x].key) /\ flights[frames'[x].key].id = frames'[x].id
        /\ frames'[x].key \notin S

LEMMA LeadKept ==
    ASSUME TypeOK, TypeOK', LeadInv, NEW S, EndFlights(S),
           \A x \in Frames : /\ LoadersFrom(x) /\ LeadersStay(x, S)
                             /\ OutsideStays(x, S) /\ WaitersTold(x, S)
    PROVE  LeadInv'
<1>1. OwnIds'
  BY DEF LeadInv, OwnIds, LoadersFrom
<1>2. AllLed'
  <2> SUFFICES ASSUME NEW k \in Keys, Led(k)'
               PROVE  flights'[k].owner \in running' /\ \E c \in Frames : Leads(c, k)'
    BY DEF AllLed
  <2>1. k \notin S /\ Led(k)
    BY DEF EndFlights, Led
  <2>2. PICK c \in Frames : Leads(c, k)
    BY <2>1 DEF LeadInv, AllLed
  <2>3. Leads(c, k)'
    BY <2>1, <2>2 DEF LeadersStay, EndFlights, Leads, Loads, SameRole
  <2>4. QED
    BY <2>1, <2>3 DEF EndFlights
<1>3. OutsideLeads'
  <2> SUFFICES ASSUME NEW c \in Frames, On(c)', Loads(c)', frames'[c].depth = 0
               PROVE  flights'[frames'[c].key] # NoFlight /\ flights'[frames'[c].key].id = frames'[c].id
    BY DEF OutsideLeads, Led
  <2>1. /\ On(c) /\ Loads(c) /\ frames[c].depth = 0 /\ frames[c].key \notin S
        /\ frames'[c].key = frames[c].key /\ frames'[c].id = frames[c].id
    BY DEF OutsideStays, LoadersFrom
  <2>2. Led(frames[c].key) /\ flights[frames[c].key].id = frames[c].id
    BY <2>1 DEF LeadInv, OutsideLeads
  <2>3. frames[c].key \in Keys
    BY <2>1 DEF Loads, TypeOK, Frame
  <2>4. QED
    BY <2>1, <2>2, <2>3 DEF EndFlights, Led
<1>4. WaiterHasFlight'
  <2> SUFFICES ASSUME NEW c \in Frames, Waiting(c)', frames'[c].box = "none"
               PROVE  flights'[frames'[c].key] # NoFlight /\ flights'[frames'[c].key].id = frames'[c].id
    BY DEF WaiterHasFlight, Led
  <2>1. frames'[c].key \in Keys
    BY DEF Waiting, TypeOK, Frame
  <2>2. QED
    BY <2>1 DEF WaitersTold, EndFlights, Led
<1>5. QED
  BY <1>1, <1>2, <1>3, <1>4 DEF LeadInv


(* What a step tells of one call when it ends the flights of S: a call that *)
(* waits for one of them has an outcome, the others go on or die.           *)
GoesOn(f, x, S) ==
    /\ f # Idle <=> frames[x] # Idle
    /\ frames[x] # Idle =>
        /\ SameRole(f, frames[x])
        /\ f.run \in {frames[x].run, "dead"}
        /\ f.box = "none" => frames[x].box = "none" /\ ~Subscribed(x, S)

LEMMA NotifiedGoes ==
    ASSUME TypeOK, NEW S, NEW box \in {"outcome", "closed"}, NEW x \in Frames
    PROVE  GoesOn(Notified(S, box)[x], x, S)
<1>1. Notified(S, box)[x] = IF Subscribed(x, S) THEN [frames[x] EXCEPT !.box = box] ELSE frames[x]
  BY DEF Notified
<1>2. CASE Subscribed(x, S)
  <2>1. frames[x] \in Frame /\ frames[x] # Idle
    BY <1>2 DEF Subscribed, TypeOK
  <2>2. [frames[x] EXCEPT !.box = box] \in Frame /\ [frames[x] EXCEPT !.box = box].box # "none"
    BY <2>1 DEF Frame, Box
  <2>3. SameRole([frames[x] EXCEPT !.box = box], frames[x])
        /\ [frames[x] EXCEPT !.box = box].run = frames[x].run
    BY <2>1 DEF Frame, SameRole
  <2>4. QED
    BY <1>1, <1>2, <2>1, <2>2, <2>3, SentinelAssumption DEF GoesOn
<1>3. CASE ~Subscribed(x, S)
  BY <1>1, <1>3 DEF GoesOn, SameRole
<1>4. QED
  BY <1>2, <1>3

LEMMA DoomedGoes ==
    ASSUME TypeOK, NEW fr \in FrameTable, NEW S, NEW X, NEW x \in Frames,
           GoesOn(fr[x], x, S), x \in X => fr[x] # Idle
    PROVE  /\ GoesOn(Doomed(fr, X)[x], x, S)
           /\ x \in X => Doomed(fr, X)[x].run = "dead"
<1>1. Doomed(fr, X)[x] = IF x \in X THEN [fr[x] EXCEPT !.run = "dead"] ELSE fr[x]
  BY DEF Doomed
<1>2. CASE x \in X
  <2>1. fr[x] \in Frame /\ frames[x] # Idle
    BY <1>2 DEF FrameTable, GoesOn
  <2>2. [fr[x] EXCEPT !.run = "dead"] \in Frame
    BY <2>1 DEF Frame
  <2>3. /\ SameRole([fr[x] EXCEPT !.run = "dead"], fr[x])
        /\ [fr[x] EXCEPT !.run = "dead"].box = fr[x].box
        /\ [fr[x] EXCEPT !.run = "dead"].run = "dead"
    BY <2>1 DEF Frame, SameRole
  <2>4. QED
    BY <1>1, <1>2, <2>1, <2>2, <2>3, SentinelAssumption DEF GoesOn, SameRole
<1>3. CASE x \notin X
  BY <1>1, <1>3
<1>4. QED
  BY <1>2, <1>3

LEMMA EndedGoes ==
    ASSUME TypeOK, NEW fr \in FrameTable, NEW S, NEW c, NEW x \in Frames,
           GoesOn(fr[x], x, S)
    PROVE  /\ x = c => Ended(fr, c)[x] = Idle
           /\ x # c => GoesOn(Ended(fr, c)[x], x, S)
<1>1. CASE x = c \/ fr[x] = Idle
  BY <1>1 DEF Ended, GoesOn
<1>2. CASE x # c /\ fr[x] # Idle
  <2>1. fr[x] \in Frame /\ Ended(fr, c)[x] = [fr[x] EXCEPT !.within = @ \ {c}]
    BY <1>2 DEF FrameTable, Ended
  <2>2. [fr[x] EXCEPT !.within = @ \ {c}] \in Frame
    BY <2>1 DEF Frame
  <2>3. /\ SameRole([fr[x] EXCEPT !.within = @ \ {c}], fr[x])
        /\ [fr[x] EXCEPT !.within = @ \ {c}].box = fr[x].box
        /\ [fr[x] EXCEPT !.within = @ \ {c}].run = fr[x].run
    BY <2>1 DEF Frame, SameRole
  <2>4. QED
    BY <1>2, <2>1, <2>2, <2>3, SentinelAssumption DEF GoesOn, SameRole
<1>3. QED
  BY <1>1, <1>2

LEMMA WithoutEnds ==
    ASSUME TypeOK, NEW S, flights' = FlightsWithout(S),
           \A k \in Keys : k \notin S /\ Led(k) => flights[k].owner \in running'
    PROVE  EndFlights(S)
  BY DEF EndFlights, FlightsWithout, Led

(* c ends, with the flight it leads, if it leads one. *)
LEMMA LeaderGone ==
    ASSUME TypeOK, TypeOK', LeadInv, NEW c \in Frames, frames[c] # Idle,
           EndFlights(TakeFlight(c)), frames'[c] = Idle,
           \A x \in Frames : x # c => GoesOn(frames'[x], x, TakeFlight(c))
    PROVE  LeadInv'
<1> DEFINE S == TakeFlight(c)
<1>1. c \notin {x \in Frames : \E k \in Keys : k \notin S /\ Led(k) /\ Leads(x, k)}
  BY DEF TakeFlight, Leads, Loads
<1>2. ASSUME NEW x \in Frames, x # c, Loads(x)
      PROVE  frames[x].key \in S => frames[x].id # flights[frames[x].key].id
  BY <1>2 DEF LeadInv, OwnIds, TakeFlight, Loads
<1> SUFFICES ASSUME NEW x \in Frames
             PROVE  LoadersFrom(x) /\ LeadersStay(x, S) /\ OutsideStays(x, S) /\ WaitersTold(x, S)
  BY LeadKept
<1>3. CASE x = c
  BY <1>1, <1>3 DEF LoadersFrom, LeadersStay, OutsideStays, WaitersTold, Loads, On, Waiting
<1>4. CASE x # c
  <2> HIDE DEF S
  <2>1. GoesOn(frames'[x], x, S)
    BY <1>4 DEF S
  <2>2. LoadersFrom(x)
    BY <2>1 DEF LoadersFrom, Loads, GoesOn, SameRole
  <2>3. LeadersStay(x, S)
    BY <2>1 DEF LeadersStay, Leads, Loads, GoesOn
  <2>4. OutsideStays(x, S)
    BY <1>2, <1>4, <2>1 DEF OutsideStays, On, Loads, GoesOn, SameRole, LeadInv, OutsideLeads
  <2>5. WaitersTold(x, S)
    <3> SUFFICES ASSUME Waiting(x)', frames'[x].box = "none"
                 PROVE  /\ Led(frames[x].key) /\ flights[frames[x].key].id = frames[x].id
                        /\ frames[x].key \notin S /\ SameRole(frames'[x], frames[x])
      BY DEF WaitersTold, SameRole
    <3>1. /\ Waiting(x) /\ frames[x].box = "none" /\ ~Subscribed(x, S)
          /\ SameRole(frames'[x], frames[x])
      BY <2>1 DEF Waiting, GoesOn, SameRole
    <3>2. QED
      BY <3>1 DEF LeadInv, WaiterHasFlight, Waiting, Subscribed
  <2>6. QED
    BY <2>2, <2>3, <2>4, <2>5
<1>5. QED
  BY <1>3, <1>4


(* c drops its guards, or its loader ends. *)
LEMMA GuardsDropLead ==
    ASSUME TypeOK, TypeOK', LeadInv, NEW c \in Frames, frames[c] # Idle,
           NEW fr \in FrameTable, GuardsDrop(c, fr), UNCHANGED running,
           \A x \in Frames : GoesOn(fr[x], x, TakeFlight(c))
    PROVE  LeadInv'
<1>1. frames[c] \in Frame /\ frames[c].key \in Keys
  BY DEF TypeOK, Frame
<1>2. EndFlights(TakeFlight(c))
  <2>1. CASE frames[c].pc = "wait"
    <3>1. TakeFlight(c) = {}
      BY <2>1 DEF TakeFlight
    <3>2. flights' = EdgeDown(frames[c].chain, frames[c].key)
      BY <2>1 DEF GuardsDrop
    <3>3. QED
      BY <1>1, <3>1, <3>2, EdgeDownType DEF EndFlights, LeadInv, AllLed
  <2>2. CASE frames[c].pc # "wait"
    BY <2>2, WithoutEnds DEF GuardsDrop, LeadInv, AllLed
  <2>3. QED
    BY <2>1, <2>2
<1>3. /\ frames'[c] = Idle
      /\ \A x \in Frames : x # c => GoesOn(frames'[x], x, TakeFlight(c))
  BY EndedGoes DEF GuardsDrop
<1>4. QED
  BY <1>2, <1>3, LeaderGone

LEMMA EndLead ==
    ASSUME TypeOK, TypeOK', LeadInv, NEW c \in Frames,
           (\E stores \in BOOLEAN : LoaderEnds(c, stores)) \/ Drop(c) \/ Collect(c)
    PROVE  LeadInv'
<1> DEFINE S == TakeFlight(c)
<1>1. frames[c] # Idle /\ UNCHANGED running
  BY DEF LoaderEnds, Drop, Collect, Turn, AtDepth, On
<1>2. ASSUME NEW box \in {"outcome", "closed"}
      PROVE  /\ Notified(S, box) \in FrameTable
             /\ \A x \in Frames : GoesOn(Notified(S, box)[x], x, S)
  <2> box \in Box
    BY DEF Box
  <2>1. QED
    BY NotifiedType, NotifiedGoes
<1>3. CASE \E stores \in BOOLEAN : LoaderEnds(c, stores)
  <2>1. /\ flights' = FlightsWithout(S)
        /\ frames' = Ended(Notified(S, "outcome"), c)
    BY <1>3 DEF LoaderEnds
  <2>2. EndFlights(S)
    BY <1>1, <2>1, WithoutEnds DEF LeadInv, AllLed
  <2>3. /\ frames'[c] = Idle
        /\ \A x \in Frames : x # c => GoesOn(frames'[x], x, S)
    BY <1>2, <2>1, EndedGoes
  <2>4. QED
    BY <1>1, <2>2, <2>3, LeaderGone
<1>4. CASE Drop(c)
  <2> DEFINE fr == Notified(S, "closed")
  <2>1. fr \in FrameTable /\ \A x \in Frames : GoesOn(fr[x], x, S)
    BY <1>2
  <2> HIDE DEF fr
  <2>2. \A x \in Inside(c) : x \in Frames /\ fr[x] # Idle
    BY <2>1 DEF Inside, On, GoesOn
  <2>3. Doomed(fr, Inside(c)) \in FrameTable
    BY <2>1, <2>2, DoomedType
  <2>4. \A x \in Frames : GoesOn(Doomed(fr, Inside(c))[x], x, S)
    BY <2>1, <2>2, DoomedGoes
  <2>5. GuardsDrop(c, Doomed(fr, Inside(c)))
    BY <1>4 DEF Drop, fr
  <2>6. QED
    BY <1>1, <2>3, <2>4, <2>5, GuardsDropLead
<1>5. CASE Collect(c)
  BY <1>1, <1>2, <1>5, GuardsDropLead DEF Collect
<1>6. QED
  BY <1>3, <1>4, <1>5

(* A resume returns: the flights begun inside it are exactly those whose    *)
(* leaders it parks.  That the count of nested flights is exact is what     *)
(* makes skipping the scan on zero right.                                   *)
LEMMA StartedNested ==
    ASSUME CountInv, NEW v \in Vms, NEW d \in Nat
    PROVE  /\ leads[v].all = 0 => StartedAt(v, d) = {}
           /\ leads[v].nested = 0 /\ d > 0 => StartedAt(v, d) = {}
<1>1. leads[v].all = 0 => OwnedBy(v) = {}
  BY FiniteOwned, FS_EmptySet DEF CountInv, LeadCountsExact
<1>2. leads[v].nested = 0 => NestedOf(v) = {}
  BY FiniteOwned, FS_EmptySet DEF CountInv, LeadCountsExact
<1>3. d > 0 => StartedAt(v, d) \subseteq NestedOf(v)
  BY DEF StartedAt, NestedOf, OwnedBy, Led, CountInv, TypeOK, Flight
<1>4. QED
  BY <1>1, <1>2, <1>3 DEF StartedAt

LEMMA ResumeReturnsFlights ==
    ASSUME CountInv, NEW v \in Vms, ResumeReturns(v)
    PROVE  /\ leads[v].depth \in Nat /\ leads[v].depth > 0
           /\ flights' = FlightsWithout(StartedAt(v, leads[v].depth))
           /\ \A x \in Frames :
                frames'[x] = LET fr == Notified(StartedAt(v, leads[v].depth), "closed")[x]
                             IN  IF On(x) /\ frames[x].vm = v /\ frames[x].depth >= leads[v].depth
                                 THEN [fr EXCEPT !.run = "parked"] ELSE fr
           /\ running' = running
<1>1. leads[v].depth \in Nat /\ leads[v].depth > 0
  BY DEF ResumeReturns, CountInv, TypeOK, VmLeads
<1>2. (IF leads[v].nested # 0 THEN StartedAt(v, leads[v].depth) ELSE {})
        = StartedAt(v, leads[v].depth)
  BY <1>1, StartedNested
<1>3. QED
  BY <1>1, <1>2 DEF ResumeReturns


(* In a step that parks or dooms the calls of v begun at depth d or deeper, *)
(* and ends the flights begun there.                                        *)
Cut(x, v, d) == On(x) /\ frames[x].vm = v /\ frames[x].depth >= d

LEMMA CutLead ==
    ASSUME TypeOK, TypeOK', LeadInv, NEW v \in Vms, NEW d \in Nat, NEW S, S = StartedAt(v, d),
           flights' = FlightsWithout(S),
           \A k \in Keys : k \notin S /\ Led(k) => flights[k].owner \in running',
           \A x \in Frames :
              /\ frames'[x] # Idle <=> frames[x] # Idle
              /\ frames[x] # Idle =>
                   /\ SameRole(frames'[x], frames[x])
                   /\ Cut(x, v, d) => frames'[x].run # "on"
                   /\ ~Cut(x, v, d) => frames'[x].run = frames[x].run
                   /\ frames'[x].box = "none" => frames[x].box = "none" /\ ~Subscribed(x, S)
    PROVE  LeadInv'
<1>1. EndFlights(S)
  BY WithoutEnds
<1> SUFFICES ASSUME NEW x \in Frames
             PROVE  LoadersFrom(x) /\ LeadersStay(x, S) /\ OutsideStays(x, S) /\ WaitersTold(x, S)
  BY <1>1, LeadKept
<1>2. LoadersFrom(x)
  BY DEF LoadersFrom, Loads, SameRole
<1>3. LeadersStay(x, S)
  <2> SUFFICES ASSUME NEW k \in Keys, k \notin S, Led(k), Leads(x, k)
               PROVE  frames'[x] # Idle /\ SameRole(frames'[x], frames[x])
                      /\ frames'[x].run # "parked"
    BY DEF LeadersStay
  <2>1. ~Cut(x, v, d)
    BY DEF StartedAt, OwnedBy, Leads, Cut
  <2>2. QED
    BY <2>1 DEF Leads, Loads
<1>4. OutsideStays(x, S)
  <2> SUFFICES ASSUME On(x)', Loads(x)', frames'[x].depth = 0
               PROVE  On(x) /\ frames[x].depth = 0 /\ frames[x].key \notin S
    BY DEF OutsideStays
  <2>1. /\ frames[x] # Idle /\ ~Cut(x, v, d) /\ On(x) /\ Loads(x) /\ frames[x].depth = 0
    BY DEF On, Loads, SameRole
  <2>2. frames[x].key \in Keys /\ flights[frames[x].key].id = frames[x].id /\ Led(frames[x].key)
    BY <2>1 DEF LeadInv, OutsideLeads, Loads, TypeOK, Frame
  <2>3. PICK y \in Frames : Leads(y, frames[x].key)
    BY <2>2 DEF LeadInv, AllLed
  <2>4. y = x
    BY <2>1, <2>2, <2>3 DEF LeadInv, OwnIds, Leads
  <2>5. QED
    BY <2>1, <2>3, <2>4 DEF Leads, Cut, StartedAt, OwnedBy
<1>5. WaitersTold(x, S)
  <2> SUFFICES ASSUME Waiting(x)', frames'[x].box = "none"
               PROVE  /\ Led(frames[x].key) /\ flights[frames[x].key].id = frames[x].id
                      /\ frames[x].key \notin S /\ SameRole(frames'[x], frames[x])
    BY DEF WaitersTold, SameRole
  <2>1. /\ Waiting(x) /\ frames[x].box = "none" /\ ~Subscribed(x, S)
        /\ SameRole(frames'[x], frames[x])
    BY DEF Waiting, SameRole
  <2>2. QED
    BY <2>1 DEF LeadInv, WaiterHasFlight, Waiting, Subscribed
<1>6. QED
  BY <1>2, <1>3, <1>4, <1>5

LEMMA ResumeReturnsLead ==
    ASSUME CountInv, TypeOK', LeadInv, NEW v \in Vms, ResumeReturns(v)
    PROVE  LeadInv'
<1> DEFINE d == leads[v].depth
           S == StartedAt(v, d)
           fr == Notified(S, "closed")
<1>1. /\ d \in Nat /\ d > 0 /\ flights' = FlightsWithout(S) /\ running' = running
      /\ \A x \in Frames : frames'[x] = IF Cut(x, v, d) THEN [fr[x] EXCEPT !.run = "parked"]
                                                        ELSE fr[x]
  BY ResumeReturnsFlights DEF Cut
<1>2. TypeOK /\ fr \in FrameTable /\ \A x \in Frames : GoesOn(fr[x], x, S)
  BY NotifiedType, NotifiedGoes DEF CountInv, Box
<1> HIDE DEF S, fr, d
<1>3. ASSUME NEW x \in Frames, frames[x] # Idle
      PROVE  /\ frames'[x] # Idle /\ SameRole(frames'[x], frames[x])
             /\ Cut(x, v, d) => frames'[x].run # "on"
             /\ ~Cut(x, v, d) => frames'[x].run = frames[x].run
             /\ frames'[x].box = "none" => frames[x].box = "none" /\ ~Subscribed(x, S)
  <2>1. fr[x] \in Frame /\ frames'[x] \in Frame \cup {Idle}
    BY <1>2, <1>3 DEF FrameTable, GoesOn, TypeOK
  <2>2. CASE Cut(x, v, d)
    <3> DEFINE parked == [fr[x] EXCEPT !.run = "parked"]
    <3>1. parked \in Frame
      BY <2>1 DEF Frame
    <3>2. SameRole(parked, fr[x]) /\ parked.run = "parked" /\ parked.box = fr[x].box
      BY <2>1 DEF Frame, SameRole
    <3>3. frames'[x] = parked
      BY <1>1, <2>2
    <3> HIDE DEF parked
    <3>4. frames'[x] # Idle /\ SameRole(frames'[x], frames[x])
      BY <1>2, <1>3, <3>1, <3>2, <3>3, SentinelAssumption DEF GoesOn, SameRole
    <3>5. frames'[x].box = "none" => frames[x].box = "none" /\ ~Subscribed(x, S)
      BY <1>2, <1>3, <3>2, <3>3 DEF GoesOn
    <3>6. QED
      BY <2>2, <3>2, <3>3, <3>4, <3>5
  <2>3. CASE ~Cut(x, v, d)
    <3>1. fr[x].run = frames[x].run
      BY <1>3 DEF fr, Notified, TypeOK, CountInv, Frame
    <3>2. QED
      BY <1>1, <1>2, <1>3, <2>3, <3>1 DEF GoesOn
  <2>4. QED
    BY <2>2, <2>3
<1>4. ASSUME NEW x \in Frames, frames[x] = Idle
      PROVE  frames'[x] = Idle
  BY <1>1, <1>2, <1>4 DEF Cut, On, GoesOn
<1>5. \A k \in Keys : k \notin S /\ Led(k) => flights[k].owner \in running'
  BY <1>1 DEF LeadInv, AllLed
<1>6. S = StartedAt(v, d)
  BY DEF S
<1>7. QED
  BY <1>1, <1>2, <1>3, <1>4, <1>5, <1>6, CutLead

LEMMA EndRunLead ==
    ASSUME CountInv, TypeOK', LeadInv, NEW v \in Vms, EndRun(v)
    PROVE  LeadInv'
<1> DEFINE S == StartedAt(v, 0)
           fr == Notified(S, "closed")
           left == {c \in Frames : On(c) /\ frames[c].vm = v}
<1>1. (IF leads[v].all # 0 THEN S ELSE {}) = S
  BY StartedNested
<1>2. /\ flights' = FlightsWithout(S) /\ running' = running \ {v}
      /\ frames' = Doomed(fr, left)
  BY <1>1 DEF EndRun
<1>3. TypeOK /\ fr \in FrameTable /\ \A x \in Frames : GoesOn(fr[x], x, S)
  BY NotifiedType, NotifiedGoes DEF CountInv, Box
<1>4. \A x \in Frames : x \in left <=> Cut(x, v, 0)
  BY DEF Cut, On, CountInv, TypeOK, Frame
<1>5. S = OwnedBy(v)
  BY DEF StartedAt, OwnedBy, Led, CountInv, TypeOK, Flight
<1>6. \A k \in Keys : k \notin S /\ Led(k) => flights[k].owner \in running'
  BY <1>2, <1>5 DEF OwnedBy, LeadInv, AllLed
<1>7. \A x \in Frames : frames[x] # Idle => fr[x].run = frames[x].run
  BY DEF Notified, TypeOK, CountInv, Frame
<1>8. \A x \in left : x \in Frames /\ frames[x] # Idle
  BY DEF On
<1> HIDE DEF S, fr, left
<1>9. ASSUME NEW x \in Frames
      PROVE  GoesOn(frames'[x], x, S) /\ (x \in left => frames'[x].run = "dead")
             /\ (x \notin left => frames'[x] = fr[x])
  <2>1. x \in left => fr[x] # Idle
    BY <1>3, <1>8 DEF GoesOn
  <2>2. x \notin left => frames'[x] = fr[x]
    BY <1>2 DEF Doomed
  <2>3. QED
    BY <1>2, <1>3, <2>1, <2>2, DoomedGoes
<1>10. S = StartedAt(v, 0)
  BY DEF S
<1>11. QED
  BY <1>2, <1>3, <1>4, <1>6, <1>7, <1>9, <1>10, CutLead DEF GoesOn


(* c takes the lead: its id is one nobody had. *)
LEMMA JoinLeadLead ==
    ASSUME TypeOK, TypeOK', IdsInv, LeadInv, NEW c \in Frames, JoinLead(c)
    PROVE  LeadInv'
<1> DEFINE k == frames[c].key
           f == [id |-> next_flight + 1, owner |-> frames[c].vm,
                 depth |-> leads[frames[c].vm].depth, waits |-> [q \in Keys |-> 0]]
           g == [frames[c] EXCEPT !.pc = "load", !.id = next_flight + 1]
<1>1. /\ frames[c] \in Frame /\ k \in Keys /\ ~Led(k) /\ On(c) /\ frames[c].pc = "join"
      /\ frames[c].vm \in running /\ frames[c].depth = leads[frames[c].vm].depth
      /\ next_flight \in Nat /\ running' = running
  BY DEF JoinLead, AtJoin, AtDepth, On, TypeOK, Frame
<1>2. /\ \A x \in Keys : flights'[x] = IF x = k THEN f ELSE flights[x]
      /\ \A x \in Frames : frames'[x] = IF x = c THEN g ELSE frames[x]
  BY <1>1 DEF JoinLead, TypeOK
<1>3. g \in Frame /\ f \in Flight
  <2>1. next_flight + 1 \in Nat
    BY <1>1
  <2>2. g \in Frame
    BY <1>1, <2>1, FrameUpdate
  <2>3. leads[frames[c].vm].depth \in Nat /\ frames[c].vm \in Vms
    BY <1>1 DEF TypeOK, VmLeads, Frame
  <2>4. f \in Flight
    BY <2>1, <2>3 DEF Flight
  <2>5. QED
    BY <2>2, <2>4
<1>4. /\ g.pc = "load" /\ g.id = next_flight + 1 /\ g.key = k /\ g.vm = frames[c].vm
      /\ g.depth = frames[c].depth /\ g.run = "on"
  BY <1>1 DEF Frame, On
<1>5. /\ f.id = next_flight + 1 /\ f.owner = frames[c].vm /\ f.depth = frames[c].depth
  BY <1>1
<1>6. g # Idle /\ f # NoFlight
  BY <1>3, SentinelAssumption
<1> HIDE DEF f, g
<1>7. ASSUME NEW x \in Frames, Loads(x)
      PROVE  x # c /\ frames[x].id \in Nat /\ frames[x].id < next_flight + 1 /\ frames[x].key \in Keys
  BY <1>1, <1>7 DEF Loads, IdsInv, TypeOK, Frame
<1>8. OwnIds'
  BY <1>2, <1>4, <1>7 DEF OwnIds, Loads, LeadInv
<1>9. AllLed'
  <2> SUFFICES ASSUME NEW x \in Keys, flights'[x] # NoFlight
               PROVE  flights'[x].owner \in running' /\ \E y \in Frames : Leads(y, x)'
    BY DEF AllLed, Led
  <2>1. CASE x = k
    <3>1. Leads(c, x)'
      BY <1>2, <1>4, <1>5, <1>6, <2>1 DEF Leads, Loads
    <3>2. QED
      BY <1>1, <1>2, <1>5, <2>1, <3>1
  <2>2. CASE x # k
    <3>1. Led(x) /\ flights'[x] = flights[x]
      BY <1>2, <2>2 DEF Led
    <3>2. PICK y \in Frames : Leads(y, x)
      BY <3>1 DEF LeadInv, AllLed
    <3>3. Leads(y, x)'
      BY <1>2, <1>7, <3>1, <3>2 DEF Leads, Loads
    <3>4. QED
      BY <1>1, <3>1, <3>3 DEF LeadInv, AllLed
  <2>3. QED
    BY <2>1, <2>2
<1>10. OutsideLeads'
  <2> SUFFICES ASSUME NEW x \in Frames, On(x)', Loads(x)', frames'[x].depth = 0
               PROVE  /\ flights'[frames'[x].key] # NoFlight
                      /\ flights'[frames'[x].key].id = frames'[x].id
    BY DEF OutsideLeads, Led
  <2>1. CASE x = c
    BY <1>1, <1>2, <1>4, <1>5, <1>6, <2>1
  <2>2. CASE x # c
    <3>1. /\ Led(frames[x].key) /\ flights[frames[x].key].id = frames[x].id
          /\ frames'[x] = frames[x] /\ frames[x].key \in Keys
      BY <1>2, <2>2 DEF On, Loads, LeadInv, OutsideLeads, TypeOK, Frame
    <3>2. QED
      BY <1>1, <1>2, <3>1 DEF Led
  <2>3. QED
    BY <2>1, <2>2
<1>11. WaiterHasFlight'
  <2> SUFFICES ASSUME NEW x \in Frames, Waiting(x)', frames'[x].box = "none"
               PROVE  /\ flights'[frames'[x].key] # NoFlight
                      /\ flights'[frames'[x].key].id = frames'[x].id
    BY DEF WaiterHasFlight, Led
  <2>1. /\ Led(frames[x].key) /\ flights[frames[x].key].id = frames[x].id
        /\ frames'[x] = frames[x] /\ frames[x].key \in Keys
    BY <1>2, <1>4 DEF Waiting, LeadInv, WaiterHasFlight, TypeOK, Frame
  <2>2. QED
    BY <1>1, <1>2, <2>1 DEF Led
<1>12. QED
  BY <1>8, <1>9, <1>10, <1>11 DEF LeadInv

(* Steps that end no flight, and begin none. *)
LEMMA NoneEnd ==
    ASSUME TypeOK, LeadInv, flights' = flights, running \subseteq running'
    PROVE  EndFlights({})
  BY DEF EndFlights, LeadInv, AllLed

LEMMA SameStays ==
    ASSUME LeadInv, NEW x \in Frames, frames'[x] = frames[x]
    PROVE  /\ LoadersFrom(x) /\ LeadersStay(x, {}) /\ OutsideStays(x, {})
           /\ WaitersTold(x, {})
  BY DEF LoadersFrom, LeadersStay, OutsideStays, WaitersTold, Loads, Leads, On, Waiting,
         SameRole, LeadInv, WaiterHasFlight

LEMMA JoinWaitLead ==
    ASSUME TypeOK, TypeOK', LeadInv, NEW c \in Frames, JoinWait(c)
    PROVE  LeadInv'
<1> DEFINE k == frames[c].key
           g == [frames[c] EXCEPT !.pc = "wait", !.id = flights[k].id, !.box = "none"]
<1>1. /\ frames[c] \in Frame /\ k \in Keys /\ Led(k) /\ frames[c].pc = "join"
      /\ flights' = EdgeUp(frames[c].chain, k) /\ running' = running
  BY DEF JoinWait, AtJoin, AtDepth, On, TypeOK, Frame
<1>2. \A x \in Frames : frames'[x] = IF x = c THEN g ELSE frames[x]
  BY <1>1 DEF JoinWait, TypeOK
<1>3. g.pc = "wait" /\ g.key = k /\ g.id = flights[k].id
  BY <1>1 DEF Frame
<1> HIDE DEF g
<1>4. EndFlights({})
  BY <1>1, EdgeUpType DEF EndFlights, LeadInv, AllLed
<1>5. /\ LoadersFrom(c) /\ LeadersStay(c, {}) /\ OutsideStays(c, {}) /\ WaitersTold(c, {})
  BY <1>1, <1>2, <1>3 DEF LoadersFrom, LeadersStay, OutsideStays, WaitersTold, Loads, Leads
<1>6. \A x \in Frames : x # c => frames'[x] = frames[x]
  BY <1>2
<1>7. QED
  BY <1>4, <1>5, <1>6, SameStays, LeadKept

LEMMA WakeLead ==
    ASSUME TypeOK, TypeOK', LeadInv, NEW c \in Frames, Wake(c)
    PROVE  LeadInv'
<1>1. /\ frames[c] \in Frame /\ frames[c] # Idle /\ frames[c].key \in Keys
      /\ frames[c].pc = "wait" /\ running' = running
      /\ flights' = EdgeDown(frames[c].chain, frames[c].key)
  BY DEF Wake, Turn, AtDepth, On, TypeOK, Frame
<1>2. EndFlights({})
  BY <1>1, EdgeDownType DEF EndFlights, LeadInv, AllLed
<1>3. CASE frames[c].box = "closed"
  <2>1. \A x \in Frames : frames'[x] =
            IF x = c THEN [frames[c] EXCEPT !.pc = "join", !.id = 0, !.box = "none"]
            ELSE frames[x]
    BY <1>3 DEF Wake, TypeOK
  <2>2. frames'[c].pc = "join"
    BY <1>1, <2>1 DEF Frame
  <2>3. LoadersFrom(c) /\ LeadersStay(c, {}) /\ OutsideStays(c, {}) /\ WaitersTold(c, {})
    BY <1>1, <2>2 DEF LoadersFrom, LeadersStay, OutsideStays, WaitersTold, Loads, Leads, Waiting
  <2>4. QED
    BY <1>2, <2>1, <2>3, SameStays, LeadKept
<1>4. CASE frames[c].box # "closed"
  <2>1. TakeFlight(c) = {}
    BY <1>1 DEF TakeFlight
  <2>2. frames' = Ended(frames, c) /\ frames \in FrameTable
    BY <1>4 DEF Wake, TypeOK, FrameTable
  <2>3. \A x \in Frames : GoesOn(frames[x], x, {})
    BY DEF GoesOn, SameRole, Subscribed
  <2>4. frames'[c] = Idle /\ \A x \in Frames : x # c => GoesOn(frames'[x], x, {})
    BY <2>2, <2>3, EndedGoes
  <2>5. QED
    BY <1>1, <1>2, <2>1, <2>4, LeaderGone
<1>5. QED
  BY <1>3, <1>4


(* Steps after which one call loads no more, or loads inside a resume. *)
LEMMA QuietLead ==
    ASSUME TypeOK, TypeOK', LeadInv, NEW c \in Frames,
           \/ \E v \in Vms, k \in Keys : Call(c, v, k)
           \/ \E p \in Frames, k \in Keys : CallInside(c, p, k)
           \/ JoinInline(c) \/ JoinHit(c)
    PROVE  LeadInv'
<1>1. EndFlights({})
  BY NoneEnd DEF Call, CallInside, JoinInline, JoinHit
<1>2. ~Loads(c)
  BY DEF Loads, Call, CallInside, JoinInline, JoinHit, AtJoin
<1>3. frames'[c] # Idle => frames'[c].pc \in {"join", "inline"}
  <2>1. CASE JoinInline(c)
    <3>1. frames[c] \in Frame
      BY <2>1 DEF JoinInline, AtJoin, AtDepth, On, TypeOK
    <3>2. frames'[c] = [frames[c] EXCEPT !.pc = "inline", !.id = 0]
      BY <2>1 DEF JoinInline, TypeOK
    <3>3. QED
      BY <3>1, <3>2 DEF Frame
  <2>2. CASE JoinHit(c)
    BY <2>2 DEF JoinHit, Ended
  <2>3. CASE (\E v \in Vms, k \in Keys : Call(c, v, k))
             \/ (\E p \in Frames, k \in Keys : CallInside(c, p, k))
    BY <2>3 DEF Call, CallInside, NewFrame, TypeOK
  <2>4. QED
    BY <2>1, <2>2, <2>3
<1>4. LoadersFrom(c) /\ LeadersStay(c, {}) /\ OutsideStays(c, {}) /\ WaitersTold(c, {})
  BY <1>2, <1>3 DEF LoadersFrom, LeadersStay, OutsideStays, WaitersTold, Loads, Leads, Waiting
<1>5. CASE JoinHit(c)
  <2>1. frames' = Ended(frames, c) /\ frames \in FrameTable /\ frames[c] # Idle
    BY <1>5 DEF JoinHit, AtJoin, AtDepth, On, TypeOK, FrameTable
  <2>2. \A x \in Frames : GoesOn(frames[x], x, {})
    BY DEF GoesOn, SameRole, Subscribed
  <2>3. frames'[c] = Idle /\ \A x \in Frames : x # c => GoesOn(frames'[x], x, {})
    BY <2>1, <2>2, EndedGoes
  <2>4. TakeFlight(c) = {}
    BY <1>2, <2>1 DEF TakeFlight, Loads
  <2>5. QED
    BY <1>1, <2>1, <2>3, <2>4, LeaderGone
<1>6. CASE ~JoinHit(c)
  <2>1. \A x \in Frames : x # c => frames'[x] = frames[x]
    BY <1>6 DEF Call, CallInside, JoinInline, TypeOK
  <2>2. QED
    BY <1>1, <1>4, <2>1, SameStays, LeadKept
<1>7. QED
  BY <1>5, <1>6

LEMMA KillLead ==
    ASSUME TypeOK, TypeOK', LeadInv, NEW c \in Frames, Kill(c)
    PROVE  LeadInv'
<1> DEFINE X == Inside(c) \cup {c}
<1>1. EndFlights({})
  BY NoneEnd DEF Kill
<1>2. frames' = Doomed(frames, X) /\ frames \in FrameTable
  BY DEF Kill, TypeOK, FrameTable
<1>3. \A x \in Frames : GoesOn(frames[x], x, {}) /\ (x \in X => frames[x] # Idle)
  BY DEF GoesOn, SameRole, Subscribed, Inside, On, Kill, Turn, AtDepth
<1> HIDE DEF X
<1>4. \A x \in Frames : GoesOn(frames'[x], x, {})
  BY <1>2, <1>3, DoomedGoes
<1>5. ASSUME NEW x \in Frames
      PROVE  LoadersFrom(x) /\ LeadersStay(x, {}) /\ OutsideStays(x, {}) /\ WaitersTold(x, {})
  <2>1. GoesOn(frames'[x], x, {})
    BY <1>4
  <2>2. LoadersFrom(x) /\ LeadersStay(x, {}) /\ OutsideStays(x, {})
    BY <2>1 DEF LoadersFrom, LeadersStay, OutsideStays, GoesOn, SameRole, Loads, Leads, On
  <2>3. WaitersTold(x, {})
    BY <2>1 DEF WaitersTold, GoesOn, SameRole, Waiting, LeadInv, WaiterHasFlight
  <2>4. QED
    BY <2>2, <2>3
<1>6. QED
  BY <1>1, <1>5, LeadKept

LEMMA ResumeParkedLead ==
    ASSUME TypeOK, TypeOK', LeadInv, NEW c \in Frames, ResumeParked(c)
    PROVE  LeadInv'
<1> DEFINE d == leads[frames[c].vm].depth
           g == [frames[c] EXCEPT !.run = "on", !.depth = d]
<1>1. EndFlights({})
  BY NoneEnd DEF ResumeParked
<1>2. frames[c] # Idle /\ frames[c] \in Frame /\ frames[c].run = "parked" /\ d \in Nat /\ d > 0
  BY DEF ResumeParked, TypeOK, Frame, VmLeads
<1>3. \A x \in Frames : frames'[x] = IF x = c THEN g ELSE frames[x]
  BY DEF ResumeParked, TypeOK
<1>4. /\ g.pc = frames[c].pc /\ g.key = frames[c].key /\ g.id = frames[c].id
      /\ g.box = frames[c].box /\ g.depth = d
  BY <1>2 DEF Frame
<1> HIDE DEF g, d
<1>5. LoadersFrom(c) /\ LeadersStay(c, {}) /\ OutsideStays(c, {})
  BY <1>2, <1>3, <1>4 DEF LoadersFrom, LeadersStay, OutsideStays, Loads, Leads
<1>6. WaitersTold(c, {})
  BY <1>2, <1>3, <1>4 DEF WaitersTold, Waiting, LeadInv, WaiterHasFlight
<1>7. \A x \in Frames : x # c => frames'[x] = frames[x]
  BY <1>3
<1>8. QED
  BY <1>1, <1>5, <1>6, <1>7, SameStays, LeadKept

LEMMA StillLead ==
    ASSUME TypeOK, TypeOK', LeadInv, flights' = flights, frames' = frames,
           running \subseteq running'
    PROVE  LeadInv'
  BY NoneEnd, SameStays, LeadKept

LEMMA LeadStep ==
    ASSUME CountInv, TypeOK', IdsInv, LeadInv, [Next]_vars
    PROVE  LeadInv'
<1>t. TypeOK
  BY DEF CountInv
<1>1. ASSUME NEW c \in Frames,
             \/ (\E stores \in BOOLEAN : LoaderEnds(c, stores)) \/ Drop(c) \/ Collect(c)
             \/ JoinLead(c) \/ JoinWait(c) \/ Wake(c) \/ Kill(c) \/ ResumeParked(c)
      PROVE  LeadInv'
  BY <1>t, <1>1, EndLead, JoinLeadLead, JoinWaitLead, WakeLead, KillLead, ResumeParkedLead
<1>2. ASSUME NEW c \in Frames,
             \/ \E v \in Vms, k \in Keys : Call(c, v, k)
             \/ \E p \in Frames, k \in Keys : CallInside(c, p, k)
             \/ JoinInline(c) \/ JoinHit(c)
      PROVE  LeadInv'
  BY <1>t, <1>2, QuietLead
<1>3. ASSUME NEW v \in Vms, ResumeReturns(v) \/ EndRun(v)
      PROVE  LeadInv'
  BY <1>3, ResumeReturnsLead, EndRunLead
<1>4. ASSUME \/ \E v \in Vms : Resume(v) \/ StartRun(v)
             \/ \E k \in Keys, to \in {"written", "missing"} : CellChanges(k, to)
             \/ UNCHANGED vars
      PROVE  LeadInv'
  <2>1. flights' = flights /\ frames' = frames /\ running \subseteq running'
    BY <1>4 DEF Resume, StartRun, CellChanges, vars
  <2>2. QED
    BY <1>t, <2>1, StillLead
<1>5. QED
  BY <1>1, <1>2, <1>3, <1>4 DEF Next


LEMMA LeadInit == Init => LeadInv
  BY DEF Init, LeadInv, OwnIds, AllLed, OutsideLeads, WaiterHasFlight, Loads, Led, On, Waiting

FlightInv == CountInv /\ IdsInv /\ LeadInv

LEMMA FlightInvAlways == Spec => []FlightInv
<1>1. Spec => [](CountInv /\ TypeOK /\ IdsInv)
  <2>1. CountInv => TypeOK
    BY DEF CountInv
  <2>2. EdgeInv => IdsInv
    BY DEF EdgeInv
  <2>3. QED
    BY <2>1, <2>2, CountInit, CountStep, EdgeInvAlways, PTL DEF Spec
<1>2. CountInv /\ TypeOK' /\ IdsInv /\ LeadInv /\ [Next]_vars => LeadInv'
  BY LeadStep
<1>3. Spec => []LeadInv
  BY <1>1, <1>2, LeadInit, PTL DEF Spec
<1>4. CountInv /\ IdsInv /\ LeadInv => FlightInv
  BY DEF FlightInv
<1>5. QED
  BY <1>1, <1>3, <1>4, PTL

LEMMA LeadSound == FlightInv => FlightsSound
<1> SUFFICES ASSUME FlightInv PROVE FlightsSound
  OBVIOUS
<1>1. TypeOK /\ LeadInv
  BY DEF FlightInv, CountInv
<1>2. FlightHasLeader
  BY <1>1 DEF LeadInv, AllLed, Leads, Loads, FlightHasLeader
<1>3. OneLoaderPerKey
  BY <1>1 DEF LeadInv, OwnIds, OutsideLeads, On, Loads, OneLoaderPerKey
<1>4. QED
  BY <1>1, <1>2, <1>3 DEF LeadInv, FlightsSound

(* Whoever was cancelled, killed, parked or handed off, the table of flights *)
(* is what the calls on it take it for: a waiter that has seen nothing is    *)
(* subscribed to the flight in the table, a flight has a leader that can     *)
(* still end it, and two calls of a run's own tasks never load one key at    *)
(* once (join, LeadGuard's drop, end_run, resumed).                          *)
THEOREM FlightsSoundAlways == Spec => []FlightsSound
  BY FlightInvAlways, LeadSound, PTL

-----------------------------------------------------------------------------
(* What a leader leaves alone. *)

EndsByLeader(k) ==
    \E c \in Frames : /\ frames[c] # Idle
                      /\ frames[c].pc = "load"
                      /\ frames[c].id = flights[k].id
                      /\ frames'[c] = Idle \/ frames'[c].run # "on"

Ends(k) == Led(k) /\ (flights'[k] = NoFlight \/ flights'[k].id # flights[k].id)

LEMMA GuardsEnd ==
    ASSUME TypeOK, NEW c \in Frames, frames[c] # Idle, frames'[c] = Idle,
           \/ flights' = FlightsWithout(TakeFlight(c))
           \/ flights' = EdgeDown(frames[c].chain, frames[c].key),
           NEW k \in Keys, Ends(k)
    PROVE  EndsByLeader(k)
<1>1. frames[c].key \in Keys
  BY DEF TypeOK, Frame
<1>2. flights' = FlightsWithout(TakeFlight(c))
  BY <1>1, EdgeDownType DEF Ends, Led
<1>3. k \in TakeFlight(c)
  BY <1>2 DEF Ends, Led, FlightsWithout
<1>4. QED
  BY <1>3 DEF TakeFlight, EndsByLeader

LEMMA CutEnds ==
    ASSUME FlightInv, NEW v \in Vms, ResumeReturns(v) \/ EndRun(v), NEW k \in Keys, Ends(k)
    PROVE  EndsByLeader(k)
<1>i. CountInv /\ TypeOK /\ LeadInv
  BY DEF FlightInv, CountInv
<1>l. PICK c \in Frames : Leads(c, k)
  BY <1>i DEF LeadInv, AllLed, Ends
<1>f. frames[c] # Idle /\ frames[c] \in Frame /\ frames[c].pc = "load" /\ frames[c].id = flights[k].id
      /\ frames[c].run # "parked"
  BY <1>i, <1>l DEF Leads, Loads, TypeOK
<1>1. CASE ResumeReturns(v)
  <2> DEFINE S == StartedAt(v, leads[v].depth)
             f == Notified(S, "closed")[c]
  <2>1. /\ flights' = FlightsWithout(S)
        /\ frames'[c] = IF Cut(c, v, leads[v].depth) THEN [f EXCEPT !.run = "parked"] ELSE f
    BY <1>1, <1>i, ResumeReturnsFlights DEF Cut
  <2>2. k \in S
    BY <2>1 DEF Ends, Led, FlightsWithout
  <2>3. frames[c].vm = v /\ frames[c].depth >= leads[v].depth
    BY <2>2, <1>l DEF StartedAt, OwnedBy, Leads
  <2>4. f \in Frame /\ f.run = frames[c].run
    BY <1>f DEF Notified, Frame, Box
  <2> HIDE DEF f, S
  <2>5. frames'[c].run # "on"
    <3>1. CASE On(c)
      <4>1. frames'[c] = [f EXCEPT !.run = "parked"]
        BY <2>1, <2>3, <3>1 DEF Cut
      <4>2. QED
        BY <2>4, <4>1 DEF Frame
    <3>2. CASE ~On(c)
      BY <1>f, <2>1, <2>4, <3>2 DEF On, Cut
    <3>3. QED
      BY <3>1, <3>2
  <2>6. QED
    BY <1>f, <2>5 DEF EndsByLeader
<1>2. CASE EndRun(v)
  <2> DEFINE S == StartedAt(v, 0)
             left == {x \in Frames : On(x) /\ frames[x].vm = v}
             f == Notified(S, "closed")[c]
  <2>1. (IF leads[v].all # 0 THEN S ELSE {}) = S
    BY <1>i, StartedNested
  <2>2. flights' = FlightsWithout(S) /\ frames' = Doomed(Notified(S, "closed"), left)
    BY <1>2, <2>1 DEF EndRun
  <2>3. frames[c].vm = v
    BY <2>2, <1>l DEF Ends, Led, FlightsWithout, StartedAt, OwnedBy, Leads
  <2>4. f \in Frame /\ f.run = frames[c].run
    BY <1>f DEF Notified, Frame, Box
  <2>5. frames'[c] = IF c \in left THEN [f EXCEPT !.run = "dead"] ELSE f
    BY <2>2 DEF Doomed
  <2>6. c \in left <=> On(c)
    BY <2>3
  <2> HIDE DEF f, S, left
  <2>7. frames'[c].run # "on"
    <3>1. CASE On(c)
      BY <2>4, <2>5, <2>6, <3>1 DEF Frame
    <3>2. CASE ~On(c)
      BY <1>f, <2>4, <2>5, <2>6, <3>2 DEF On
    <3>3. QED
      BY <3>1, <3>2
  <2>8. QED
    BY <1>f, <2>7 DEF EndsByLeader
<1>3. QED
  BY <1>1, <1>2

LEMMA EndsStep ==
    ASSUME FlightInv, [Next]_vars, NEW k \in Keys, Ends(k)
    PROVE  EndsByLeader(k)
<1>t. TypeOK
  BY DEF FlightInv, CountInv
<1>1. ASSUME NEW c \in Frames, Wake(c) PROVE FALSE
  <2>1. frames[c].key \in Keys /\ flights' = EdgeDown(frames[c].chain, frames[c].key)
    BY <1>1, <1>t DEF Wake, Turn, AtDepth, On, TypeOK, Frame
  <2>2. QED
    BY <1>t, <2>1, EdgeDownType DEF Ends, Led
<1>2. ASSUME NEW c \in Frames, JoinWait(c) PROVE FALSE
  <2>1. frames[c].key \in Keys /\ flights' = EdgeUp(frames[c].chain, frames[c].key)
    BY <1>2, <1>t DEF JoinWait, AtJoin, AtDepth, On, TypeOK, Frame
  <2>2. QED
    BY <1>t, <2>1, EdgeUpType DEF Ends, Led
<1>3. ASSUME NEW c \in Frames, JoinLead(c) PROVE FALSE
  BY <1>3, <1>t DEF JoinLead, AtJoin, AtDepth, On, TypeOK, Frame, Ends, Led
<1>4. ASSUME NEW c \in Frames,
             (\E stores \in BOOLEAN : LoaderEnds(c, stores)) \/ Drop(c) \/ Collect(c)
      PROVE  EndsByLeader(k)
  <2>1. frames[c] # Idle /\ frames'[c] = Idle
    BY <1>4 DEF LoaderEnds, Drop, Collect, GuardsDrop, Turn, AtDepth, On, Ended
  <2>2. \/ flights' = FlightsWithout(TakeFlight(c))
        \/ flights' = EdgeDown(frames[c].chain, frames[c].key)
    BY <1>4 DEF LoaderEnds, Drop, Collect, GuardsDrop
  <2>3. QED
    BY <1>t, <2>1, <2>2, GuardsEnd
<1>5. ASSUME NEW v \in Vms, ResumeReturns(v) \/ EndRun(v) PROVE EndsByLeader(k)
  BY <1>5, CutEnds
<1>6. ASSUME UNCHANGED flights PROVE FALSE
  BY <1>6 DEF Ends, Led
<1>7. QED
  BY <1>1, <1>2, <1>3, <1>4, <1>5, <1>6
     DEF Next, Call, CallInside, JoinHit, JoinInline, Kill, Resume, ResumeParked,
         StartRun, CellChanges, vars

(* What another operation wrote stays, whatever a call of fetch does. *)
LEMMA WrittenStays ==
    ASSUME TypeOK, Next, frames' # frames, NEW k \in Keys, cell[k] = "written"
    PROVE  cell'[k] = "written"
<1>1. CASE cell' = cell
  BY <1>1
<1>2. ASSUME NEW c \in Frames, NEW stores \in BOOLEAN, LoaderEnds(c, stores)
      PROVE  cell'[k] = "written"
  BY <1>2 DEF LoaderEnds, StoreLoaded, Fresh, FreshCell, TypeOK
<1>3. QED
  BY <1>1, <1>2
     DEF Next, Call, CallInside, JoinHit, JoinLead, JoinWait, JoinInline, Wake, Drop, Kill,
         Collect, ResumeParked, Resume, ResumeReturns, StartRun, EndRun, CellChanges

Loading == {"load", "inline"}

StartsLoading(c) ==
    /\ frames'[c] # Idle /\ frames'[c].pc \in Loading
    /\ frames[c] = Idle \/ frames[c].pc \notin Loading

LEMMA GoingOnLoadsNot ==
    ASSUME NEW c \in Frames, NEW S, frames'[c] = Idle \/ GoesOn(frames'[c], c, S)
    PROVE  ~StartsLoading(c)
  BY DEF StartsLoading, GoesOn, SameRole

LEMMA NewLoads ==
    ASSUME TypeOK, Next, NEW c \in Frames, StartsLoading(c)
    PROVE  ~Fresh(frames'[c].key)
<1>f. frames \in FrameTable /\ (frames[c] = Idle \/ frames[c] \in Frame)
  BY DEF TypeOK, FrameTable
<1>g. GoesOn(frames[c], c, {})
  BY <1>f, SentinelAssumption DEF GoesOn, SameRole, Subscribed
<1>n. ASSUME NEW S, NEW box \in {"outcome", "closed"}
      PROVE  Notified(S, box) \in FrameTable /\ GoesOn(Notified(S, box)[c], c, S)
  <2> box \in Box
    BY DEF Box
  <2>1. QED
    BY NotifiedType, NotifiedGoes
<1>1. ASSUME NEW x \in Frames, NEW fr, frames' = [frames EXCEPT ![x] = fr], fr.pc \notin Loading
      PROVE  FALSE
  <2>1. frames'[c] = IF c = x THEN fr ELSE frames[c]
    BY <1>1, <1>f DEF FrameTable
  <2>2. QED
    BY <1>1, <2>1 DEF StartsLoading
<1>2. ASSUME NEW x \in Frames, NEW v \in Vms, NEW k \in Keys, Call(x, v, k) PROVE FALSE
  BY <1>1, <1>2 DEF Call, NewFrame, Loading
<1>3. ASSUME NEW x \in Frames, NEW y \in Frames, NEW k \in Keys, CallInside(x, y, k) PROVE FALSE
  BY <1>1, <1>3 DEF CallInside, NewFrame, Loading
<1>4. ASSUME NEW x \in Frames, JoinHit(x) PROVE FALSE
  BY <1>4, <1>f, <1>g, EndedGoes, GoingOnLoadsNot DEF JoinHit
<1>5. ASSUME NEW x \in Frames, JoinLead(x) \/ JoinInline(x) PROVE ~Fresh(frames'[c].key)
  <2>1. x = c
    BY <1>5, <1>f DEF JoinLead, JoinInline, FrameTable, StartsLoading
  <2>2. frames[c] \in Frame
    BY <1>5, <1>f, <2>1 DEF JoinLead, JoinInline, AtJoin, AtDepth, On
  <2>3. frames'[c].key = frames[c].key
    BY <1>5, <1>f, <2>1, <2>2 DEF JoinLead, JoinInline, Frame, FrameTable
  <2>4. QED
    BY <1>5, <2>1, <2>3 DEF JoinLead, JoinInline
<1>6. ASSUME NEW x \in Frames, JoinWait(x) PROVE FALSE
  <2>1. frames[x] \in Frame
    BY <1>6, <1>f DEF JoinWait, AtJoin, AtDepth, On, FrameTable
  <2>2. frames'[c] = IF c = x THEN frames'[x] ELSE frames[c]
    BY <1>6, <1>f DEF JoinWait, FrameTable
  <2>3. frames'[x].pc = "wait"
    BY <1>6, <1>f, <2>1 DEF JoinWait, Frame, FrameTable
  <2>4. QED
    BY <2>2, <2>3 DEF StartsLoading, Loading
<1>7. ASSUME NEW x \in Frames, Wake(x) PROVE FALSE
  <2>1. frames[x] \in Frame
    BY <1>7, <1>f DEF Wake, Turn, AtDepth, On, FrameTable
  <2>2. CASE frames[x].box = "closed"
    <3>1. frames'[c] = IF c = x THEN frames'[x] ELSE frames[c]
      BY <1>7, <1>f, <2>2 DEF Wake, FrameTable
    <3>2. frames'[x].pc = "join"
      BY <1>7, <1>f, <2>1, <2>2 DEF Wake, Frame, FrameTable
    <3>3. QED
      BY <3>1, <3>2 DEF StartsLoading, Loading
  <2>3. CASE frames[x].box # "closed"
    BY <1>7, <1>f, <1>g, <2>3, EndedGoes, GoingOnLoadsNot DEF Wake
  <2>4. QED
    BY <2>2, <2>3
<1>8. ASSUME NEW x \in Frames, NEW fr \in FrameTable, NEW S, GoesOn(fr[c], c, S), frames' = Ended(fr, x)
      PROVE  FALSE
  BY <1>8, EndedGoes, GoingOnLoadsNot
<1>9. ASSUME NEW x \in Frames, NEW stores \in BOOLEAN, LoaderEnds(x, stores) PROVE FALSE
  BY <1>8, <1>9, <1>n DEF LoaderEnds
<1>10. ASSUME NEW x \in Frames, Collect(x) PROVE FALSE
  BY <1>8, <1>10, <1>n DEF Collect, GuardsDrop
<1>11. ASSUME NEW x \in Frames, Drop(x) PROVE FALSE
  <2> DEFINE S == TakeFlight(x)
             fr == Notified(S, "closed")
             gr == Doomed(fr, Inside(x))
  <2>1. fr \in FrameTable /\ GoesOn(fr[c], c, S)
    BY <1>n
  <2>2. \A y \in Inside(x) : y \in Frames /\ fr[y] # Idle
    BY NotifiedType DEF Inside, On, Box
  <2>3. frames' = Ended(gr, x)
    BY <1>11 DEF Drop, GuardsDrop
  <2> HIDE DEF fr
  <2>4. gr \in FrameTable /\ GoesOn(gr[c], c, S)
    BY <2>1, <2>2, DoomedType, DoomedGoes
  <2>5. QED
    BY <1>8, <2>3, <2>4
<1>12. ASSUME NEW x \in Frames, Kill(x) PROVE FALSE
  <2>1. \A y \in Inside(x) \cup {x} : y \in Frames /\ frames[y] # Idle
    BY <1>12 DEF Kill, Turn, AtDepth, Inside, On
  <2>2. QED
    BY <1>12, <1>f, <1>g, <2>1, DoomedGoes, GoingOnLoadsNot DEF Kill
<1>13. ASSUME NEW x \in Frames, ResumeParked(x) PROVE FALSE
  <2>1. frames[x] \in Frame
    BY <1>13, <1>f DEF ResumeParked, FrameTable
  <2>2. frames'[c] = IF c = x THEN frames'[x] ELSE frames[c]
    BY <1>13, <1>f DEF ResumeParked, FrameTable
  <2>3. frames'[x].pc = frames[x].pc
    BY <1>13, <1>f, <2>1 DEF ResumeParked, Frame, FrameTable
  <2>4. QED
    BY <1>13, <2>2, <2>3 DEF ResumeParked, StartsLoading
<1>14. ASSUME NEW v \in Vms, ResumeReturns(v) PROVE FALSE
  <2> DEFINE S == IF leads[v].nested # 0 THEN StartedAt(v, leads[v].depth) ELSE {}
             fr == Notified(S, "closed")
  <2>1. fr \in FrameTable /\ GoesOn(fr[c], c, S)
    BY <1>n
  <2>2. frames'[c] = fr[c] \/ (frames[c] # Idle /\ frames'[c] = [fr[c] EXCEPT !.run = "parked"])
    BY <1>14 DEF ResumeReturns, On
  <2> HIDE DEF fr, S
  <2>3. ASSUME frames[c] # Idle PROVE fr[c].pc = frames[c].pc /\ [fr[c] EXCEPT !.run = "parked"].pc = fr[c].pc
    BY <2>1, <2>3 DEF GoesOn, SameRole, FrameTable, Frame
  <2>4. QED
    BY <2>1, <2>2, <2>3, GoingOnLoadsNot DEF StartsLoading
<1>15. ASSUME NEW v \in Vms, EndRun(v) PROVE FALSE
  <2> DEFINE S == IF leads[v].all # 0 THEN StartedAt(v, 0) ELSE {}
             left == {x \in Frames : On(x) /\ frames[x].vm = v}
             fr == Notified(S, "closed")
  <2>1. fr \in FrameTable /\ GoesOn(fr[c], c, S)
    BY <1>n
  <2>2. \A y \in left : fr[y] # Idle
    BY NotifiedType DEF On, Box
  <2>3. frames' = Doomed(fr, left)
    BY <1>15 DEF EndRun
  <2> HIDE DEF fr, S, left
  <2>4. QED
    BY <2>1, <2>2, <2>3, DoomedGoes, GoingOnLoadsNot
<1>16. ASSUME UNCHANGED frames PROVE FALSE
  BY <1>16 DEF StartsLoading
<1>17. QED
  BY <1>2, <1>3, <1>4, <1>5, <1>6, <1>7, <1>9, <1>10, <1>11, <1>12, <1>13, <1>14, <1>15, <1>16
     DEF Next, Resume, StartRun, CellChanges

(* A guard of an earlier leader never removes a successor's flight, a        *)
(* loader's value never replaces one written while it ran, and no loader     *)
(* runs for a key that has a fresh value (take_flight, finish, join).        *)
THEOREM LeadersKeepOffAlways == Spec => LeadersKeepOff
<1> DEFINE Body1 == \A k \in Keys : Ends(k) => EndsByLeader(k)
           Body2 == \A k \in Keys : cell[k] = "written" /\ frames' # frames => cell'[k] = "written"
           Body3 == \A c \in Frames : StartsLoading(c) => ~Fresh(frames'[c].key)
<1>1. FlightInv /\ [Next]_vars => [Body1]_vars
  BY EndsStep
<1>2. FlightInv /\ [Next]_vars => [Body2]_vars
  BY WrittenStays DEF FlightInv, CountInv
<1>3. FlightInv /\ [Next]_vars => [Body3]_vars
  BY NewLoads DEF FlightInv, CountInv
<1> HIDE DEF Body1, Body2, Body3
<1>4. Spec => [][Body1]_vars /\ [][Body2]_vars /\ [][Body3]_vars
  BY <1>1, <1>2, <1>3, FlightInvAlways, PTL DEF Spec
<1>5. (Spec => [][Body1]_vars) => (Spec => OnlyItsLeaderEndsAFlight)
  BY DEF Body1, Ends, EndsByLeader, OnlyItsLeaderEndsAFlight
<1>6. (Spec => [][Body2]_vars) => (Spec => WrittenWins)
  BY DEF Body2, WrittenWins
<1>7. (Spec => [][Body3]_vars) => (Spec => LoadsAreNeeded)
  BY DEF Body3, StartsLoading, Loading, LoadsAreNeeded
<1>8. QED
  BY <1>4, <1>5, <1>6, <1>7 DEF LeadersKeepOff

=============================================================================
