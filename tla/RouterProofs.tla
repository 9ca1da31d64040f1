------------------------------ MODULE RouterProofs ------------------------------
(***************************************************************************)
(* RouterCalls, for any number of calls, ids and tokens: the token table   *)
(* keeps its cap, a call in flight is found by its id, and its gate        *)
(* reaches its client through a registry that holds no stale callback.     *)
(*                                                                         *)
(* The invariants the run checks are not inductive.  That a call is found  *)
(* by its id survives the end of another call because two calls that share *)
(* an id have both been noticed (Sharers); that an id leads to no other    *)
(* call, because a token leaves with its call (OwnToken); that a gate can  *)
(* ask, because a running call with a session is registered (Listed), and  *)
(* its gate cannot have run before its context was built (Context).        *)
(***************************************************************************)
EXTENDS RouterCalls, FiniteSetTheorems, TLAPS

\* Calls in flight together under one id have been noticed.
Sharers ==
    \A c, d \in InFlight : c # d /\ callId[c] = callId[d] => {c, d} \subseteq clashed

\* A call that has begun has an id.
Keyed == \A c \in Calls : phase[c] # "idle" => callId[c] \in Ids

\* From its context to its end, a call with a session has its callback listed.
Listed ==
    \A c \in Calls :
        phase[c] \in {"built", "bridged", "running", "over"} /\ session[c] # NoSession => c \in elicits

\* Before its context is built a call has no session, before it runs no gate.
Context ==
    \A c \in Calls :
        /\ phase[c] \in {"idle", "guarded"} => session[c] = NoSession
        /\ phase[c] \in {"idle", "guarded", "built", "bridged"} => gate[c] = "none"

\* A token in the table is the one of a call in flight, under its own id.
OwnToken ==
    \A i \in Ids : tokens[i] \in Calls => tokens[i] \in InFlight /\ callId[tokens[i]] = i

\* What the tokens need.
TokenInv == Keyed /\ Sharers /\ OwnToken /\ CallIsCancellable /\ TokensBounded

\* What the callbacks and the gate need.
GateInv == Listed /\ Context /\ NoStaleCallback /\ GatedCallCanAsk

IInv == TypeOK /\ TokenInv /\ GateInv

-----------------------------------------------------------------------------
(* The token table.                                                        *)

\* The ids are finitely many, and what stands for "nothing" and for a tombstone
\* is no call.
LEMMA IdFacts ==
  /\ IsFiniteSet(Ids)
  /\ Calls \subseteq Ids
  /\ NoId \notin Calls /\ NoId \notin Ids
  /\ Tombstone # NoId /\ Tombstone \notin Calls
BY RouterAssumption, FS_Union DEF Ids

\* Writing one entry registers its id and no other.
LEMMA WrittenTable ==
  ASSUME TypeOK, NEW i \in Ids, NEW x \in Calls \union {Tombstone}, NEW table,
         table = [tokens EXCEPT ![i] = x]
  PROVE  /\ table \in [Ids -> Calls \union {NoId, Tombstone}]
         /\ table[i] = x
         /\ \A j \in Ids : j # i => table[j] = tokens[j]
         /\ Registered(table) = Registered(tokens) \union {i}
BY IdFacts DEF TypeOK, Registered

\* An eviction takes out of the table what it drops and nothing else.
LEMMA EvictedTable ==
  ASSUME NEW table \in [Ids -> Calls \union {NoId, Tombstone}], NEW dropped
  PROVE  /\ Evicted(table, dropped) \in [Ids -> Calls \union {NoId, Tombstone}]
         /\ \A j \in Ids : Evicted(table, dropped)[j] = IF j \in dropped THEN NoId ELSE table[j]
         /\ Registered(Evicted(table, dropped)) = Registered(table) \ dropped
BY DEF Evicted, Registered

\* What is dropped is registered, at most one id, and one exactly when the
\* table is over its cap.
LEMMA DroppedIds ==
  ASSUME NEW table, NEW flags, NEW busy, NEW dropped \in Evictable(table, flags, busy)
  PROVE  /\ dropped \subseteq Registered(table)
         /\ dropped = {} => Cardinality(Registered(table)) <= MaxTokens
         /\ dropped # {} => \E i \in Registered(table) : dropped = {i}
<1> DEFINE unused == {i \in Registered(table) : IsCancelled(table[i], flags) /\ i \notin busy}
<1>1. CASE Cardinality(Registered(table)) <= MaxTokens
  BY <1>1 DEF Evictable
<1>2. CASE ~(Cardinality(Registered(table)) <= MaxTokens) /\ unused # {}
  <2>1. dropped \in {{i} : i \in unused}
    BY <1>2 DEF Evictable
  <2> QED BY <2>1
<1>3. CASE ~(Cardinality(Registered(table)) <= MaxTokens) /\ unused = {}
  <2>1. dropped \in {{i} : i \in Registered(table)}
    BY <1>3 DEF Evictable
  <2> QED BY <2>1
<1> QED BY <1>1, <1>2, <1>3

\* A table that was within its cap is so after one write and an eviction.
LEMMA CapKept ==
  ASSUME TypeOK, TokensBounded, NEW i \in Ids, NEW x \in Calls \union {Tombstone},
         NEW table, table = [tokens EXCEPT ![i] = x],
         NEW flags, NEW busy, NEW dropped \in Evictable(table, flags, busy)
  PROVE  Cardinality(Registered(Evicted(table, dropped))) <= MaxTokens
<1>1. /\ table \in [Ids -> Calls \union {NoId, Tombstone}]
      /\ Registered(table) = Registered(tokens) \union {i}
  BY WrittenTable
<1>2. Registered(Evicted(table, dropped)) = Registered(table) \ dropped
  BY <1>1, EvictedTable
<1>3. IsFiniteSet(Registered(tokens)) /\ Cardinality(Registered(tokens)) \in Nat
  <2>1. Registered(tokens) \subseteq Ids
    BY DEF Registered
  <2> QED BY <2>1, IdFacts, FS_Subset, FS_CardinalityType
<1>4. IsFiniteSet(Registered(table)) /\ Cardinality(Registered(table)) \in Nat
  <2>1. IsFiniteSet(Registered(tokens) \union {i})
    BY <1>3, FS_AddElement
  <2>2. IsFiniteSet(Registered(table))
    BY <2>1, <1>1, Zenon
  <2> QED BY <2>2, FS_CardinalityType
<1>5. Cardinality(Registered(table)) <= Cardinality(Registered(tokens)) + 1
  <2>1. \/ Cardinality(Registered(tokens) \union {i}) = Cardinality(Registered(tokens))
        \/ Cardinality(Registered(tokens) \union {i}) = Cardinality(Registered(tokens)) + 1
    BY <1>3, FS_AddElement
  <2>2. Cardinality(Registered(table)) = Cardinality(Registered(tokens) \union {i})
    BY <1>1, Zenon
  <2> QED BY <2>1, <2>2, <1>3
<1>6. Cardinality(Registered(tokens)) <= MaxTokens /\ MaxTokens \in Nat
  BY RouterAssumption DEF TokensBounded
<1>7. CASE dropped = {}
  <2>1. Registered(table) \ dropped = Registered(table)
    BY <1>7
  <2> QED BY <2>1, <1>2, <1>7, DroppedIds
<1>8. CASE dropped # {}
  <2>1. PICK j \in Registered(table) : dropped = {j}
    BY <1>8, DroppedIds
  <2>2. Cardinality(Registered(table) \ {j}) = Cardinality(Registered(table)) - 1
    BY <1>4, FS_RemoveElement
  <2>3. Registered(Evicted(table, dropped)) = Registered(table) \ {j}
    BY <2>1, <1>2
  <2>4. Cardinality(Registered(Evicted(table, dropped))) = Cardinality(Registered(table)) - 1
    BY <2>2, <2>3, Zenon
  <2> QED BY <2>4, <1>3, <1>4, <1>5, <1>6
<1> QED BY <1>7, <1>8

-----------------------------------------------------------------------------
(* The initial state and the steps.                                        *)

LEMMA InitIInv == Init => IInv
<1> SUFFICES ASSUME Init PROVE IInv
  OBVIOUS
<1>1. TypeOK
  BY IdFacts DEF Init, TypeOK
<1>2. Cardinality(Registered(tokens)) = 0
  <2>1. Registered(tokens) = {}
    BY DEF Init, Registered
  <2> QED BY <2>1, FS_EmptySet
<1>3. TokensBounded
  BY <1>2, RouterAssumption DEF TokensBounded
<1>4. InFlight = {}
  BY DEF Init, InFlight
<1>5. TokenInv
  BY <1>3, <1>4, IdFacts DEF Init, TokenInv, Keyed, Sharers, OwnToken, CallIsCancellable
<1>6. GateInv
  BY DEF Init, GateInv, Listed, Context, NoStaleCallback, GatedCallCanAsk
<1> QED BY <1>1, <1>5, <1>6 DEF IInv

\* A write to the table, followed by an eviction that is accounted for, loses
\* no call in flight but the owner of the entry that was overwritten.
LEMMA WriteFindsCalls ==
  ASSUME TypeOK, Keyed, CallIsCancellable,
         NEW i \in Ids, NEW x \in Calls \union {Tombstone},
         NEW table, table = [tokens EXCEPT ![i] = x],
         NEW dropped, tokens' = Evicted(table, dropped),
         OwnersOf(table, dropped) \subseteq evicted', evicted \subseteq evicted',
         clashed \subseteq clashed',
         NEW c \in InFlight, callId[c] # i
  PROVE  tokens'[callId[c]] = c \/ c \in evicted' \union clashed'
<1>1. c \in Calls /\ callId[c] \in Ids
  BY DEF InFlight, Keyed
<1>2. table[callId[c]] = tokens[callId[c]]
  BY <1>1 DEF TypeOK
<1>3. tokens'[callId[c]] = IF callId[c] \in dropped THEN NoId ELSE table[callId[c]]
  BY <1>1 DEF Evicted
<1>4. CASE c \in evicted \union clashed
  BY <1>4
<1>5. CASE tokens[callId[c]] = c /\ callId[c] \in dropped
  BY <1>5, <1>2 DEF OwnersOf
<1>6. CASE tokens[callId[c]] = c /\ callId[c] \notin dropped
  BY <1>6, <1>2, <1>3
<1> QED BY <1>4, <1>5, <1>6 DEF CallIsCancellable

LEMMA BeginIInv ==
  ASSUME IInv, NEW c \in Calls, NEW i \in Ids, NEW s \in Sessions \union {NoSession},
         Begin(c, i, s)
  PROVE  IInv'
<1> DEFINE table == [tokens EXCEPT ![i] = c]
           flags == IF IsCancelled(tokens[i], cancelled) THEN cancelled \union {c} ELSE cancelled
           others == {d \in InFlight : callId[d] = i}
<1>1. PICK dropped \in Evictable(table, flags, {i}) :
        /\ tokens' = Evicted(table, dropped)
        /\ evicted' = evicted \union OwnersOf(table, dropped) \union ({c} \intersect {table[j] : j \in dropped})
  BY DEF Begin, Register
<1>2. /\ cancelled' = flags
      /\ phase[c] = "idle" /\ phase' = [phase EXCEPT ![c] = "guarded"]
      /\ callId' = [callId EXCEPT ![c] = i]
      /\ stamp' = [stamp EXCEPT ![c] = s]
      /\ clashed' = clashed \union others \union (IF others = {} THEN {} ELSE {c})
      /\ UNCHANGED <<session, elicits, gate, live, lateGate>>
  BY DEF Begin, Register, Moves
<1>3. table \in [Ids -> Calls \union {NoId, Tombstone}] /\ table[i] = c
  BY WrittenTable DEF IInv
<1>4. tokens' \in [Ids -> Calls \union {NoId, Tombstone}]
  BY <1>1, <1>3, EvictedTable
<1>5. InFlight' = InFlight \union {c} /\ c \notin InFlight /\ InFlight \subseteq Calls
  BY <1>2 DEF InFlight, IInv, TypeOK
<1>6. TypeOK'
  <2>1. cancelled' \subseteq Calls /\ clashed' \subseteq Calls
    BY <1>2, <1>5 DEF IInv, TypeOK
  <2>2. evicted' \subseteq Calls
    BY <1>1, <1>5 DEF IInv, TypeOK, OwnersOf
  <2> QED BY <1>2, <1>4, <2>1, <2>2 DEF IInv, TypeOK
<1>7. Keyed'
  BY <1>2 DEF IInv, TypeOK, TokenInv, Keyed
<1>8. Sharers'
  BY <1>2, <1>5 DEF IInv, TypeOK, TokenInv, Sharers
<1>9. CallIsCancellable'
  <2> SUFFICES ASSUME NEW d \in InFlight'
               PROVE  (tokens'[callId'[d]] = d) \/ d \in evicted' \union clashed'
    BY DEF CallIsCancellable
  <2>1. CASE d = c
    <3>1. callId'[c] = i
      BY <1>2 DEF IInv, TypeOK
    <3>2. tokens'[i] = IF i \in dropped THEN NoId ELSE c
      BY <1>1, <1>3, EvictedTable
    <3> QED BY <2>1, <3>1, <3>2, <1>1, <1>3
  <2>2. CASE d # c /\ callId[d] = i
    BY <2>2, <1>2, <1>5
  <2>3. CASE d # c /\ callId[d] # i
    <3>1. d \in InFlight /\ callId'[d] = callId[d]
      BY <2>3, <1>2, <1>5 DEF IInv, TypeOK
    <3>2. /\ OwnersOf(table, dropped) \subseteq evicted'
          /\ evicted \subseteq evicted' /\ clashed \subseteq clashed'
      BY <1>1, <1>2
    <3>3. TypeOK /\ Keyed /\ CallIsCancellable
      BY DEF IInv, TokenInv
    <3> HIDE DEF table
    <3> QED BY <2>3, <3>1, <3>2, <3>3, <1>1, WriteFindsCalls DEF table
  <2> QED BY <2>1, <2>2, <2>3
<1>10. TokensBounded'
  BY <1>1, CapKept DEF IInv, TokenInv, TokensBounded
<1>11. GateInv'
  BY <1>2 DEF IInv, TypeOK, GateInv, Listed, Context, NoStaleCallback, GatedCallCanAsk
<1>12. OwnToken'
  <2> SUFFICES ASSUME NEW j \in Ids, tokens'[j] \in Calls
               PROVE  tokens'[j] \in InFlight' /\ callId'[tokens'[j]] = j
    BY DEF OwnToken
  <2>1. tokens'[j] = IF j \in dropped THEN NoId ELSE table[j]
    BY <1>1 DEF Evicted
  <2>2. tokens'[j] = table[j]
    BY <2>1, IdFacts
  <2>3. CASE j = i
    BY <2>2, <2>3, <1>2, <1>3, <1>5 DEF IInv, TypeOK
  <2>4. CASE j # i
    <3>1. tokens'[j] = tokens[j]
      BY <2>2, <2>4, WrittenTable DEF IInv
    \* It was in flight, so it is not the call that begins.
    <3>2. tokens[j] \in InFlight /\ callId[tokens[j]] = j /\ tokens[j] # c
      BY <3>1, <1>5 DEF IInv, TokenInv, OwnToken
    <3> QED BY <3>1, <3>2, <1>2, <1>5 DEF IInv, TypeOK
  <2> QED BY <2>3, <2>4
<1> QED BY <1>6, <1>7, <1>8, <1>9, <1>10, <1>11, <1>12 DEF IInv, TokenInv

LEMMA CancelIInv == ASSUME IInv, NEW i \in GivenIds, CancelCall(i) PROVE IInv'
<1> DEFINE table == [tokens EXCEPT ![i] = Tombstone]
<1>1. UNCHANGED <<phase, callId, stamp, session, elicits, gate, live, clashed, lateGate>>
  BY DEF CancelCall
<1>2. GateInv'
  BY <1>1 DEF IInv, GateInv, Listed, Context, NoStaleCallback, GatedCallCanAsk
<1>3. Keyed' /\ Sharers' /\ InFlight' = InFlight
  BY <1>1 DEF IInv, TokenInv, Keyed, Sharers, InFlight
<1>4. i \in Ids
  BY DEF Ids
<1>5. CASE tokens[i] # NoId
  <2>1. cancelled' = cancelled \union ({tokens[i]} \ {Tombstone}) /\ UNCHANGED <<tokens, evicted>>
    BY <1>5 DEF CancelCall
  <2>2. TypeOK'
    BY <2>1, <1>1, <1>4, <1>5 DEF IInv, TypeOK
  <2>3. CallIsCancellable' /\ TokensBounded'
    BY <2>1, <1>1, <1>3 DEF IInv, TokenInv, CallIsCancellable, TokensBounded, Registered
  <2>4. OwnToken'
    BY <2>1, <1>1, <1>3 DEF IInv, TokenInv, OwnToken
  <2> QED BY <2>2, <2>3, <2>4, <1>2, <1>3 DEF IInv, TokenInv
<1>6. CASE tokens[i] = NoId
  <2>1. PICK dropped \in Evictable(table, cancelled, {}) :
          /\ tokens' = Evicted(table, dropped)
          /\ evicted' = evicted \union OwnersOf(table, dropped)
    BY <1>6 DEF CancelCall
  <2>2. UNCHANGED cancelled
    BY <1>6 DEF CancelCall
  <2>3. table \in [Ids -> Calls \union {NoId, Tombstone}]
    BY <1>4, WrittenTable DEF IInv
  <2>4. TypeOK'
    <3>1. tokens' \in [Ids -> Calls \union {NoId, Tombstone}]
      BY <2>1, <2>3, EvictedTable
    <3>2. evicted' \subseteq Calls
      BY <2>1 DEF IInv, TypeOK, OwnersOf, InFlight
    <3> QED BY <3>1, <3>2, <2>2, <1>1 DEF IInv, TypeOK
  <2>5. CallIsCancellable'
    <3> SUFFICES ASSUME NEW c \in InFlight
                 PROVE  tokens'[callId[c]] = c \/ c \in evicted' \union clashed'
      BY <1>1, <1>3 DEF CallIsCancellable
    <3>1. CASE callId[c] = i
      \* Its id holds nothing: the call was evicted, or shares its id.
      <4>1. c # NoId
        BY IdFacts DEF InFlight
      <4>2. c \in evicted \union clashed
        BY <3>1, <4>1, <1>6 DEF IInv, TokenInv, CallIsCancellable
      <4> QED BY <4>2, <2>1, <1>1
    <3>2. CASE callId[c] # i
      <4>1. /\ OwnersOf(table, dropped) \subseteq evicted'
            /\ evicted \subseteq evicted' /\ clashed \subseteq clashed'
        BY <2>1, <1>1
      <4>2. TypeOK /\ Keyed /\ CallIsCancellable
        BY DEF IInv, TokenInv
      <4> HIDE DEF table
      <4> QED BY <3>2, <4>1, <4>2, <2>1, <1>4, WriteFindsCalls DEF table
    <3> QED BY <3>1, <3>2
  <2>6. TokensBounded'
    BY <2>1, <1>4, CapKept DEF IInv, TokenInv, TokensBounded
  <2>7. OwnToken'
    <3> SUFFICES ASSUME NEW j \in Ids, tokens'[j] \in Calls
                 PROVE  tokens'[j] \in InFlight /\ callId[tokens'[j]] = j
      BY <1>1, <1>3 DEF OwnToken
    <3>1. tokens'[j] = IF j \in dropped THEN NoId ELSE table[j]
      BY <2>1 DEF Evicted
    <3>2. table[i] = Tombstone /\ \A k \in Ids : k # i => table[k] = tokens[k]
      BY <1>4 DEF IInv, TypeOK
    <3>3. tokens'[j] = tokens[j]
      BY <3>1, <3>2, IdFacts
    <3> QED BY <3>3 DEF IInv, TokenInv, OwnToken
  <2> QED BY <2>4, <2>5, <2>6, <2>7, <1>2, <1>3 DEF IInv, TokenInv
<1> QED BY <1>5, <1>6


\* The tokens stay right when the calls in flight, their ids and the table stay.
LEMMA TokensStay ==
  ASSUME IInv, UNCHANGED <<tokens, callId, clashed, evicted>>,
         InFlight' = InFlight,
         \A c \in Calls : phase'[c] # "idle" => phase[c] # "idle"
  PROVE  TokenInv'
<1>1. Keyed' /\ Sharers'
  BY DEF IInv, TokenInv, Keyed, Sharers
<1>2. CallIsCancellable' /\ TokensBounded'
  BY DEF IInv, TokenInv, CallIsCancellable, TokensBounded, Registered
<1>3. OwnToken'
  BY DEF IInv, TokenInv, OwnToken
<1> QED BY <1>1, <1>2, <1>3 DEF TokenInv

LEMMA BuildContextIInv == ASSUME IInv, NEW c \in Calls, BuildContext(c) PROVE IInv'
<1>1. /\ phase[c] = "guarded" /\ phase' = [phase EXCEPT ![c] = "built"]
      /\ UNCHANGED <<tokens, cancelled, callId, stamp, gate, live, clashed, evicted, lateGate>>
  BY DEF BuildContext, Moves, history
<1>2. \/ /\ stamp[c] \in Sessions
         /\ session' = [session EXCEPT ![c] = stamp[c]] /\ elicits' = elicits \union {c}
      \/ UNCHANGED <<session, elicits>>
  BY DEF BuildContext, IInv, TypeOK
<1>3. TypeOK'
  BY <1>1, <1>2 DEF IInv, TypeOK
<1>4. TokenInv'
  BY <1>1, TokensStay DEF IInv, TypeOK, InFlight
<1>5. Listed' /\ Context'
  BY <1>1, <1>2 DEF IInv, TypeOK, GateInv, Listed, Context
<1>6. NoStaleCallback' /\ GatedCallCanAsk'
  BY <1>1, <1>2, RouterAssumption DEF IInv, TypeOK, GateInv, Context, NoStaleCallback, GatedCallCanAsk
<1> QED BY <1>3, <1>4, <1>5, <1>6 DEF IInv, GateInv

\* A call moves on between its context and its end.
LEMMA MoveIInv ==
  ASSUME IInv, NEW c \in Calls,
         \/ Step(c, {"built"}, "bridged")
         \/ Step(c, {"built"}, "running")
         \/ Step(c, {"built"}, "over")
         \/ Step(c, {"bridged", "running"}, "over")
  PROVE  IInv'
<1>1. /\ phase[c] \in {"built", "bridged", "running"}
      /\ \E to \in {"bridged", "running", "over"} :
           phase' = [phase EXCEPT ![c] = to] /\ (to # "over" => phase[c] = "built")
      /\ UNCHANGED <<tokens, cancelled, callId, stamp, session, elicits, gate, live,
                     clashed, evicted, lateGate>>
  BY DEF Step, Moves, history
<1>2. TypeOK'
  BY <1>1 DEF IInv, TypeOK
<1>3. TokenInv'
  BY <1>1, TokensStay DEF IInv, TypeOK, InFlight
<1>4. GateInv'
  BY <1>1 DEF IInv, TypeOK, GateInv, Listed, Context, NoStaleCallback, GatedCallCanAsk
<1> QED BY <1>2, <1>3, <1>4 DEF IInv

LEMMA DropElicitIInv == ASSUME IInv, NEW c \in Calls, DropElicitGuard(c) PROVE IInv'
<1>1. /\ phase[c] = "over" /\ phase' = [phase EXCEPT ![c] = "unlisted"]
      /\ elicits' = elicits \ {c}
      /\ UNCHANGED <<tokens, cancelled, callId, stamp, session, gate, live, clashed, evicted, lateGate>>
  BY DEF DropElicitGuard, Moves, history
<1>2. TypeOK'
  BY <1>1 DEF IInv, TypeOK
<1>3. TokenInv'
  BY <1>1, TokensStay DEF IInv, TypeOK, InFlight
<1>4. GateInv'
  BY <1>1 DEF IInv, TypeOK, GateInv, Listed, Context, NoStaleCallback, GatedCallCanAsk
<1> QED BY <1>2, <1>3, <1>4 DEF IInv

LEMMA DropCancelIInv == ASSUME IInv, NEW c \in Calls, DropCancelGuard(c) PROVE IInv'
<1>1. /\ phase[c] = "unlisted" /\ phase' = [phase EXCEPT ![c] = "done"]
      /\ tokens' = [tokens EXCEPT ![callId[c]] = NoId]
      /\ UNCHANGED <<cancelled, callId, stamp, session, elicits, gate, live, clashed, evicted, lateGate>>
  BY DEF DropCancelGuard, Moves, history
<1>2. TypeOK'
  BY <1>1 DEF IInv, TypeOK
<1>3. InFlight' = InFlight \ {c} /\ c \in InFlight
  BY <1>1 DEF IInv, TypeOK, InFlight
<1>4. Keyed' /\ Sharers'
  BY <1>1, <1>3 DEF IInv, TypeOK, TokenInv, Keyed, Sharers
<1>5. CallIsCancellable'
  <2> SUFFICES ASSUME NEW d \in InFlight, d # c
               PROVE  tokens'[callId[d]] = d \/ d \in evicted \union clashed
    BY <1>1, <1>3 DEF CallIsCancellable
  <2>1. CASE callId[d] = callId[c]
    \* Its entry is removed by the other's guard; both were noticed.
    BY <2>1, <1>3 DEF IInv, TokenInv, Sharers
  <2>2. CASE callId[d] # callId[c]
    <3>1. tokens'[callId[d]] = tokens[callId[d]]
      BY <2>2, <1>1 DEF IInv, TypeOK, TokenInv, Keyed, InFlight
    <3> QED BY <3>1 DEF IInv, TokenInv, CallIsCancellable
  <2> QED BY <2>1, <2>2
<1>6. TokensBounded'
  <2>1. Registered(tokens') \subseteq Registered(tokens) /\ Registered(tokens) \subseteq Ids
    BY <1>1 DEF IInv, TypeOK, Registered
  <2>2. /\ Cardinality(Registered(tokens')) <= Cardinality(Registered(tokens))
        /\ Cardinality(Registered(tokens)) \in Nat /\ Cardinality(Registered(tokens')) \in Nat
    <3>1. IsFiniteSet(Registered(tokens))
      BY <2>1, IdFacts, FS_Subset
    <3>2. IsFiniteSet(Registered(tokens'))
      BY <3>1, <2>1, FS_Subset
    <3> QED BY <2>1, <3>1, <3>2, FS_Subset, FS_CardinalityType
  <2>3. Cardinality(Registered(tokens)) <= MaxTokens /\ MaxTokens \in Nat
    BY RouterAssumption DEF IInv, TokenInv, TokensBounded
  <2> QED BY <2>2, <2>3 DEF TokensBounded
<1>7. GateInv'
  BY <1>1 DEF IInv, TypeOK, GateInv, Listed, Context, NoStaleCallback, GatedCallCanAsk
<1>8. OwnToken'
  <2> SUFFICES ASSUME NEW j \in Ids, tokens'[j] \in Calls
               PROVE  tokens'[j] \in InFlight' /\ callId[tokens'[j]] = j
    BY <1>1 DEF OwnToken
  <2>1. tokens'[j] = tokens[j] /\ j # callId[c]
    BY <1>1, IdFacts DEF IInv, TypeOK
  \* The token of the call that ends was under its id only.
  <2>2. tokens[j] \in InFlight /\ callId[tokens[j]] = j
    BY <2>1 DEF IInv, TokenInv, OwnToken
  <2> QED BY <2>1, <2>2, <1>3
<1> QED BY <1>2, <1>4, <1>5, <1>6, <1>7, <1>8 DEF IInv, TokenInv

LEMMA GateIInv ==
  ASSUME IInv, NEW c \in Calls, AskApproval(c) \/ GateAnswered(c)
  PROVE  IInv'
<1>1. UNCHANGED <<phase, tokens, cancelled, callId, stamp, session, elicits, live, clashed, evicted>>
  BY DEF AskApproval, GateAnswered, history
<1>2. TokenInv'
  BY <1>1, TokensStay DEF InFlight
<1>3. CASE AskApproval(c)
  <2>1. /\ phase[c] \in {"running", "over", "unlisted", "done"}
        /\ gate' = [gate EXCEPT ![c] = IF c \in elicits \/ Fallback THEN "asking" ELSE "unreachable"]
        /\ lateGate' = IF phase[c] = "running" THEN lateGate ELSE lateGate \union {c}
    BY <1>3 DEF AskApproval
  <2>2. TypeOK'
    BY <2>1, <1>1 DEF IInv, TypeOK
  <2>3. Listed' /\ Context' /\ NoStaleCallback'
    BY <2>1, <1>1 DEF IInv, TypeOK, GateInv, Listed, Context, NoStaleCallback
  <2>4. GatedCallCanAsk'
    \* A running call with a session is listed, so it is not unreachable.
    BY <2>1, <1>1 DEF IInv, TypeOK, GateInv, Listed, GatedCallCanAsk
  <2> QED BY <2>2, <2>3, <2>4, <1>2 DEF IInv, GateInv
<1>4. CASE GateAnswered(c)
  <2>1. /\ gate[c] = "asking"
        /\ \E v \in {"approved", "rejected"} : gate' = [gate EXCEPT ![c] = v]
        /\ UNCHANGED lateGate
    BY <1>4 DEF GateAnswered, Verdict, history
  <2>2. TypeOK'
    BY <2>1, <1>1 DEF IInv, TypeOK
  <2>3. GateInv'
    BY <2>1, <1>1 DEF IInv, TypeOK, GateInv, Listed, Context, NoStaleCallback, GatedCallCanAsk
  <2> QED BY <2>2, <2>3, <1>2 DEF IInv
<1> QED BY <1>3, <1>4

LEMMA StepIInv == IInv /\ [Next]_vars => IInv'
<1> SUFFICES ASSUME IInv, [Next]_vars PROVE IInv'
  OBVIOUS
<1>1. ASSUME NEW c \in Calls, NEW i \in Ids, NEW s \in Sessions \union {NoSession}, Begin(c, i, s)
      PROVE  IInv'
  BY <1>1, BeginIInv
<1>2. ASSUME NEW c \in Calls, CallStep(c) PROVE IInv'
  <2>1. CASE BuildContext(c)
    BY <2>1, BuildContextIInv
  <2>2. CASE RouteToBridge(c) \/ Invalid(c) \/ Execute(c) \/ Returns(c) \/ Abandon(c)
    BY <2>2, MoveIInv DEF RouteToBridge, Invalid, Execute, Returns, Abandon
  <2>3. CASE DropElicitGuard(c)
    BY <2>3, DropElicitIInv
  <2>4. CASE DropCancelGuard(c)
    BY <2>4, DropCancelIInv
  <2>5. CASE AskApproval(c) \/ GateAnswered(c)
    BY <2>5, GateIInv
  <2> QED BY <1>2, <2>1, <2>2, <2>3, <2>4, <2>5 DEF CallStep
<1>3. ASSUME NEW i \in GivenIds, CancelCall(i) PROVE IInv'
  BY <1>3, CancelIInv
<1>4. ASSUME NEW s \in Sessions, SessionEnds(s) PROVE IInv'
  <2>1. live' \subseteq live /\ UNCHANGED <<tokens, cancelled, phase, callId, stamp, session,
                                            elicits, gate, clashed, evicted, lateGate>>
    BY <1>4 DEF SessionEnds, routerVars, history
  <2>2. TypeOK' /\ GateInv'
    BY <2>1 DEF IInv, TypeOK, GateInv, Listed, Context, NoStaleCallback, GatedCallCanAsk
  <2>3. TokenInv'
    BY <2>1, TokensStay DEF InFlight
  <2> QED BY <2>2, <2>3 DEF IInv
<1>5. CASE UNCHANGED vars
  <2>1. UNCHANGED <<tokens, cancelled, phase, callId, stamp, session, elicits, gate, live,
                    clashed, evicted, lateGate>>
    BY <1>5 DEF vars, routerVars, history
  <2>2. TypeOK' /\ GateInv'
    BY <2>1 DEF IInv, TypeOK, GateInv, Listed, Context, NoStaleCallback, GatedCallCanAsk
  <2>3. TokenInv'
    BY <2>1, TokensStay DEF InFlight
  <2> QED BY <2>2, <2>3 DEF IInv
<1> QED BY <1>1, <1>2, <1>3, <1>4, <1>5 DEF Next

-----------------------------------------------------------------------------
(* Theorems.                                                               *)

\* The invariant that carries the others.
THEOREM Invariant == Spec => []IInv
BY InitIInv, StepIInv, PTL DEF Spec

\* Every variable of the router keeps its type.
THEOREM TypeCorrect == Spec => []TypeOK
BY Invariant, PTL DEF IInv

\* The token table never exceeds CANCEL_TOKENS_MAX, whatever ids clients choose,
\* share or cancel.
THEOREM TableBounded == Spec => []TokensBounded
BY Invariant, PTL DEF IInv, TokenInv

\* A call in flight is found by its id, unless its entry was evicted or its id
\* was shared.
THEOREM Cancellable == Spec => []CallIsCancellable
BY Invariant, PTL DEF IInv, TokenInv

\* The elicit registry holds only callbacks of calls that are not over.
THEOREM NoStale == Spec => []NoStaleCallback
BY Invariant, PTL DEF IInv, GateInv

\* The gate of a running call with a session reaches its client.
THEOREM GateReachesClient == Spec => []GatedCallCanAsk
BY Invariant, PTL DEF IInv, GateInv

Exact ==
    \A i \in GivenIds : CancelCall(i) =>
        LET named == {c \in InFlight : callId[c] = i} IN
        /\ cancelled' \ cancelled \subseteq named
        /\ named \ (evicted \union clashed) \subseteq cancelled'

LEMMA StepExact == ASSUME IInv PROVE Exact
<1> SUFFICES ASSUME NEW i \in GivenIds, CancelCall(i)
             PROVE  LET named == {c \in InFlight : callId[c] = i} IN
                    /\ cancelled' \ cancelled \subseteq named
                    /\ named \ (evicted \union clashed) \subseteq cancelled'
  BY DEF Exact
<1>1. i \in Ids
  BY DEF Ids
<1>2. ASSUME NEW c \in InFlight, callId[c] = i, c \notin evicted \union clashed
      PROVE  tokens[i] = c /\ c # NoId /\ c # Tombstone
  BY <1>2, IdFacts DEF IInv, TokenInv, CallIsCancellable, InFlight
<1>3. CASE tokens[i] # NoId
  <2>1. cancelled' = cancelled \union ({tokens[i]} \ {Tombstone})
    BY <1>3 DEF CancelCall
  <2>2. tokens[i] # Tombstone => tokens[i] \in InFlight /\ callId[tokens[i]] = i
    BY <1>1, <1>3 DEF IInv, TypeOK, TokenInv, OwnToken
  <2> QED BY <2>1, <2>2, <1>2
<1>4. CASE tokens[i] = NoId
  <2>1. cancelled' = cancelled
    BY <1>4 DEF CancelCall
  <2> QED BY <2>1, <1>2, <1>4
<1> QED BY <1>3, <1>4

\* Cancelling by id is exact: the call in flight under the id, and no other
\* (cancel_call, CancelGuard::drop).
THEOREM ExactCancel == Spec => CancelIsExact
<1>1. IInv /\ [Next]_vars => [Exact]_vars
  BY StepExact
<1> QED BY <1>1, Invariant, PTL DEF Spec, CancelIsExact, Exact
=============================================================================
