-------------------------- MODULE Programs_proofs --------------------------
(***************************************************************************)
(* Proofs about what the programs of the server hold while others run: the *)
(* connections and transactions of their threads (Connections), and the    *)
(* entities they have selected (EntityProxy).                              *)
(*                                                                         *)
(* Connections are used by the thread that took them, a pool of more than  *)
(* two connections per thread never locks up, a service method holds one   *)
(* connection, and transactions decide what was written, for any number of *)
(* threads and any requests.  Getters repeat what they returned, and an    *)
(* update keeps what its program did not set, for any programs and columns.*)
(***************************************************************************)
EXTENDS Connections, EntityProxy, FiniteSetTheorems, TLAPS

-----------------------------------------------------------------------------
(* Connections and transactions. *)

\* A frame that owns its connection shares it with nobody, one that does not
\* uses the bound one.
FrameOk(t, f) ==
    f # NoFrame =>
        /\ f.own => f.conn # NoConn /\ f.conn # bound[t]
        /\ ~f.own /\ f.conn # NoConn => f.conn = bound[t]

Nesting(t) ==
    /\ scope[t] = "OUT" => bound[t] = NoConn /\ outer[t] = NoFrame
    /\ scope[t] = "REQUIRED" /\ bound[t] = NoConn => outer[t] = NoFrame
    /\ inner[t] # NoFrame => outer[t] # NoFrame /\ outer[t].conn # NoConn
    /\ FrameOk(t, outer[t]) /\ FrameOk(t, inner[t])
    /\ inner[t] # NoFrame /\ inner[t].own => inner[t].conn # outer[t].conn

UseInv == UsesOwn /\ \A t \in Thread : Nesting(t)

\* What a step of t leaves alone: the other threads, and their connections.
Untouched(t) ==
    \A u \in Thread \ {t} :
        /\ scope'[u] = scope[u] /\ bound'[u] = bound[u]
        /\ outer'[u] = outer[u] /\ inner'[u] = inner[u]

OwnerMoves(t) ==
    \A c \in Conn : owner'[c] # owner[c] =>
        \/ owner[c] = Free /\ owner'[c] = t
        \/ owner[c] = t /\ owner'[c] = Free

\* What it must see to for t itself, where X are the connections it leaks.
Sound(t, X) ==
    /\ Nesting(t)'
    /\ \A c \in Uses(t)' : owner'[c] = t
    /\ \A c \in Conn : owner'[c] = t => c \in Uses(t)' \/ c \in Leaked \cup X

-----------------------------------------------------------------------------

\* A step of t, as Next has it.
ThreadNext(t) ==
    Enter(t) \/ Step(t) \/ Fail(t) \/ AutoCommitFails(t) \/ SpringRefuses(t)

THEOREM ConnectionsTyping == Spec => []TypeOK
<1>1. Init => TypeOK
  BY ConnectionsAssumption DEF Init, TypeOK
<1>2. TypeOK /\ [Next]_vars => TypeOK'
  <2> SUFFICES ASSUME TypeOK, [Next]_vars
               PROVE  TypeOK'
    OBVIOUS
  <2>1. ASSUME NEW t \in Thread, Enter(t)
        PROVE  TypeOK'
    <3>1. scope' \in [Thread -> Scopes \cup {"OUT"}] /\ ok' \in [Thread -> BOOLEAN]
      <4>1. PICK s \in Scopes : scope' = [scope EXCEPT ![t] = s]
        BY <2>1 DEF Enter
      <4>2. QED
        BY <2>1, <4>1 DEF Enter, TypeOK
    <3>2. ops' \in [Thread -> 0..MaxOps]
      BY <2>1, ConnectionsAssumption DEF Enter, TypeOK
    <3>3. QED
      BY <2>1, <3>1, <3>2 DEF Enter, TypeOK
  <2>2. ASSUME NEW t \in Thread, Fail(t)
        PROVE  TypeOK'
    BY <2>2 DEF Fail, TypeOK
  <2>3. ASSUME NEW t \in Thread, Begin(t)
        PROVE  TypeOK'
    BY <2>3 DEF Begin, Take, TypeOK
  <2>4. ASSUME NEW t \in Thread, Leave(t)
        PROVE  TypeOK'
    BY <2>4 DEF Leave, GiveBack, TypeOK
  <2>5. \A kind \in Kind : NewFrame(kind) \in Frame
    BY DEF NewFrame, Via, Frame
  <2>6. ASSUME NEW t \in Thread, Open(t)
        PROVE  TypeOK'
    <3>1. outer' \in [Thread -> Frame \cup {NoFrame}]
      <4>1. PICK kind \in Kind : outer' = [outer EXCEPT ![t] = NewFrame(kind)]
        BY <2>6 DEF Open
      <4>2. QED
        BY <2>5, <4>1 DEF TypeOK
    <3>2. ops' \in [Thread -> 0..MaxOps]
      BY <2>6, ConnectionsAssumption DEF Open, TypeOK
    <3>3. QED
      BY <2>6, <3>1, <3>2 DEF Open, TypeOK
  <2>7. ASSUME NEW t \in Thread, Nest(t)
        PROVE  TypeOK'
    <3>1. inner' \in [Thread -> Frame \cup {NoFrame}]
      <4>1. NewFrame("lob") \in Frame
        BY <2>5 DEF Kind
      <4>2. QED
        BY <2>7, <4>1 DEF Nest, TypeOK
    <3>2. ops' \in [Thread -> 0..MaxOps]
      BY <2>7, ConnectionsAssumption DEF Nest, TypeOK
    <3>3. QED
      BY <2>7, <3>1, <3>2 DEF Nest, TypeOK
  <2>8. \A t \in Thread : Top(t) \in Frame \cup {NoFrame}
    BY DEF Top, TypeOK
  <2>9. ASSUME NEW t \in Thread, NEW f \in Frame \cup {NoFrame}, SetTop(t, f)
        PROVE  /\ outer' \in [Thread -> Frame \cup {NoFrame}]
               /\ inner' \in [Thread -> Frame \cup {NoFrame}]
    BY <2>9 DEF SetTop, TypeOK
  <2>10. ASSUME NEW f \in Frame, NEW c \in Conn, NEW b \in BOOLEAN
         PROVE  /\ [f EXCEPT !.conn = c] \in Frame
                /\ [f EXCEPT !.conn = c, !.own = b] \in Frame
                /\ [f EXCEPT !.via = "helper"] \in Frame
                /\ AutoOf(f, c) \in BOOLEAN
    BY DEF Frame, AutoOf, TypeOK
  <2>11. ASSUME NEW t \in Thread, Reuse(t)
         PROVE  TypeOK'
    <3>1. Top(t) \in Frame /\ bound[t] \in Conn
      BY <2>8, <2>11 DEF Reuse, TypeOK
    <3>2. [Top(t) EXCEPT !.conn = bound[t]] \in Frame /\ AutoOf(Top(t), bound[t]) \in BOOLEAN
      BY <2>10, <3>1
    <3>3. SetTop(t, [Top(t) EXCEPT !.conn = bound[t]])
      BY <2>11 DEF Reuse
    <3>4. QED
      BY <2>9, <2>11, <3>2, <3>3 DEF Reuse, TypeOK
  <2>12. ASSUME NEW t \in Thread, Acquire(t)
         PROVE  TypeOK'
    <3> DEFINE f == Top(t)
    <3>1. f \in Frame
      BY <2>8, <2>12 DEF Acquire
    <3>2. PICK c \in Conn :
             /\ Take(t, c)
             /\ SetTop(t, [f EXCEPT !.conn = c, !.own = ~Binds(t, f)])
             /\ bound' = IF Binds(t, f) THEN [bound EXCEPT ![t] = c] ELSE bound
             /\ auto' = [auto EXCEPT ![c] = AutoOf(f, c)]
      BY <2>12 DEF Acquire
    <3>3. (~Binds(t, f)) \in BOOLEAN
      BY DEF Binds
    <3>4. [f EXCEPT !.conn = c, !.own = ~Binds(t, f)] \in Frame /\ AutoOf(f, c) \in BOOLEAN
      BY <2>10, <3>1, <3>3
    <3>5. /\ outer' \in [Thread -> Frame \cup {NoFrame}]
          /\ inner' \in [Thread -> Frame \cup {NoFrame}]
      BY <2>9, <3>2, <3>4
    <3>6. bound' \in [Thread -> Conn \cup {NoConn}]
      BY <3>2 DEF TypeOK
    <3>7. auto' \in [Conn -> BOOLEAN] /\ owner' \in [Conn -> Thread \cup {Free}]
      BY <3>2, <3>4 DEF TypeOK, Take
    <3>8. QED
      BY <2>12, <3>5, <3>6, <3>7 DEF Acquire, TypeOK
  <2>13. ASSUME NEW t \in Thread, AutoCommitFails(t)
         PROVE  TypeOK'
    <3> DEFINE f == Top(t)
    <3>1. f \in Frame /\ Conn # {}
      BY <2>8, <2>13 DEF AutoCommitFails
    <3>2. PICK c \in Conn :
             /\ Take(t, c)
             /\ bound' = IF Binds(t, f) THEN [bound EXCEPT ![t] = c] ELSE bound
      BY <2>13 DEF AutoCommitFails
    <3>3. SetTop(t, [f EXCEPT !.via = "helper"]) /\ [f EXCEPT !.via = "helper"] \in Frame
      BY <2>10, <2>13, <3>1 DEF AutoCommitFails
    <3>4. /\ outer' \in [Thread -> Frame \cup {NoFrame}]
          /\ inner' \in [Thread -> Frame \cup {NoFrame}]
      BY <2>9, <3>3
    <3>5. bound' \in [Thread -> Conn \cup {NoConn}] /\ owner' \in [Conn -> Thread \cup {Free}]
      BY <3>2 DEF TypeOK, Take
    <3>6. ok' \in [Thread -> BOOLEAN] /\ failures' \in 0..MaxFailures
      BY <2>13, ConnectionsAssumption DEF AutoCommitFails, TypeOK
    <3>7. QED
      BY <2>13, <3>4, <3>5, <3>6 DEF AutoCommitFails, TypeOK
  <2>14. ASSUME NEW t \in Thread, Write(t)
         PROVE  TypeOK'
    BY <2>14 DEF Write, TypeOK
  <2>15. ASSUME NEW t \in Thread, Close(t)
         PROVE  TypeOK'
    <3>1. SetTop(t, NoFrame)
      BY <2>15 DEF Close
    <3>2. /\ outer' \in [Thread -> Frame \cup {NoFrame}]
          /\ inner' \in [Thread -> Frame \cup {NoFrame}]
      BY <2>9, <3>1
    <3>3. QED
      BY <2>15, <3>2 DEF Close, GiveBack, TypeOK
  <2>16. CASE UNCHANGED vars
    BY <2>16 DEF vars, TypeOK
  <2>17. ASSUME NEW t \in Thread, SpringRefuses(t)
         PROVE  TypeOK'
    <3> DEFINE f == Top(t)
    <3>1. f \in Frame
      BY <2>8, <2>17 DEF SpringRefuses
    <3>2. SetTop(t, [f EXCEPT !.via = "helper"]) /\ [f EXCEPT !.via = "helper"] \in Frame
      <4>1. SetTop(t, [f EXCEPT !.via = "helper"]) /\ Top(t) \in Frame
        BY <2>17, <3>1 DEF SpringRefuses
      <4> HIDE DEF f
      <4>2. QED
        BY <3>1, <4>1 DEF Frame
    <3>3. /\ outer' \in [Thread -> Frame \cup {NoFrame}]
          /\ inner' \in [Thread -> Frame \cup {NoFrame}]
      BY <2>9, <3>2
    <3>4. refusals' \in 0..MaxFailures
      BY <2>17, ConnectionsAssumption DEF SpringRefuses, TypeOK
    <3>5. QED
      BY <2>17, <3>3, <3>4 DEF SpringRefuses, TypeOK
  <2>18. QED
    BY <2>1, <2>2, <2>3, <2>4, <2>6, <2>7, <2>11, <2>12, <2>13, <2>14, <2>15, <2>16, <2>17
    DEF Next, Step
<1>3. QED
  BY <1>1, <1>2, PTL DEF Spec

-----------------------------------------------------------------------------

\* Every step is the step of one thread, and leaks one connection at most.
LEMMA ThreadStep ==
  ASSUME TypeOK, UseInv, NEW t \in Thread,
         ThreadNext(t)
  PROVE  /\ Untouched(t) /\ OwnerMoves(t)
         /\ \/ Sound(t, {}) /\ failures' = failures
            \/ (\E c \in Conn : Sound(t, {c})) /\ failures' = failures + 1
         /\ refusals' \in {refusals, refusals + 1}
<1> USE NoFrameAssumption, ConnectionsAssumption
<1>a. Nesting(t) /\ \A c \in Uses(t) : owner[c] = t
  BY DEF UseInv, UsesOwn
<1>b. Uses(t) \subseteq Conn
  BY DEF Uses, FrameConn, TypeOK, Frame
<1>c. \A c \in Conn : owner[c] = t => c \in Uses(t) \/ c \in Leaked
  BY DEF Leaked
<1>1. CASE Enter(t)
  <2>1. PICK s \in Scopes : scope' = [scope EXCEPT ![t] = s]
    BY <1>1 DEF Enter
  <2>2. Untouched(t) /\ OwnerMoves(t)
    BY <1>1, <2>1 DEF Enter, Untouched, OwnerMoves, TypeOK
  <2>3. Uses(t)' = Uses(t)
    BY <1>1 DEF Enter, Uses
  <2>4. Nesting(t)'
    BY <1>1, <1>a, <2>1 DEF Enter, Nesting, FrameOk, TypeOK
  <2>5. QED
    BY <1>1, <1>a, <1>c, <2>2, <2>3, <2>4 DEF Enter, Sound
<1>2. CASE Begin(t)
  <2>1. PICK c \in Conn : /\ Take(t, c)
                          /\ bound' = [bound EXCEPT ![t] = c]
    BY <1>2 DEF Begin
  <2>2. Untouched(t) /\ OwnerMoves(t)
    BY <1>2, <2>1 DEF Begin, Take, Untouched, OwnerMoves, TypeOK
  <2>3. outer[t] = NoFrame /\ inner[t] = NoFrame /\ scope[t] = "REQUIRED"
    BY <1>2, <1>a DEF Begin, Beginning, Nesting
  <2>4. Uses(t)' = {c} /\ Uses(t) = {}
    BY <1>2, <2>1, <2>3 DEF Begin, Beginning, Uses, FrameConn, TypeOK
  <2>5. Nesting(t)'
    BY <1>2, <2>1, <2>3 DEF Begin, Nesting, FrameOk, TypeOK
  <2>6. QED
    BY <1>2, <1>c, <2>1, <2>2, <2>4, <2>5 DEF Begin, Sound, Take, TypeOK
<1>3. CASE Fail(t)
  BY <1>3, <1>a, <1>c DEF Fail, Untouched, OwnerMoves, Sound, Nesting, FrameOk, Uses, TypeOK
<1>4. CASE Leave(t)
  <2>1. outer[t] = NoFrame /\ inner[t] = NoFrame
    BY <1>4, <1>a DEF Leave, Nesting
  <2>2. Uses(t)' = {} /\ Uses(t) = {bound[t]} \ {NoConn}
    BY <1>4, <2>1 DEF Leave, Uses, FrameConn, TypeOK
  <2>3. Nesting(t)'
    BY <1>4, <2>1 DEF Leave, Nesting, FrameOk, TypeOK
  <2>4. CASE bound[t] = NoConn
    BY <1>4, <1>c, <2>2, <2>3, <2>4
    DEF Leave, Untouched, OwnerMoves, Sound, TypeOK
  <2>5. CASE bound[t] # NoConn
    <3>1. bound[t] \in Conn /\ owner[bound[t]] = t
      BY <1>a, <2>2, <2>5 DEF TypeOK
    <3>2. owner' = [owner EXCEPT ![bound[t]] = Free]
      BY <1>4, <2>5 DEF Leave, GiveBack
    <3>3. Untouched(t) /\ OwnerMoves(t)
      BY <1>4, <3>1, <3>2 DEF Leave, Untouched, OwnerMoves, TypeOK
    <3>4. \A c \in Conn : owner'[c] = t => c \in Leaked
      BY <1>c, <2>2, <3>1, <3>2 DEF TypeOK
    <3>5. QED
      BY <1>4, <2>2, <2>3, <3>3, <3>4 DEF Leave, Sound
  <2>6. QED
    BY <2>4, <2>5
<1>5. CASE Open(t)
  <2>1. PICK kind \in Kind : outer' = [outer EXCEPT ![t] = NewFrame(kind)]
    BY <1>5 DEF Open
  <2>2. NewFrame(kind).conn = NoConn /\ NewFrame(kind).own = FALSE /\ NewFrame(kind) \in Frame
    BY DEF NewFrame, Frame, Via
  <2>3. inner[t] = NoFrame /\ outer[t] = NoFrame
    BY <1>5, <1>a DEF Open, Nesting
  <2>4. Uses(t)' = Uses(t)
    BY <1>5, <2>1, <2>2, <2>3 DEF Open, Uses, FrameConn, TypeOK
  <2>5. Nesting(t)'
    BY <1>5, <1>a, <2>1, <2>2, <2>3 DEF Open, Beginning, Nesting, FrameOk, TypeOK
  <2>6. Untouched(t) /\ OwnerMoves(t)
    BY <1>5, <2>1 DEF Open, Untouched, OwnerMoves, TypeOK
  <2>7. QED
    BY <1>5, <1>a, <1>c, <2>4, <2>5, <2>6 DEF Open, Sound
<1>6. CASE Nest(t)
  <2>1. inner' = [inner EXCEPT ![t] = NewFrame("lob")]
    BY <1>6 DEF Nest
  <2>2. /\ NewFrame("lob").conn = NoConn /\ NewFrame("lob").own = FALSE
        /\ NewFrame("lob") \in Frame
    BY DEF NewFrame, Frame, Via, Kind
  <2>3. Uses(t)' = Uses(t)
    BY <1>6, <2>1, <2>2 DEF Nest, Uses, FrameConn, TypeOK
  <2>4. Nesting(t)'
    BY <1>6, <1>a, <2>1, <2>2 DEF Nest, Nesting, FrameOk, TypeOK
  <2>5. Untouched(t) /\ OwnerMoves(t)
    BY <1>6, <2>1 DEF Nest, Untouched, OwnerMoves, TypeOK
  <2>6. QED
    BY <1>6, <1>a, <1>c, <2>3, <2>4, <2>5 DEF Nest, Sound
<1>7. CASE Reuse(t)
  <2> DEFINE f == Top(t)
  <2>1. f \in Frame /\ f.conn = NoConn /\ bound[t] \in Conn /\ ~f.own
    BY <1>7, <1>a DEF Reuse, Top, TypeOK, Nesting, FrameOk
  <2>2. PICK g \in Frame : SetTop(t, g) /\ g.conn = bound[t] /\ g.own = f.own
    <3>1. SetTop(t, [f EXCEPT !.conn = bound[t]])
      BY <1>7 DEF Reuse
    <3> HIDE DEF f
    <3>2. /\ [f EXCEPT !.conn = bound[t]] \in Frame
          /\ [f EXCEPT !.conn = bound[t]].conn = bound[t]
          /\ [f EXCEPT !.conn = bound[t]].own = f.own
      BY <2>1 DEF Frame
    <3>3. QED
      BY <3>1, <3>2, Zenon
  <2>3. Uses(t)' = Uses(t)
    BY <1>7, <2>1, <2>2 DEF Reuse, Uses, FrameConn, Top, SetTop, TypeOK
  <2>4. Nesting(t)'
    BY <1>7, <1>a, <2>1, <2>2 DEF Reuse, Nesting, FrameOk, Top, SetTop, TypeOK
  <2>5. Untouched(t) /\ OwnerMoves(t)
    BY <1>7, <2>2 DEF Reuse, SetTop, Untouched, OwnerMoves, TypeOK
  <2>6. QED
    BY <1>7, <1>a, <1>c, <2>3, <2>4, <2>5 DEF Reuse, Sound
<1>8. CASE Acquire(t)
  <2> DEFINE f == Top(t)
  <2>1. f \in Frame /\ f.conn = NoConn /\ ~f.own
    BY <1>8, <1>a DEF Acquire, NeedsPool, Top, TypeOK, Nesting, FrameOk
  <2>2. PICK c \in Conn :
           /\ Take(t, c)
           /\ SetTop(t, [f EXCEPT !.conn = c, !.own = ~Binds(t, f)])
           /\ bound' = IF Binds(t, f) THEN [bound EXCEPT ![t] = c] ELSE bound
    BY <1>8 DEF Acquire
  <2>3. (~Binds(t, f)) \in BOOLEAN
    BY DEF Binds
  <2>4. PICK g \in Frame : SetTop(t, g) /\ g.conn = c /\ g.own = ~Binds(t, f)
    <3> HIDE DEF f
    <3>1. PICK b \in BOOLEAN : b = ~Binds(t, f)
      BY <2>3
    <3>2. SetTop(t, [f EXCEPT !.conn = c, !.own = b])
      BY <2>2, <3>1, Zenon
    <3>3. /\ [f EXCEPT !.conn = c, !.own = b] \in Frame
          /\ [f EXCEPT !.conn = c, !.own = b].conn = c
          /\ [f EXCEPT !.conn = c, !.own = b].own = b
      BY <2>1 DEF Frame
    <3>4. QED
      BY <3>1, <3>2, <3>3, Zenon
  <2>5. c \notin Uses(t)
    BY <1>a, <2>2 DEF Take
  <2>6. Binds(t, f) => bound[t] = NoConn /\ scope[t] # "OUT"
    BY <1>8, <2>1, <1>a DEF Binds, Acquire, NeedsPool, Nesting, Top, TypeOK
  <2>7. Uses(t)' = Uses(t) \cup {c}
    BY <2>1, <2>2, <2>4, <2>6 DEF Uses, FrameConn, Top, SetTop, TypeOK
  <2>8. Nesting(t)'
    <3>1. /\ scope' = scope /\ scope[t] # "OUT" /\ outer[t] # NoFrame
          /\ bound[t] # NoConn => bound'[t] = bound[t]
          /\ bound'[t] = IF Binds(t, f) THEN c ELSE bound[t]
      BY <1>8, <1>a, <2>2, <2>6 DEF Acquire, Nesting, Top, TypeOK
    <3>2. c # bound[t] /\ \A h \in {outer[t], inner[t]} : h # NoFrame => c # h.conn
      BY <2>2, <2>5 DEF Uses, FrameConn, TypeOK
    <3>3. CASE inner[t] = NoFrame
      <4>1. inner'[t] = NoFrame /\ outer'[t] = g
        BY <2>4, <3>3 DEF SetTop, TypeOK
      <4>2. QED
        BY <1>a, <2>2, <2>4, <3>1, <3>2, <4>1 DEF Nesting, FrameOk
    <3>4. CASE inner[t] # NoFrame
      <4>1. inner'[t] = g /\ outer'[t] = outer[t]
        BY <2>4, <3>4 DEF SetTop, TypeOK
      <4>2. QED
        BY <1>a, <2>2, <2>4, <2>6, <3>1, <3>2, <3>4, <4>1 DEF Nesting, FrameOk
    <3>5. QED
      BY <3>3, <3>4
  <2>9. Untouched(t) /\ OwnerMoves(t)
    BY <1>8, <2>2, <2>4 DEF Acquire, Take, SetTop, Untouched, OwnerMoves, TypeOK
  <2>10. \A d \in Conn : owner'[d] = IF d = c THEN t ELSE owner[d]
    BY <2>2 DEF Take, TypeOK
  <2>11. QED
    BY <1>8, <1>a, <1>b, <1>c, <2>7, <2>8, <2>9, <2>10 DEF Acquire, Sound
<1>9. CASE AutoCommitFails(t)
  <2> DEFINE f == Top(t)
  <2>1. f \in Frame /\ f.conn = NoConn /\ ~f.own
    BY <1>9, <1>a DEF AutoCommitFails, NeedsPool, Top, TypeOK, Nesting, FrameOk
  <2>2. PICK c \in Conn :
           /\ Take(t, c)
           /\ bound' = IF Binds(t, f) THEN [bound EXCEPT ![t] = c] ELSE bound
    BY <1>9 DEF AutoCommitFails
  <2>3. PICK g \in Frame : SetTop(t, g) /\ g.conn = NoConn /\ ~g.own
    <3>1. SetTop(t, [f EXCEPT !.via = "helper"])
      BY <1>9 DEF AutoCommitFails
    <3> HIDE DEF f
    <3>2. /\ [f EXCEPT !.via = "helper"] \in Frame
          /\ [f EXCEPT !.via = "helper"].conn = NoConn
          /\ ~[f EXCEPT !.via = "helper"].own
      BY <2>1 DEF Frame
    <3>3. QED
      BY <3>1, <3>2, Zenon
  <2>4. c \notin Uses(t)
    BY <1>a, <2>2 DEF Take
  <2>5. Binds(t, f) => bound[t] = NoConn /\ scope[t] # "OUT"
    BY <1>9, <2>1, <1>a DEF Binds, AutoCommitFails, NeedsPool, Nesting, Top, TypeOK
  <2>6. Uses(t)' \subseteq Uses(t) \cup {c} /\ Uses(t) \subseteq Uses(t)'
    BY <2>1, <2>2, <2>3, <2>5 DEF Uses, FrameConn, Top, SetTop, TypeOK
  <2>7. Nesting(t)'
    BY <1>9, <1>a, <2>1, <2>2, <2>3, <2>4, <2>5
    DEF AutoCommitFails, Uses, FrameConn, Nesting, FrameOk, Top, SetTop, TypeOK
  <2>8. Untouched(t) /\ OwnerMoves(t)
    BY <1>9, <2>2, <2>3 DEF AutoCommitFails, Take, SetTop, Untouched, OwnerMoves, TypeOK
  <2>9. \A d \in Conn : owner'[d] = IF d = c THEN t ELSE owner[d]
    BY <2>2 DEF Take, TypeOK
  <2>10. Sound(t, {c})
    BY <1>a, <1>b, <1>c, <2>6, <2>7, <2>9 DEF Sound
  <2>11. QED
    BY <1>9, <2>8, <2>10 DEF AutoCommitFails
<1>10. CASE Write(t)
  BY <1>10, <1>a, <1>c DEF Write, Untouched, OwnerMoves, Sound, Nesting, FrameOk, Uses, TypeOK
<1>11. CASE Close(t)
  <2> DEFINE f == Top(t)
  <2>1. f \in Frame /\ SetTop(t, NoFrame)
    BY <1>11 DEF Close, Top, TypeOK
  <2>2. Nesting(t)'
    BY <1>11, <1>a, <2>1 DEF Close, Nesting, FrameOk, Top, SetTop, TypeOK
  <2>3. CASE ~f.own
    <3>1. Uses(t)' = Uses(t)
      BY <1>11, <1>a, <2>1, <2>3 DEF Close, Nesting, FrameOk, Uses, FrameConn, Top, SetTop, TypeOK
    <3>2. Untouched(t) /\ OwnerMoves(t)
      BY <1>11, <2>1, <2>3 DEF Close, SetTop, Untouched, OwnerMoves, TypeOK
    <3>3. QED
      BY <1>11, <1>a, <1>c, <2>2, <2>3, <3>1, <3>2 DEF Close, Sound
  <2>4. CASE f.own
    <3>1. f.conn \in Uses(t) /\ owner[f.conn] = t /\ f.conn \in Conn
      BY <1>11, <1>a, <2>1, <2>4 DEF Close, Nesting, FrameOk, Uses, FrameConn, Top, TypeOK, Frame
    <3>2. owner' = [owner EXCEPT ![f.conn] = Free]
      BY <1>11, <2>4 DEF Close, GiveBack
    <3>3. Uses(t)' = Uses(t) \ {f.conn}
      BY <1>11, <1>a, <2>1, <2>4 DEF Close, Nesting, FrameOk, Uses, FrameConn, Top, SetTop, TypeOK
    <3>4. Untouched(t) /\ OwnerMoves(t)
      BY <1>11, <2>1, <3>1, <3>2 DEF Close, SetTop, Untouched, OwnerMoves, TypeOK
    <3>5. \A d \in Conn : owner'[d] = IF d = f.conn THEN Free ELSE owner[d]
      BY <3>1, <3>2 DEF TypeOK
    <3>6. QED
      BY <1>11, <1>a, <1>b, <1>c, <2>2, <3>1, <3>3, <3>4, <3>5 DEF Close, Sound
  <2>5. f.own \in BOOLEAN
    BY <2>1 DEF Frame
  <2>6. QED
    BY <2>3, <2>4, <2>5
<1>12. CASE SpringRefuses(t)
  <2> DEFINE f == Top(t)
  <2>1. f \in Frame /\ f.conn = NoConn /\ ~f.own
    BY <1>12, <1>a DEF SpringRefuses, Top, TypeOK, Nesting, FrameOk
  <2>2. PICK g \in Frame : SetTop(t, g) /\ g.conn = NoConn /\ ~g.own
    <3>1. SetTop(t, [f EXCEPT !.via = "helper"])
      BY <1>12 DEF SpringRefuses
    <3> HIDE DEF f
    <3>2. /\ [f EXCEPT !.via = "helper"] \in Frame
          /\ [f EXCEPT !.via = "helper"].conn = NoConn
          /\ ~[f EXCEPT !.via = "helper"].own
      BY <2>1 DEF Frame
    <3>3. QED
      BY <3>1, <3>2, Zenon
  <2>3. Uses(t)' = Uses(t)
    BY <1>12, <2>1, <2>2 DEF SpringRefuses, Uses, FrameConn, Top, SetTop, TypeOK
  <2>4. Nesting(t)'
    BY <1>12, <1>a, <2>1, <2>2 DEF SpringRefuses, Nesting, FrameOk, Top, SetTop, TypeOK
  <2>5. Untouched(t) /\ OwnerMoves(t)
    BY <1>12, <2>2 DEF SpringRefuses, SetTop, Untouched, OwnerMoves, TypeOK
  <2>6. QED
    BY <1>12, <1>a, <1>c, <2>3, <2>4, <2>5 DEF SpringRefuses, Sound
<1>13. QED
  BY <1>1, <1>2, <1>3, <1>4, <1>5, <1>6, <1>7, <1>8, <1>9, <1>10, <1>11, <1>12
  DEF ThreadNext, Step

\* What a sound step of t does for all threads.
LEMMA SoundStep ==
  ASSUME TypeOK, UseInv, NEW t \in Thread, NEW X, Untouched(t), OwnerMoves(t), Sound(t, X)
  PROVE  UseInv' /\ Leaked' \subseteq Leaked \cup X
<1> USE ConnectionsAssumption
<1>1. \A u \in Thread \ {t} : Uses(u)' = Uses(u) /\ (Nesting(u) => Nesting(u)')
  BY DEF Untouched, Uses, FrameConn, Nesting, FrameOk
<1>2. ASSUME NEW u \in Thread \ {t}, NEW c \in Uses(u)
      PROVE  owner'[c] = u
  <2>1. owner[c] = u /\ c \in Conn
    BY DEF UseInv, UsesOwn, Uses, FrameConn, TypeOK, Frame
  <2>2. QED
    BY <2>1 DEF OwnerMoves
<1>3. UseInv'
  <2>1. \A u \in Thread : Nesting(u)'
    BY <1>1 DEF UseInv, Sound
  <2>2. \A u \in Thread : \A c \in Uses(u)' : owner'[c] = u
    BY <1>1, <1>2 DEF Sound
  <2>3. QED
    BY <2>1, <2>2 DEF UseInv, UsesOwn
<1>4. ASSUME NEW c \in Conn, owner'[c] # Free, c \notin Uses(owner[c])'
      PROVE  c \in Leaked \cup X
  <2>1. CASE owner'[c] = t
    BY <1>4, <2>1 DEF Sound
  <2>2. CASE owner'[c] # t
    <3>1. owner'[c] = owner[c] /\ owner[c] \in Thread \ {t}
      BY <1>4, <2>2 DEF OwnerMoves, TypeOK
    <3>2. Uses(owner[c])' = Uses(owner[c])
      BY <1>1, <3>1
    <3>3. QED
      BY <1>4, <3>1, <3>2 DEF Leaked
  <2>3. QED
    BY <2>1, <2>2
<1>5. QED
  BY <1>3, <1>4 DEF Leaked

LeakInv == UseInv /\ LeaksOnlyByFailure

\* No connection is used by a thread other than the one that took it, and each
\* connection lost stands for a call of setAutoCommit that failed.
THEOREM ConnectionsUse == Spec => [](TypeOK /\ LeakInv)
<1>1. Init => LeakInv
  <2>1. Init => UseInv
    BY NoFrameAssumption DEF Init, UseInv, UsesOwn, Uses, FrameConn, Nesting, FrameOk
  <2>2. Init => Leaked = {}
    BY DEF Init, Leaked
  <2>3. QED
    BY <2>1, <2>2, FS_EmptySet DEF Init, LeakInv, LeaksOnlyByFailure
<1>2. TypeOK /\ LeakInv /\ [Next]_vars => LeakInv'
  <2> SUFFICES ASSUME TypeOK, LeakInv, [Next]_vars
               PROVE  LeakInv'
    OBVIOUS
  <2>1. CASE UNCHANGED vars
    BY <2>1 DEF vars, LeakInv, UseInv, UsesOwn, Uses, FrameConn, Nesting, FrameOk,
                LeaksOnlyByFailure, Leaked
  <2>2. CASE Next
    <3>1. PICK t \in Thread : ThreadNext(t)
      BY <2>2 DEF Next, ThreadNext
    <3>2. /\ Untouched(t) /\ OwnerMoves(t)
          /\ \/ Sound(t, {}) /\ failures' = failures
             \/ (\E c \in Conn : Sound(t, {c})) /\ failures' = failures + 1
      BY <3>1, ThreadStep DEF LeakInv
    <3>3. IsFiniteSet(Leaked) /\ Cardinality(Leaked) \in Nat /\ failures \in Nat
      BY ConnectionsAssumption, FS_Subset, FS_CardinalityType DEF Leaked, TypeOK
    <3>4. CASE Sound(t, {}) /\ failures' = failures
      <4>1. UseInv' /\ Leaked' \subseteq Leaked
        BY <3>2, <3>4, SoundStep DEF LeakInv
      <4>2. Cardinality(Leaked') <= Cardinality(Leaked) /\ Cardinality(Leaked') \in Nat
        BY <3>3, <4>1, FS_Subset, FS_CardinalityType
      <4>3. QED
        BY <3>3, <3>4, <4>1, <4>2 DEF LeakInv, LeaksOnlyByFailure
    <3>5. CASE (\E c \in Conn : Sound(t, {c})) /\ failures' = failures + 1
      <4>1. PICK c \in Conn : UseInv' /\ Leaked' \subseteq Leaked \cup {c}
        BY <3>2, <3>5, SoundStep DEF LeakInv
      <4>2. /\ IsFiniteSet(Leaked \cup {c})
            /\ Cardinality(Leaked \cup {c}) <= Cardinality(Leaked) + 1
            /\ Cardinality(Leaked \cup {c}) \in Nat
        <5>1. /\ IsFiniteSet(Leaked \cup {c})
              /\ Cardinality(Leaked \cup {c}) =
                    IF c \in Leaked THEN Cardinality(Leaked) ELSE Cardinality(Leaked) + 1
          BY <3>3, FS_AddElement
        <5>2. QED
          BY <3>3, <5>1
      <4>3. Cardinality(Leaked') <= Cardinality(Leaked \cup {c}) /\ Cardinality(Leaked') \in Nat
        BY <4>1, <4>2, FS_Subset, FS_CardinalityType
      <4>4. QED
        BY <3>3, <3>5, <4>1, <4>2, <4>3 DEF LeakInv, LeaksOnlyByFailure
    <3>6. QED
      BY <3>2, <3>4, <3>5
  <2>3. QED
    BY <2>1, <2>2
<1>3. QED
  BY <1>1, <1>2, ConnectionsTyping, PTL DEF Spec

\* No connection is used after it went back to the pool.
THEOREM NoUseAfterRelease == Spec => []UsesOwn
<1>1. LeakInv => UsesOwn
  BY DEF LeakInv, UseInv
<1>2. QED
  BY <1>1, ConnectionsUse, PTL

\* The finally blocks lose nothing: only a failing setAutoCommit does.
THEOREM NothingElseLeaks == Spec => []LeaksOnlyByFailure
<1>1. LeakInv => LeaksOnlyByFailure
  BY DEF LeakInv
<1>2. QED
  BY <1>1, ConnectionsUse, PTL

\* A thread that is waiting has two connections at most: what is bound to it,
\* and what its outer frame opened.
LEMMA WaitingHolds ==
  ASSUME TypeOK, UseInv, NEW t \in Thread, Waiting(t), scope[t] # "OUT",
         NEW c \in Uses(t) \ {bound[t]}, NEW d \in Uses(t) \ {bound[t]}
  PROVE  c = d
<1>1. outer[t] # NoFrame
  BY DEF Uses, FrameConn, UseInv, Nesting
<1>2. Top(t) # NoFrame /\ Top(t).conn = NoConn
  BY <1>1 DEF Waiting, Beginning, UseInv, Nesting, NeedsPool
<1>3. Uses(t) \ {bound[t]} \subseteq {outer[t].conn}
  BY <1>1, <1>2 DEF Top, Uses, FrameConn, UseInv, Nesting
<1>4. QED
  BY <1>3

\* A pool of more than two connections per thread, and one more for each that
\* is lost, never leaves every thread waiting.
THEOREM PoolNeverLocks == Spec => []PoolSuffices
<1>1. TypeOK /\ LeakInv => PoolSuffices
  <2> SUFFICES ASSUME TypeOK, LeakInv, Stuck,
                      Cardinality(Conn) > 2 * Cardinality(Thread) + failures
               PROVE  FALSE
    BY DEF PoolSuffices
  <2> DEFINE Used == Conn \ Leaked
             slot == [c \in Used |-> <<owner[c], IF c = bound[owner[c]] THEN 1 ELSE 2>>]
  <2>1. \A c \in Used : owner[c] \in Thread /\ c \in Uses(owner[c])
    BY DEF Stuck, Leaked, TypeOK
  <2>2. slot \in [Used -> Thread \X (1..2)]
    BY <2>1
  <2>3. ASSUME NEW c \in Used, NEW d \in Used, c # d
        PROVE  slot[c] # slot[d]
    <3> SUFFICES ASSUME slot[c] = slot[d]
                 PROVE  FALSE
      OBVIOUS
    <3> DEFINE t == owner[c]
    <3>1. owner[d] = t /\ t \in Thread
      BY <2>1
    <3>2. c # bound[t] /\ d # bound[t]
      BY <2>3, <3>1
    <3>3. c \in Uses(t) \ {bound[t]} /\ d \in Uses(t) \ {bound[t]}
      BY <2>1, <3>1, <3>2
    <3>4. scope[t] # "OUT"
      BY <3>1, <3>3 DEF LeakInv, UseInv, Nesting, Uses, FrameConn
    <3>5. Waiting(t)
      BY <3>1, <3>4 DEF Stuck
    <3>6. QED
      BY <2>3, <3>1, <3>3, <3>4, <3>5, WaitingHolds DEF LeakInv
  <2>4. /\ IsFiniteSet(Used) /\ Cardinality(Used) \in Nat
        /\ IsFiniteSet(Leaked) /\ Cardinality(Leaked) \in Nat
        /\ Cardinality(Leaked) <= failures
    BY ConnectionsAssumption, FS_Subset, FS_CardinalityType, FS_Difference
    DEF Leaked, LeakInv, LeaksOnlyByFailure
  <2>5. Cardinality(Conn) = Cardinality(Used) + Cardinality(Leaked) /\ Cardinality(Conn) \in Nat
    <3>1. Conn \cap Leaked = Leaked
      BY DEF Leaked
    <3>2. Cardinality(Used) = Cardinality(Conn) - Cardinality(Leaked)
      BY <3>1, ConnectionsAssumption, FS_Difference
    <3>3. QED
      BY <2>4, <3>2, ConnectionsAssumption, FS_CardinalityType
  <2>6. /\ IsFiniteSet(Thread \X (1..2))
        /\ Cardinality(Thread \X (1..2)) = Cardinality(Thread) * 2
        /\ Cardinality(Thread) \in Nat
    <3>1. IsFiniteSet(1..2) /\ Cardinality(1..2) = 2
      <4>1. /\ IsFiniteSet(1..2)
            /\ Cardinality(1..2) = IF 1 > 2 THEN 0 ELSE 2 - 1 + 1
        BY FS_Interval, 1 \in Int, 2 \in Int, Zenon
      <4>2. QED
        BY <4>1
    <3>2. QED
      BY <3>1, ConnectionsAssumption, FS_Product, FS_CardinalityType
  <2>7. Cardinality(Used) <= Cardinality(Thread) * 2
    <3>1. ~(Cardinality(Thread \X (1..2)) < Cardinality(Used))
      <4> HIDE DEF Used, slot
      <4>1. QED
        BY <2>2, <2>3, <2>4, <2>6, FS_PigeonHole
    <3>2. QED
      BY <2>4, <2>6, <3>1
  <2>8. QED
    <3> HIDE DEF Used
    <3>1. failures \in Nat
      BY ConnectionsAssumption DEF TypeOK
    <3>2. QED
      BY <2>4, <2>5, <2>6, <2>7, <3>1
<1>2. QED
  BY <1>1, ConnectionsUse, PTL

-----------------------------------------------------------------------------
(* One connection per service method, with SpringContext in place.          *)

\* t is in a service method, whose frames share what is bound to the thread.
Shares(t) == scope[t] \in {"REQUIRED", "SUPPORTS"}

\* A frame has turned to DBHelper, where it takes a connection for itself.
Turned(f) == f # NoFrame /\ f.via = "helper"
Helped(t) ==
    IF Shares(t)
    THEN (IF Turned(outer[t]) THEN 1 ELSE 0) + (IF Turned(inner[t]) THEN 1 ELSE 0)
    ELSE 0

\* Only such a frame owns its connection, and each has cost a failure of its
\* own: what was taken for it before, if anything, is bound and is not lost.
OwnersTurned(t) ==
    Shares(t) => \A f \in {outer[t], inner[t]} : f # NoFrame /\ f.own => Turned(f)
HelpInv == \A t \in Thread : OwnersTurned(t) /\ Cardinality(Leaked) + Helped(t) <= failures + refusals

\* A step turns a frame to DBHelper by a failure that leaks nothing.
LEMMA HelpedStep ==
  ASSUME SpringReady = TRUE, TypeOK, UseInv, NEW t \in Thread, OwnersTurned(t),
         ThreadNext(t)
  PROVE  /\ OwnersTurned(t)'
         /\ \/ Helped(t)' <= Helped(t)
            \/ /\ Helped(t)' = Helped(t) + 1 /\ Sound(t, {})
               /\ failures' + refusals' = failures + refusals + 1
<1> USE NoFrameAssumption, ConnectionsAssumption DEF Turned
<1>a. Nesting(t) /\ \A c \in Uses(t) : owner[c] = t
  BY DEF UseInv, UsesOwn
<1>b. \A c \in Conn : owner[c] = t => c \in Uses(t) \/ c \in Leaked
  BY DEF Leaked
<1>c. Helped(t) \in Nat
  BY DEF Helped
<1>1. CASE Enter(t)
  <2>1. outer'[t] = NoFrame /\ inner'[t] = NoFrame
    BY <1>1, <1>a DEF Enter, Nesting
  <2>2. QED
    BY <2>1, <1>c DEF OwnersTurned, Helped
<1>2. CASE Leave(t)
  <2>1. scope'[t] = "OUT"
    BY <1>2 DEF Leave, TypeOK
  <2>2. QED
    BY <2>1, <1>c DEF OwnersTurned, Helped, Shares
<1>3. CASE Begin(t) \/ Fail(t) \/ Write(t)
  BY <1>3, <1>c DEF Begin, Fail, Write, OwnersTurned, Helped, Shares
<1>4. NewFrame("lob").via = "spring" /\ \A kind \in Kind : NewFrame(kind).via = "spring"
  BY DEF NewFrame, Via
<1>5. ~NewFrame("lob").own /\ \A kind \in Kind : ~NewFrame(kind).own
  BY DEF NewFrame
<1>6. CASE Open(t)
  <2>1. PICK kind \in Kind : outer' = [outer EXCEPT ![t] = NewFrame(kind)]
    BY <1>6 DEF Open
  <2>2. outer'[t] = NewFrame(kind) /\ inner' = inner /\ scope' = scope
    BY <1>6, <2>1 DEF Open, TypeOK
  <2>3. QED
    BY <1>4, <1>5, <1>c, <2>2 DEF OwnersTurned, Helped, Shares
<1>7. CASE Nest(t)
  <2>1. inner'[t] = NewFrame("lob") /\ outer' = outer /\ scope' = scope
    BY <1>7 DEF Nest, TypeOK
  <2>2. QED
    BY <1>4, <1>5, <1>c, <2>1 DEF OwnersTurned, Helped, Shares
<1>8. ASSUME NEW g, SetTop(t, g), scope' = scope, g # NoFrame /\ Turned(g) => Turned(Top(t)),
             Shares(t) /\ g # NoFrame /\ g.own => Turned(g)
      PROVE  OwnersTurned(t)' /\ Helped(t)' <= Helped(t)
  <2>1. CASE inner[t] = NoFrame
    <3>1. inner'[t] = NoFrame /\ outer'[t] = g
      BY <1>8, <2>1 DEF SetTop, TypeOK
    <3>2. QED
      BY <1>8, <2>1, <3>1 DEF OwnersTurned, Helped, Shares, Top
  <2>2. CASE inner[t] # NoFrame
    <3>1. inner'[t] = g /\ outer'[t] = outer[t]
      BY <1>8, <2>2 DEF SetTop, TypeOK
    <3>2. QED
      BY <1>8, <2>2, <3>1 DEF OwnersTurned, Helped, Shares, Top
  <2>3. QED
    BY <2>1, <2>2
<1>9. Top(t) \in Frame \cup {NoFrame}
  BY DEF Top, TypeOK
<1>10. Shares(t) /\ Top(t) # NoFrame /\ Top(t).own => Turned(Top(t))
  BY DEF OwnersTurned, Top
<1>11. CASE Reuse(t)
  <2> DEFINE f == Top(t)
             g == [f EXCEPT !.conn = bound[t]]
  <2>1. SetTop(t, g) /\ f \in Frame /\ scope' = scope
    BY <1>9, <1>11 DEF Reuse
  <2>2. g.via = f.via /\ g.own = f.own
    BY <2>1 DEF Frame
  <2>3. QED
    BY <1>8, <1>10, <2>1, <2>2
<1>12. CASE Acquire(t)
  <2> DEFINE f == Top(t)
  <2>1. PICK c \in Conn : SetTop(t, [f EXCEPT !.conn = c, !.own = ~Binds(t, f)])
    BY <1>12 DEF Acquire
  <2>2. f \in Frame /\ scope' = scope
    BY <1>9, <1>12 DEF Acquire
  <2> DEFINE g == [f EXCEPT !.conn = c, !.own = ~Binds(t, f)]
  <2>3. g.via = f.via /\ (g.own <=> ~Binds(t, f))
    BY <2>2 DEF Frame, Binds
  <2>4. Shares(t) /\ g.own => f.via = "helper"
    BY <2>2, <2>3 DEF Shares, Binds, Frame
  <2>5. QED
    BY <1>8, <2>1, <2>2, <2>3, <2>4
<1>13. CASE Close(t)
  <2>1. SetTop(t, NoFrame) /\ scope' = scope
    BY <1>13 DEF Close
  <2>2. QED
    BY <1>8, <2>1
<1>14. CASE AutoCommitFails(t)
  <2> DEFINE f == Top(t)
             g == [f EXCEPT !.via = "helper"]
  <2>1. /\ f \in Frame /\ SetTop(t, g) /\ scope' = scope /\ f.conn = NoConn
        /\ NeedsPool(t, f) /\ failures' = failures + 1 /\ refusals' = refusals
    BY <1>9, <1>14 DEF AutoCommitFails, NeedsPool
  <2>2. g \in Frame /\ g.via = "helper" /\ g.own = f.own /\ g.conn = NoConn
    BY <2>1 DEF Frame
  <2>3. CASE ~Shares(t) \/ f.via = "helper"
    <3>1. CASE f.via = "helper"
      BY <1>8, <1>10, <2>1, <2>2, <3>1
    <3>2. CASE ~Shares(t)
      BY <1>c, <2>1, <3>2 DEF OwnersTurned, Helped, Shares
    <3>3. QED
      BY <2>3, <3>1, <3>2
  <2>4. CASE Shares(t) /\ f.via = "spring"
    <3>1. Binds(t, f) /\ bound[t] = NoConn
      BY <2>1, <2>4 DEF Binds, NeedsPool, Shares
    <3>2. PICK c \in Conn : owner' = [owner EXCEPT ![c] = t] /\ bound' = [bound EXCEPT ![t] = c]
      BY <1>14, <3>1 DEF AutoCommitFails, Take
    <3>3. c \in Uses(t)'
      BY <3>2 DEF Uses, TypeOK
    <3>4. Uses(t) \subseteq Uses(t)'
      BY <2>1, <2>2, <3>1 DEF Uses, FrameConn, Top, SetTop, TypeOK
    <3>5. Sound(t, {})
      <4>1. Nesting(t)' /\ \A d \in Uses(t)' : owner'[d] = t
        BY <1>14, ThreadStep DEF ThreadNext, AutoCommitFails, Sound, TypeOK
      <4>2. \A d \in Conn : owner'[d] = t => d = c \/ owner[d] = t
        BY <3>2 DEF TypeOK
      <4>3. QED
        BY <1>b, <3>3, <3>4, <4>1, <4>2 DEF Sound
    <3>6. OwnersTurned(t)' /\ Helped(t)' = Helped(t) + 1
      <4>1. CASE inner[t] = NoFrame
        <5>1. inner'[t] = NoFrame /\ outer'[t] = g
          BY <2>1, <4>1 DEF SetTop, TypeOK
        <5>2. QED
          BY <2>1, <2>2, <2>4, <4>1, <5>1 DEF OwnersTurned, Helped, Shares, Top
      <4>2. CASE inner[t] # NoFrame
        <5>1. inner'[t] = g /\ outer'[t] = outer[t]
          BY <2>1, <4>2 DEF SetTop, TypeOK
        <5>2. QED
          BY <2>1, <2>2, <2>4, <4>2, <5>1 DEF OwnersTurned, Helped, Shares, Top
      <4>3. QED
        BY <4>1, <4>2
    <3>7. QED
      <4>1. failures \in Nat /\ refusals \in Nat
        BY DEF TypeOK
      <4>2. QED
        BY <2>1, <3>5, <3>6, <4>1
  <2>5. QED
    BY <2>1, <2>3, <2>4 DEF Frame
<1>15. CASE SpringRefuses(t)
  <2> DEFINE f == Top(t)
             g == [f EXCEPT !.via = "helper"]
  <2>1. /\ f \in Frame /\ SetTop(t, g) /\ scope' = scope /\ f.via = "spring"
        /\ owner' = owner /\ refusals' = refusals + 1 /\ failures' = failures
    BY <1>9, <1>15 DEF SpringRefuses
  <2>2. g \in Frame /\ g.via = "helper" /\ g.own = f.own
    BY <2>1 DEF Frame
  <2>3. CASE ~Shares(t)
    BY <1>c, <2>1, <2>3 DEF OwnersTurned, Helped, Shares
  <2>4. CASE Shares(t)
    <3>1. OwnersTurned(t)' /\ Helped(t)' = Helped(t) + 1
      <4>1. CASE inner[t] = NoFrame
        <5>1. inner'[t] = NoFrame /\ outer'[t] = g
          BY <2>1, <4>1 DEF SetTop, TypeOK
        <5>2. QED
          BY <2>1, <2>2, <2>4, <4>1, <5>1 DEF OwnersTurned, Helped, Shares, Top
      <4>2. CASE inner[t] # NoFrame
        <5>1. inner'[t] = g /\ outer'[t] = outer[t]
          BY <2>1, <4>2 DEF SetTop, TypeOK
        <5>2. QED
          BY <2>1, <2>2, <2>4, <4>2, <5>1 DEF OwnersTurned, Helped, Shares, Top
      <4>3. QED
        BY <4>1, <4>2
    <3>2. failures \in Nat /\ refusals \in Nat
      BY DEF TypeOK
    <3>3. Sound(t, {})
      <4>1. Sound(t, {}) \/ failures' = failures + 1
        BY <1>15, ThreadStep DEF ThreadNext
      <4>2. QED
        BY <2>1, <3>2, <4>1
    <3>4. QED
      BY <2>1, <3>1, <3>2, <3>3
  <2>5. QED
    BY <2>3, <2>4
<1>16. QED
  BY <1>1, <1>2, <1>3, <1>6, <1>7, <1>11, <1>12, <1>13, <1>14, <1>15 DEF ThreadNext, Step

LEMMA HelpStep ==
  ASSUME SpringReady = TRUE, TypeOK, LeakInv, HelpInv, [Next]_vars
  PROVE  HelpInv'
<1> USE ConnectionsAssumption
<1>1. CASE UNCHANGED vars
  BY <1>1 DEF vars, HelpInv, OwnersTurned, Shares, Turned, Helped, Leaked, Uses, FrameConn
<1>2. CASE Next
  <2>1. PICK t \in Thread : ThreadNext(t)
    BY <1>2 DEF Next, ThreadNext
  <2>2. /\ Untouched(t) /\ OwnerMoves(t)
        /\ \/ Sound(t, {}) /\ failures' = failures
           \/ (\E c \in Conn : Sound(t, {c})) /\ failures' = failures + 1
        /\ refusals' \in {refusals, refusals + 1}
    BY <2>1, ThreadStep DEF LeakInv
  <2>3. /\ OwnersTurned(t)'
        /\ \/ Helped(t)' <= Helped(t)
           \/ /\ Helped(t)' = Helped(t) + 1 /\ Sound(t, {})
              /\ failures' + refusals' = failures + refusals + 1
    BY <2>1, HelpedStep DEF LeakInv, HelpInv
  <2>4. \A u \in Thread \ {t} : OwnersTurned(u)' /\ Helped(u)' = Helped(u)
    BY <2>2 DEF Untouched, HelpInv, OwnersTurned, Shares, Helped
  <2>5. \A u \in Thread : Helped(u) \in Nat /\ Helped(u)' \in Nat
    BY DEF Helped
  <2>6. /\ IsFiniteSet(Leaked) /\ Cardinality(Leaked) \in Nat
        /\ failures \in Nat /\ refusals \in Nat
    BY FS_Subset, FS_CardinalityType DEF Leaked, TypeOK
  <2>7. ASSUME Sound(t, {})
        PROVE  Cardinality(Leaked') \in Nat /\ Cardinality(Leaked') <= Cardinality(Leaked)
    <3>1. Leaked' \subseteq Leaked
      BY <2>2, <2>7, SoundStep DEF LeakInv
    <3>2. QED
      BY <2>6, <3>1, FS_Subset, FS_CardinalityType
  <2>8. ASSUME NEW c \in Conn, Sound(t, {c})
        PROVE  Cardinality(Leaked') \in Nat /\ Cardinality(Leaked') <= Cardinality(Leaked) + 1
    <3>1. Leaked' \subseteq Leaked \cup {c}
      BY <2>2, <2>8, SoundStep DEF LeakInv
    <3>2. /\ IsFiniteSet(Leaked \cup {c})
          /\ Cardinality(Leaked \cup {c}) =
                IF c \in Leaked THEN Cardinality(Leaked) ELSE Cardinality(Leaked) + 1
      BY <2>6, FS_AddElement
    <3>3. /\ Cardinality(Leaked') <= Cardinality(Leaked \cup {c})
          /\ Cardinality(Leaked') \in Nat
      BY <3>1, <3>2, FS_Subset, FS_CardinalityType
    <3>4. QED
      BY <2>6, <3>2, <3>3
  <2>9. ASSUME NEW u \in Thread
        PROVE  OwnersTurned(u)' /\ Cardinality(Leaked') + Helped(u)' <= failures' + refusals'
    <3>1. Cardinality(Leaked) + Helped(u) <= failures + refusals
      BY DEF HelpInv
    <3>2. OwnersTurned(u)' /\ (u # t => Helped(u)' = Helped(u))
      BY <2>3, <2>4
    <3>3. CASE Sound(t, {}) /\ failures' = failures /\ Helped(t)' <= Helped(t)
      BY <2>2, <2>5, <2>6, <2>7, <3>1, <3>2, <3>3
    <3>4. CASE (\E c \in Conn : Sound(t, {c})) /\ failures' = failures + 1
               /\ Helped(t)' <= Helped(t)
      BY <2>2, <2>5, <2>6, <2>8, <3>1, <3>2, <3>4
    <3>5. CASE /\ Helped(t)' = Helped(t) + 1 /\ Sound(t, {})
               /\ failures' + refusals' = failures + refusals + 1
      BY <2>2, <2>5, <2>6, <2>7, <3>1, <3>2, <3>5
    <3>6. QED
      BY <2>2, <2>3, <3>3, <3>4, <3>5
  <2>10. QED
    BY <2>9 DEF HelpInv
<1>3. QED
  BY <1>1, <1>2

\* With SpringContext in place a service method holds one connection, and one
\* more for each call of setAutoCommit or doGetConnection that failed.
THEOREM OneConnectionPerMethod ==
  ASSUME SpringReady = TRUE
  PROVE  Spec => []OneConnection
<1> USE ConnectionsAssumption
<1>1. Init => HelpInv
  <2>1. Init => Leaked = {}
    BY DEF Init, Leaked
  <2>2. ASSUME Init, NEW t \in Thread
        PROVE  OwnersTurned(t) /\ Helped(t) = 0
    BY <2>2 DEF Init, OwnersTurned, Helped, Shares
  <2>3. QED
    BY <2>1, <2>2, FS_EmptySet DEF Init, HelpInv
<1>2. TypeOK /\ LeakInv /\ HelpInv => OneConnection
  <2> SUFFICES ASSUME TypeOK, LeakInv, HelpInv, NEW t \in Thread, Shares(t)
               PROVE  Cardinality({c \in Conn : owner[c] = t}) <= 1 + failures + refusals
    BY DEF OneConnection, Shares
  <2> DEFINE Held == {c \in Conn : owner[c] = t}
             With(S, f) == IF Turned(f) THEN S \cup {f.conn} ELSE S
             A == Leaked \cup {bound[t]}
             B == With(A, outer[t])
             C == With(B, inner[t])
  <2>1. Held \subseteq C
    BY DEF Leaked, Uses, FrameConn, LeakInv, UseInv, Nesting, FrameOk, HelpInv, OwnersTurned, TypeOK,
           Frame
  <2>2. /\ IsFiniteSet(Leaked) /\ Cardinality(Leaked) \in Nat
        /\ failures \in Nat /\ refusals \in Nat
    BY FS_Subset, FS_CardinalityType DEF Leaked, TypeOK
  <2>3. ASSUME NEW S, IsFiniteSet(S), NEW x
        PROVE  /\ IsFiniteSet(S \cup {x}) /\ Cardinality(S \cup {x}) \in Nat
               /\ Cardinality(S \cup {x}) <= Cardinality(S) + 1
    <3>1. /\ IsFiniteSet(S \cup {x}) /\ Cardinality(S) \in Nat
          /\ Cardinality(S \cup {x}) = IF x \in S THEN Cardinality(S) ELSE Cardinality(S) + 1
      BY <2>3, FS_AddElement, FS_CardinalityType
    <3>2. QED
      BY <3>1
  <2>4. IsFiniteSet(A) /\ Cardinality(A) \in Nat /\ Cardinality(A) <= Cardinality(Leaked) + 1
    BY <2>2, <2>3
  <2>5. /\ IsFiniteSet(B) /\ Cardinality(B) \in Nat
        /\ Cardinality(B) <= Cardinality(A) + IF Turned(outer[t]) THEN 1 ELSE 0
    <3> HIDE DEF A
    <3>1. CASE Turned(outer[t])
      BY <2>3, <2>4, <3>1
    <3>2. CASE ~Turned(outer[t])
      BY <2>4, <3>2
    <3>3. QED
      BY <3>1, <3>2
  <2>6. /\ IsFiniteSet(C) /\ Cardinality(C) \in Nat
        /\ Cardinality(C) <= Cardinality(B) + IF Turned(inner[t]) THEN 1 ELSE 0
    <3> HIDE DEF A, B
    <3>1. CASE Turned(inner[t])
      BY <2>3, <2>5, <3>1
    <3>2. CASE ~Turned(inner[t])
      BY <2>5, <3>2
    <3>3. QED
      BY <3>1, <3>2
  <2>7. Cardinality(Held) <= Cardinality(C) /\ Cardinality(Held) \in Nat
    <3> HIDE DEF C, Held
    <3>1. QED
      BY <2>1, <2>6, FS_Subset, FS_CardinalityType
  <2>8. Cardinality(Leaked) + Helped(t) <= failures + refusals
    BY DEF HelpInv
  <2>9. QED
    <3> DEFINE one == IF Turned(outer[t]) THEN 1 ELSE 0
               two == IF Turned(inner[t]) THEN 1 ELSE 0
    <3>1. Helped(t) = one + two /\ one \in Nat /\ two \in Nat
      BY DEF Helped
    <3>2. Cardinality(B) <= Cardinality(A) + one /\ Cardinality(C) <= Cardinality(B) + two
      BY <2>5, <2>6
    <3> HIDE DEF A, B, C, Held, one, two
    <3>3. Cardinality(Held) <= 1 + failures + refusals
      BY <2>2, <2>4, <2>5, <2>6, <2>7, <2>8, <3>1, <3>2
    <3>4. QED
      BY <3>3 DEF Held
<1>3. TypeOK /\ LeakInv /\ HelpInv /\ [Next]_vars => HelpInv'
  BY HelpStep
<1>4. QED
  BY <1>1, <1>2, <1>3, ConnectionsUse, PTL DEF Spec

-----------------------------------------------------------------------------
(* What decides over writes, with DBHelper in place of SpringContext.       *)

\* A DAO operation uses auto-commit unless it is in a transaction, and a getter
\* never uses the connection of one.
FrameWrites(t, f) ==
    f # NoFrame =>
        /\ f.kind = "dao" <=> f.via = "spring"
        /\ f.kind = "dao" /\ f.conn # NoConn /\ scope[t] # "REQUIRED" => auto[f.conn]
        /\ f.kind = "dao" /\ f.own => scope[t] = "NONE"
Mode(t) ==
    /\ FrameWrites(t, outer[t]) /\ FrameWrites(t, inner[t])
    /\ bound[t] # NoConn => (auto[bound[t]] <=> scope[t] # "REQUIRED")
Undecided(c) == \E t \in Thread : bound[t] = c /\ scope[t] = "REQUIRED"
WriteInv ==
    /\ \A c \in Conn : owner[c] = Free => auto[c]
    /\ \A t \in Thread : Mode(t)
    /\ \A c \in Conn : dirty[c] => Undecided(c)

\* Writes on c are undone or committed at the end of their transaction.
Decides(c) ==
    dirty[c] /\ ~dirty'[c] =>
        \E t \in Thread : bound[t] = c /\ scope[t] = "REQUIRED" /\ scope'[t] = "OUT"

\* A step of t does not disturb the other threads.
LEMMA OthersKeepMode ==
  ASSUME TypeOK, UseInv, WriteInv, NEW t \in Thread, Untouched(t),
         \A c \in Conn : auto'[c] # auto[c] => owner[c] \in {Free, t}
  PROVE  \A u \in Thread \ {t} : Mode(u)'
<1> USE NoFrameAssumption, ConnectionsAssumption
<1> SUFFICES ASSUME NEW u \in Thread \ {t}
             PROVE  Mode(u)'
  OBVIOUS
<1>1. \A c \in Uses(u) : auto'[c] = auto[c]
  <2>1. ASSUME NEW c \in Uses(u)
        PROVE  owner[c] = u /\ c \in Conn
    BY DEF UseInv, UsesOwn, Uses, FrameConn, TypeOK, Frame
  <2>2. QED
    BY <2>1
<1>2. /\ scope'[u] = scope[u] /\ bound'[u] = bound[u]
      /\ outer'[u] = outer[u] /\ inner'[u] = inner[u]
  BY DEF Untouched
<1>3. /\ bound[u] # NoConn => bound[u] \in Uses(u)
      /\ \A f \in {outer[u], inner[u]} : f # NoFrame /\ f.conn # NoConn => f.conn \in Uses(u)
  BY DEF Uses, FrameConn
<1>4. Mode(u)
  BY DEF WriteInv
<1>5. QED
  BY <1>1, <1>2, <1>3, <1>4 DEF Mode, FrameWrites

\* A step that leaves the writes alone keeps those that are undecided so.
LEMMA DirtyKept ==
  ASSUME TypeOK, WriteInv, NEW t \in Thread, Untouched(t), dirty' = dirty,
         scope'[t] = scope[t], bound[t] # NoConn => bound'[t] = bound[t]
  PROVE  \A c \in Conn : (dirty'[c] => Undecided(c)') /\ Decides(c)
<1>1. ASSUME NEW c \in Conn, dirty[c]
      PROVE  Undecided(c)'
  <2>1. PICK u \in Thread : bound[u] = c /\ scope[u] = "REQUIRED"
    BY <1>1 DEF WriteInv, Undecided
  <2>2. bound'[u] = c /\ scope'[u] = "REQUIRED"
    BY <2>1, ConnectionsAssumption DEF Untouched
  <2>3. QED
    BY <2>2 DEF Undecided
<1>2. QED
  BY <1>1 DEF Decides

LEMMA WriteStep ==
  ASSUME SpringReady = FALSE, TypeOK, UseInv, WriteInv, NEW t \in Thread,
         ThreadNext(t)
  PROVE  WriteInv' /\ \A c \in Conn : Decides(c)
<1> USE NoFrameAssumption, ConnectionsAssumption
<1>a. Nesting(t) /\ \A c \in Uses(t) : owner[c] = t
  BY DEF UseInv, UsesOwn
<1>b. Untouched(t) /\ OwnerMoves(t)
  BY ThreadStep
<1>c. Mode(t) /\ (\A c \in Conn : owner[c] = Free => auto[c])
  BY DEF WriteInv
<1>d. /\ Top(t) \in Frame \cup {NoFrame} /\ FrameWrites(t, Top(t))
      /\ Top(t) # NoFrame => FrameOk(t, Top(t))
  BY <1>a, <1>c DEF Top, TypeOK, Mode, Nesting
<1>e. ASSUME Mode(t)', \A c \in Conn : owner'[c] = Free => auto'[c],
             \A c \in Conn : auto'[c] # auto[c] => owner[c] \in {Free, t},
             dirty' = dirty, scope'[t] = scope[t], bound[t] # NoConn => bound'[t] = bound[t]
      PROVE  WriteInv' /\ \A c \in Conn : Decides(c)
  <2>1. \A u \in Thread \ {t} : Mode(u)'
    BY <1>b, <1>e, OthersKeepMode
  <2>2. \A c \in Conn : (dirty'[c] => Undecided(c)') /\ Decides(c)
    BY <1>b, <1>e, DirtyKept
  <2>3. QED
    BY <1>e, <2>1, <2>2 DEF WriteInv
<1>f. ASSUME NEW c \in Conn, owner[c] = t, NEW u \in Thread, bound[u] = c
      PROVE  u = t
  BY <1>f DEF UseInv, UsesOwn, Uses
<1>1. CASE Enter(t)
  <2>1. bound[t] = NoConn /\ outer[t] = NoFrame /\ inner[t] = NoFrame
    BY <1>1, <1>a DEF Enter, Nesting
  <2>2. Mode(t)'
    BY <1>1, <2>1 DEF Enter, Mode, FrameWrites
  <2>3. \A u \in Thread \ {t} : Mode(u)'
    BY <1>1, <1>b, OthersKeepMode DEF Enter
  <2>4. \A c \in Conn : dirty[c] => Undecided(c)'
    <3>1. ASSUME NEW c \in Conn, dirty[c]
          PROVE  Undecided(c)'
      <4>1. PICK u \in Thread : bound[u] = c /\ scope[u] = "REQUIRED"
        BY <3>1 DEF WriteInv, Undecided
      <4>2. u # t
        BY <1>1, <4>1 DEF Enter
      <4>3. QED
        BY <1>b, <4>1, <4>2 DEF Untouched, Undecided
    <3>2. QED
      BY <3>1
  <2>5. QED
    BY <1>1, <1>c, <2>2, <2>3, <2>4 DEF Enter, WriteInv, Decides
<1>2. CASE Begin(t)
  <2>1. PICK c \in Conn : /\ Take(t, c)
                          /\ auto' = [auto EXCEPT ![c] = FALSE]
                          /\ bound' = [bound EXCEPT ![t] = c]
    BY <1>2 DEF Begin
  <2>2. /\ outer[t] = NoFrame /\ inner[t] = NoFrame /\ scope[t] = "REQUIRED"
        /\ bound[t] = NoConn
    BY <1>2, <1>a DEF Begin, Beginning, Nesting
  <2>3. Mode(t)'
    BY <1>2, <2>1, <2>2 DEF Begin, Mode, FrameWrites, TypeOK
  <2>4. /\ \A d \in Conn : owner'[d] = Free => auto'[d]
        /\ \A d \in Conn : auto'[d] # auto[d] => owner[d] \in {Free, t}
    BY <1>c, <2>1 DEF Take, TypeOK
  <2>5. QED
    BY <1>2, <1>e, <2>2, <2>3, <2>4 DEF Begin
<1>3. CASE Fail(t)
  <2>1. Mode(t)'
    BY <1>3, <1>c DEF Fail, Mode, FrameWrites
  <2>2. QED
    BY <1>3, <1>c, <1>e, <2>1 DEF Fail
<1>4. CASE Leave(t)
  <2>1. outer[t] = NoFrame /\ inner[t] = NoFrame
    BY <1>4, <1>a DEF Leave, Nesting
  <2>2. /\ outer'[t] = NoFrame /\ inner'[t] = NoFrame
        /\ bound'[t] = NoConn /\ scope'[t] = "OUT"
    BY <1>4, <2>1 DEF Leave, TypeOK
  <2>3. Mode(t)'
    BY <2>2 DEF Mode, FrameWrites
  <2>4. ASSUME NEW c \in Conn, dirty[c], c # bound[t]
        PROVE  Undecided(c)'
    <3>1. PICK u \in Thread : bound[u] = c /\ scope[u] = "REQUIRED"
      BY <2>4 DEF WriteInv, Undecided
    <3>2. QED
      BY <1>b, <2>4, <3>1 DEF Untouched, Undecided
  <2>5. CASE bound[t] = NoConn
    <3>1. owner' = owner /\ auto' = auto /\ dirty' = dirty
      BY <1>4, <2>5 DEF Leave
    <3>2. \A u \in Thread \ {t} : Mode(u)'
      BY <1>b, <3>1, OthersKeepMode
    <3>3. QED
      BY <1>c, <2>3, <2>4, <2>5, <3>1, <3>2 DEF WriteInv, Decides
  <2>6. CASE bound[t] # NoConn
    <3> DEFINE b == bound[t]
    <3>1. b \in Conn /\ owner[b] = t
      BY <1>a, <2>6 DEF Uses, TypeOK
    <3>2. \A c \in Conn : /\ owner'[c] = IF c = b THEN Free ELSE owner[c]
                          /\ auto'[c] = IF c = b THEN TRUE ELSE auto[c]
                          /\ dirty'[c] = IF c = b THEN FALSE ELSE dirty[c]
      BY <1>4, <2>6, <3>1 DEF Leave, GiveBack, TypeOK
    <3>3. \A u \in Thread \ {t} : Mode(u)'
      BY <1>b, <3>1, <3>2, OthersKeepMode
    <3>4. ASSUME dirty[b]
          PROVE  scope[t] = "REQUIRED"
      <4>1. PICK u \in Thread : bound[u] = b /\ scope[u] = "REQUIRED"
        BY <3>1, <3>4 DEF WriteInv, Undecided
      <4>2. QED
        BY <1>f, <3>1, <4>1
    <3>5. \A c \in Conn : Decides(c)
      BY <2>2, <3>2, <3>4 DEF Decides
    <3>6. QED
      BY <1>c, <2>3, <2>4, <3>2, <3>3, <3>5 DEF WriteInv
  <2>7. QED
    BY <2>5, <2>6
<1>5. \A kind \in Kind : /\ NewFrame(kind).kind = "dao" <=> NewFrame(kind).via = "spring"
                         /\ NewFrame(kind).conn = NoConn /\ ~NewFrame(kind).own
  BY DEF NewFrame, Via
<1>6. CASE Open(t)
  <2>1. PICK kind \in Kind : outer' = [outer EXCEPT ![t] = NewFrame(kind)]
    BY <1>6 DEF Open
  <2>2. outer'[t] = NewFrame(kind)
    BY <2>1 DEF TypeOK
  <2>3. FrameWrites(t, outer[t])'
    BY <1>5, <2>2 DEF FrameWrites
  <2>4. Mode(t)'
    BY <1>6, <1>c, <2>3 DEF Open, Mode, FrameWrites
  <2>5. QED
    BY <1>6, <1>c, <1>e, <2>4 DEF Open
<1>7. CASE Nest(t)
  <2>1. inner'[t] = NewFrame("lob")
    BY <1>7 DEF Nest, TypeOK
  <2>2. FrameWrites(t, inner[t])'
    BY <1>5, <2>1 DEF FrameWrites, Kind
  <2>3. Mode(t)'
    BY <1>7, <1>c, <2>2 DEF Nest, Mode, FrameWrites
  <2>4. QED
    BY <1>7, <1>c, <1>e, <2>3 DEF Nest
\* The other frame of t, and the bound connection, when the top frame changes.
<1>8. ASSUME NEW g, SetTop(t, g), scope' = scope, FrameWrites(t, g)',
             \A c \in Uses(t) : auto'[c] = auto[c],
             bound' = bound
      PROVE  Mode(t)'
  <2>1. /\ bound[t] # NoConn => bound[t] \in Uses(t)
        /\ \A f \in {outer[t], inner[t]} : f # NoFrame /\ f.conn # NoConn => f.conn \in Uses(t)
    BY DEF Uses, FrameConn
  <2>2. CASE inner[t] = NoFrame
    <3>1. inner'[t] = NoFrame /\ outer'[t] = g
      BY <1>8, <2>2 DEF SetTop, TypeOK
    <3>2. QED
      BY <1>8, <1>c, <2>1, <3>1 DEF Mode, FrameWrites
  <2>3. CASE inner[t] # NoFrame
    <3>1. inner'[t] = g /\ outer'[t] = outer[t]
      BY <1>8, <2>3 DEF SetTop, TypeOK
    <3>2. QED
      BY <1>8, <1>c, <2>1, <3>1 DEF Mode, FrameWrites
  <2>4. QED
    BY <2>2, <2>3
<1>9. CASE Reuse(t)
  <2> DEFINE f == Top(t)
  <2>1. /\ SetTop(t, [f EXCEPT !.conn = bound[t]]) /\ f \in Frame /\ scope' = scope /\ bound' = bound /\ owner' = owner
        /\ dirty' = dirty /\ f.via = "spring" /\ bound[t] \in Conn /\ f.conn = NoConn
        /\ auto' = [auto EXCEPT ![bound[t]] = AutoOf(f, bound[t])]
    BY <1>9, <1>d DEF Reuse, TypeOK
  <2>2. f.kind = "dao" /\ ~f.own
    BY <1>d, <2>1 DEF FrameWrites, FrameOk
  <2>3. auto' = auto
    BY <2>1, <2>2 DEF AutoOf, TypeOK
  <2>4. PICK g \in Frame : /\ SetTop(t, g) /\ g.kind = "dao" /\ g.via = "spring"
                           /\ g.conn = bound[t] /\ ~g.own
    <3>1. SetTop(t, [f EXCEPT !.conn = bound[t]])
      BY <2>1
    <3> HIDE DEF f
    <3> DEFINE h == [f EXCEPT !.conn = bound[t]]
    <3>2. h \in Frame /\ h.kind = "dao" /\ h.via = "spring" /\ h.conn = bound[t] /\ ~h.own
      BY <2>1, <2>2 DEF Frame
    <3>3. QED
      BY <3>1, <3>2, Zenon
  <2>5. FrameWrites(t, g)'
    BY <1>c, <2>1, <2>3, <2>4 DEF FrameWrites, Mode
  <2>6. QED
    BY <1>8, <1>c, <1>e, <2>1, <2>3, <2>4, <2>5
<1>10. CASE Acquire(t)
  <2> DEFINE f == Top(t)
  <2>1. PICK c \in Conn :
           /\ Take(t, c)
           /\ SetTop(t, [f EXCEPT !.conn = c, !.own = ~Binds(t, f)])
           /\ bound' = IF Binds(t, f) THEN [bound EXCEPT ![t] = c] ELSE bound
           /\ auto' = [auto EXCEPT ![c] = AutoOf(f, c)]
    BY <1>10 DEF Acquire
  <2>2. /\ f \in Frame /\ NeedsPool(t, f) /\ scope' = scope /\ dirty' = dirty
        /\ owner[c] = Free
    BY <1>10, <1>d, <2>1 DEF Acquire, Take
  <2>3. PICK g \in Frame : /\ SetTop(t, g) /\ g.kind = f.kind /\ g.via = f.via
                           /\ g.conn = c /\ (g.own <=> ~Binds(t, f))
    <3>1. SetTop(t, [f EXCEPT !.conn = c, !.own = ~Binds(t, f)])
      BY <2>1
    <3>2. PICK b \in BOOLEAN : b = ~Binds(t, f)
      BY DEF Binds
    <3> HIDE DEF f
    <3> DEFINE h == [f EXCEPT !.conn = c, !.own = b]
    <3>3. SetTop(t, h)
      BY <3>1, <3>2, Zenon
    <3>4. h \in Frame /\ h.kind = f.kind /\ h.via = f.via /\ h.conn = c /\ h.own = b
      BY <2>2 DEF Frame
    <3>5. QED
      BY <3>2, <3>3, <3>4, Zenon
  <2>4. /\ \A d \in Conn : owner'[d] = Free => auto'[d]
        /\ \A d \in Conn : auto'[d] # auto[d] => owner[d] \in {Free, t}
        /\ \A d \in Uses(t) : auto'[d] = auto[d]
    <3>1. c \notin Uses(t) /\ Uses(t) \subseteq Conn
      BY <1>a, <2>2 DEF Uses, FrameConn, TypeOK, Frame
    <3>2. QED
      BY <1>c, <2>1, <2>2, <3>1 DEF Take, TypeOK
  <2>5. scope[t] # "OUT" /\ f # NoFrame /\ outer[t] # NoFrame
    BY <1>10, <1>a DEF Acquire, Nesting, Top
  <2>6. CASE f.kind # "dao"
    <3>1. ~Binds(t, f) /\ bound' = bound
      BY <1>d, <2>1, <2>2, <2>6 DEF Binds, FrameWrites
    <3>2. FrameWrites(t, g)'
      BY <1>d, <2>2, <2>3, <2>6 DEF FrameWrites
    <3>3. QED
      BY <1>8, <1>e, <2>2, <2>3, <2>4, <3>1, <3>2
  <2>7. CASE f.kind = "dao"
    <3>1. f.via = "spring" /\ bound[t] = NoConn
      BY <1>d, <2>2, <2>7 DEF FrameWrites, NeedsPool
    <3>2. scope[t] # "REQUIRED" /\ auto'[c]
      BY <1>a, <1>c, <2>1, <2>2, <2>5, <2>7, <3>1 DEF Nesting, AutoOf, TypeOK
    <3>3. Binds(t, f) <=> scope[t] # "NONE"
      BY <3>1 DEF Binds
    <3>4. FrameWrites(t, g)'
      BY <2>2, <2>3, <2>7, <3>1, <3>2, <3>3 DEF FrameWrites
    <3>5. CASE ~Binds(t, f)
      BY <1>8, <1>e, <2>1, <2>2, <2>3, <2>4, <3>4, <3>5
    <3>6. CASE Binds(t, f)
      <4>1. bound'[t] = c
        BY <2>1, <3>6 DEF TypeOK
      <4>2. Mode(t)'
        <5>1. /\ \A h \in {outer[t], inner[t]} :
                    h # NoFrame /\ h.conn # NoConn => h.conn \in Uses(t)
          BY DEF Uses, FrameConn
        <5>2. CASE inner[t] = NoFrame
          <6>1. inner'[t] = NoFrame /\ outer'[t] = g
            BY <2>3, <5>2 DEF SetTop, TypeOK
          <6>2. QED
            BY <2>2, <3>2, <3>4, <4>1, <6>1 DEF Mode, FrameWrites
        <5>3. CASE inner[t] # NoFrame
          <6>1. inner'[t] = g /\ outer'[t] = outer[t]
            BY <2>3, <5>3 DEF SetTop, TypeOK
          <6>2. QED
            BY <1>c, <2>2, <2>4, <3>2, <3>4, <4>1, <5>1, <6>1 DEF Mode, FrameWrites
        <5>4. QED
          BY <5>2, <5>3
      <4>3. QED
        BY <1>e, <2>2, <2>4, <3>1, <4>2
    <3>7. QED
      BY <3>5, <3>6
  <2>8. QED
    BY <2>6, <2>7
<1>11. CASE AutoCommitFails(t)
  <2> DEFINE f == Top(t)
  <2>1. /\ f \in Frame /\ SetTop(t, [f EXCEPT !.via = "helper"]) /\ scope' = scope /\ dirty' = dirty /\ auto' = auto
        /\ f.kind # "dao"
    BY <1>11, <1>d DEF AutoCommitFails
  <2>2. bound' = bound
    BY <1>11, <1>d, <2>1 DEF AutoCommitFails, Binds, FrameWrites
  <2>3. PICK g \in Frame : SetTop(t, g) /\ g.kind = f.kind /\ g.via = "helper"
    <3>1. SetTop(t, [f EXCEPT !.via = "helper"])
      BY <2>1
    <3> HIDE DEF f
    <3> DEFINE h == [f EXCEPT !.via = "helper"]
    <3>2. h \in Frame /\ h.kind = f.kind /\ h.via = "helper"
      BY <2>1 DEF Frame
    <3>3. QED
      BY <3>1, <3>2, Zenon
  <2>4. FrameWrites(t, g)'
    BY <2>1, <2>3 DEF FrameWrites
  <2>5. \A c \in Conn : owner'[c] = Free => auto'[c]
    BY <1>11, <1>c, <2>1 DEF AutoCommitFails, Take, TypeOK
  <2>6. QED
    BY <1>8, <1>e, <2>1, <2>2, <2>3, <2>4, <2>5
<1>12. CASE Write(t)
  <2> DEFINE f == outer[t]
  <2>1. /\ f \in Frame /\ f.kind = "dao" /\ f.conn \in Conn
        /\ owner' = owner /\ auto' = auto /\ scope' = scope /\ bound' = bound
        /\ outer' = outer /\ inner' = inner
        /\ dirty' = [dirty EXCEPT ![f.conn] = ~auto[f.conn]]
    BY <1>12 DEF Write, TypeOK, Frame
  <2>2. \A u \in Thread : Mode(u)'
    BY <2>1 DEF WriteInv, Mode, FrameWrites
  <2>3. CASE auto[f.conn]
    <3>1. ~dirty[f.conn]
      <4>1. ASSUME NEW u \in Thread, bound[u] = f.conn, scope[u] = "REQUIRED"
            PROVE  FALSE
        BY <2>1, <2>3, <4>1 DEF WriteInv, Mode, TypeOK
      <4>2. QED
        BY <2>1, <4>1 DEF WriteInv, Undecided
    <3>2. dirty' = dirty
      BY <2>1, <2>3, <3>1 DEF TypeOK
    <3>3. QED
      BY <2>1, <2>2, <3>2 DEF WriteInv, Undecided, Decides
  <2>4. CASE ~auto[f.conn]
    <3>1. scope[t] = "REQUIRED" /\ bound[t] = f.conn
      BY <1>a, <1>c, <2>1, <2>4 DEF Mode, FrameWrites, Nesting, FrameOk
    <3>2. Undecided(f.conn)
      BY <3>1 DEF Undecided
    <3>3. \A c \in Conn : dirty'[c] = IF c = f.conn THEN TRUE ELSE dirty[c]
      BY <2>1, <2>4 DEF TypeOK
    <3>4. QED
      BY <2>1, <2>2, <3>2, <3>3 DEF WriteInv, Undecided, Decides
  <2>5. QED
    BY <2>3, <2>4
<1>13. CASE Close(t)
  <2> DEFINE f == Top(t)
  <2>1. /\ f \in Frame /\ SetTop(t, NoFrame) /\ scope' = scope /\ bound' = bound
    BY <1>13, <1>d DEF Close
  <2>2. FrameWrites(t, NoFrame)'
    BY DEF FrameWrites
  <2>3. CASE ~f.own
    <3>1. owner' = owner /\ auto' = auto /\ dirty' = dirty
      BY <1>13, <2>3 DEF Close
    <3>2. QED
      BY <1>8, <1>c, <1>e, <2>1, <2>2, <3>1
  <2>4. CASE f.own
    <3> DEFINE c == f.conn
    <3>1. c \in Conn /\ c \in Uses(t) /\ owner[c] = t /\ c # bound[t]
      BY <1>a, <1>d, <2>1, <2>4 DEF FrameOk, Uses, FrameConn, Top, TypeOK, Frame
    <3>2. \A d \in Conn : /\ owner'[d] = IF d = c THEN Free ELSE owner[d]
                          /\ auto'[d] = IF d = c THEN TRUE ELSE auto[d]
                          /\ dirty'[d] = IF d = c THEN FALSE ELSE dirty[d]
      BY <1>13, <2>4, <3>1 DEF Close, GiveBack, TypeOK
    <3>3. ~dirty[c]
      <4>1. ASSUME NEW u \in Thread, bound[u] = c
            PROVE  FALSE
        BY <1>f, <3>1, <4>1
      <4>2. QED
        BY <3>1, <4>1 DEF WriteInv, Undecided
    <3>4. dirty' = dirty
      <4>1. dirty' = [dirty EXCEPT ![c] = FALSE]
        BY <1>13, <2>4 DEF Close, GiveBack
      <4>2. QED
        BY <3>1, <3>3, <4>1 DEF TypeOK
    <3>8. bound[t] # NoConn => auto'[bound[t]] = auto[bound[t]]
      <4>1. bound[t] \in Conn \cup {NoConn}
        BY DEF TypeOK
      <4>2. QED
        BY <3>1, <3>2, <4>1
    <3>5. Mode(t)'
      <4>1. CASE inner[t] = NoFrame
        <5>1. inner'[t] = NoFrame /\ outer'[t] = NoFrame
          BY <2>1, <4>1 DEF SetTop, TypeOK
        <5>2. QED
          BY <1>c, <2>1, <3>8, <5>1 DEF Mode, FrameWrites
      <4>2. CASE inner[t] # NoFrame
        <5>1. inner'[t] = NoFrame /\ outer'[t] = outer[t] /\ f = inner[t]
          BY <2>1, <4>2 DEF SetTop, TypeOK, Top
        <5>2. outer[t] # NoFrame => outer[t].conn # c /\ outer[t].conn \in Conn \cup {NoConn}
          BY <1>a, <2>4, <4>2, <5>1 DEF Nesting, TypeOK, Frame
        <5>3. outer[t] # NoFrame /\ outer[t].conn # NoConn =>
                  auto'[outer[t].conn] = auto[outer[t].conn]
          BY <3>2, <5>2
        <5>4. QED
          BY <1>c, <2>1, <3>8, <5>1, <5>3 DEF Mode, FrameWrites
      <4>3. QED
        BY <4>1, <4>2
    <3>6. /\ \A d \in Conn : owner'[d] = Free => auto'[d]
          /\ \A d \in Conn : auto'[d] # auto[d] => owner[d] \in {Free, t}
      BY <1>c, <3>1, <3>2
    <3>7. QED
      BY <1>e, <2>1, <3>4, <3>5, <3>6
  <2>5. f.own \in BOOLEAN
    BY <2>1 DEF Frame
  <2>6. QED
    BY <2>3, <2>4, <2>5
<1>14. ~SpringRefuses(t)
  BY <1>d DEF SpringRefuses, FrameWrites
<1>15. QED
  BY <1>1, <1>2, <1>3, <1>4, <1>6, <1>7, <1>9, <1>10, <1>11, <1>12, <1>13, <1>14
  DEF ThreadNext, Step

\* While getters open connections through DBHelper, what a DAO has written is
\* decided by the transaction it wrote in.
THEOREM TransactionsDecide ==
  ASSUME SpringReady = FALSE
  PROVE  Spec => WritesDecided
<1>1. Init => WriteInv
  BY NoFrameAssumption DEF Init, WriteInv, Mode, FrameWrites
<1>2. TypeOK /\ LeakInv /\ WriteInv /\ [Next]_vars => WriteInv' /\ \A c \in Conn : Decides(c)
  <2> SUFFICES ASSUME TypeOK, LeakInv, WriteInv, [Next]_vars
               PROVE  WriteInv' /\ \A c \in Conn : Decides(c)
    OBVIOUS
  <2>1. CASE UNCHANGED vars
    BY <2>1 DEF vars, WriteInv, Mode, FrameWrites, Undecided, Decides
  <2>2. CASE Next
    <3>1. PICK t \in Thread : ThreadNext(t)
      BY <2>2 DEF Next, ThreadNext
    <3>2. QED
      BY <3>1, WriteStep DEF LeakInv
  <2>3. QED
    BY <2>1, <2>2
<1>3. (\A c \in Conn : Decides(c)) =>
          [\A c \in Conn : dirty[c] /\ ~dirty'[c] =>
              \E t \in Thread : /\ bound[t] = c /\ scope[t] = "REQUIRED"
                                /\ scope'[t] = "OUT"]_vars
  BY DEF Decides
<1>4. QED
  BY <1>1, <1>2, <1>3, ConnectionsUse, PTL DEF Spec, WritesDecided

-----------------------------------------------------------------------------
(* Entities in the hands of programs. *)

\* A row read into an entity gives one.
LEMMA CreatedType ==
    ASSUME NEW r \in Row
    PROVE  CreateEntity(r) \in Property /\ \A c \in Mapped : r[c] \in Content
<1>1. \A c \in Mapped : c \in Column /\ r[c] \in Content
  BY DEF Column, Row
<1>2. \A c \in Mapped : NewProxy[c] = Null /\ ReadColumn(c, r[c]) \in Content
  BY <1>1, EntityProxyAssumption DEF NewProxy, ReadColumn, ReadLob, Content
<1>3. QED
  BY <1>1, <1>2 DEF CreateEntity, Property, Content

\* What a getter of a lob does to its entity, and that it leaves the others.
LEMMA LoadedType ==
    ASSUME ProxyTypeOK, NEW s \in Session, NEW c \in Lazy, entity[s] # Nothing, LoadLob(s, c)
    PROVE  /\ entity' \in [Session -> Property \cup {Nothing}] /\ entity'[s] # Nothing
           /\ seen' \in [Session -> [Mapped -> Content \cup {Nothing}]]
           /\ \A t \in Session : t # s => entity'[t] = entity[t] /\ seen'[t] = seen[t]
           /\ \A d \in Mapped : d # c => /\ entity'[s][d] = entity[s][d]
                                         /\ seen'[s][d] = seen[s][d]
           /\ \/ entity'[s][c] = entity[s][c] /\ seen'[s][c] = seen[s][c]
              \/ seen'[s][c] \in Content /\ entity'[s][c] = ReadLob(seen'[s][c])
<1>1. /\ entity \in [Session -> Property \cup {Nothing}] /\ entity[s] \in Property
      /\ seen \in [Session -> [Mapped -> Content \cup {Nothing}]] /\ c \in Mapped
      /\ row \in Row \cup {Nothing} /\ Nothing \notin Property
  BY EntityProxyAssumption DEF ProxyTypeOK, Mapped, Property, Content
<1>2. CASE row = Nothing
  BY <1>1, <1>2 DEF LoadLob
<1>3. CASE row # Nothing
  <2>1. row[c] \in Content /\ ReadLob(row[c]) \in Content
    BY <1>1, <1>3, EntityProxyAssumption DEF Row, Column, Mapped, Content, ReadLob
  <2> DEFINE e == [entity[s] EXCEPT ![c] = ReadLob(row[c])]
             k == [seen[s] EXCEPT ![c] = row[c]]
  <2>2. entity' = [entity EXCEPT ![s] = e] /\ seen' = [seen EXCEPT ![s] = k]
    BY <1>3 DEF LoadLob
  <2>3. e \in Property /\ k \in [Mapped -> Content \cup {Nothing}]
    BY <1>1, <2>1 DEF Property
  <2>4. /\ e[c] = ReadLob(row[c]) /\ \A d \in Mapped : d # c => e[d] = entity[s][d]
        /\ k[c] = row[c] /\ \A d \in Mapped : d # c => k[d] = seen[s][d]
    BY <1>1 DEF Property
  <2> HIDE DEF e, k
  <2>5. entity'[s] = e /\ seen'[s] = k
    BY <1>1, <2>2
  <2>6. QED
    BY <1>1, <2>1, <2>2, <2>3, <2>4, <2>5
<1>4. QED
  BY <1>2, <1>3

\* The types hold whatever the programs do.
THEOREM EntityProxyTyping == ProxySpec => []ProxyTypeOK
<1>1. ProxyInit => ProxyTypeOK
  BY EntityProxyAssumption DEF ProxyInit, ProxyTypeOK, Content
<1>2. ProxyTypeOK /\ [ProxyNext]_proxyVars => ProxyTypeOK'
  <2> SUFFICES ASSUME ProxyTypeOK, [ProxyNext]_proxyVars PROVE ProxyTypeOK'
    OBVIOUS
  <2> USE EntityProxyAssumption
  <2>1. CASE UNCHANGED proxyVars
    BY <2>1 DEF ProxyTypeOK, proxyVars
  <2>2. ASSUME NEW s \in Session, SelectById(s) PROVE ProxyTypeOK'
    <3>1. row # Nothing => row \in Row
      BY DEF ProxyTypeOK
    <3>2. (IF row = Nothing THEN Nothing ELSE CreateEntity(row)) \in Property \cup {Nothing}
      BY <3>1, CreatedType
    <3>3. [c \in Mapped |-> IF row = Nothing \/ c \in Lazy THEN Nothing ELSE row[c]]
             \in [Mapped -> Content \cup {Nothing}]
      BY <3>1, CreatedType
    <3>4. QED
      BY <2>2, <3>2, <3>3 DEF SelectById, Called, ProxyTypeOK, Content
  <2>3. ASSUME NEW s \in Session, NEW c \in Mapped, NEW v \in Content, SetProperty(s, c, v)
        PROVE  ProxyTypeOK'
    <3> DEFINE e == [entity[s] EXCEPT ![c] = v]
    <3>1. entity[s] \in Property /\ entity' = [entity EXCEPT ![s] = e]
      BY <2>3 DEF SetProperty, ProxyTypeOK
    <3>2. e \in Property
      BY <3>1 DEF Property
    <3> HIDE DEF e
    <3>3. entity' \in [Session -> Property \cup {Nothing}]
      BY <3>1, <3>2 DEF ProxyTypeOK
    <3>4. \A t \in Session : pc'[t] # "idle" => entity'[t] # Nothing
      BY <2>3, <3>1 DEF SetProperty, ProxyTypeOK
    <3>5. touched' \in [Session -> SUBSET Mapped] /\ keyed' \in [Session -> BOOLEAN]
      BY <2>3 DEF SetProperty, ProxyTypeOK
    <3>6. QED
      BY <2>3, <3>3, <3>4, <3>5 DEF SetProperty, Called, ProxyTypeOK
  <2>4. ASSUME NEW s \in Session, NEW c \in Lazy, GetLob(s, c) PROVE ProxyTypeOK'
    BY <2>4, LoadedType DEF GetLob, Called, ProxyTypeOK
  <2>5. ASSUME NEW s \in Session, NEW c \in Lazy, CollectNext(s, c) PROVE ProxyTypeOK'
    <3>1. entity[s] # Nothing /\ LoadLob(s, c)
      BY <2>5 DEF CollectNext, ProxyTypeOK
    <3>2. QED
      BY <2>5, <3>1, LoadedType DEF CollectNext, ProxyTypeOK
  <2>6. ASSUME NEW s \in Session, BeginUpdate(s) \/ BeginRelation(s) PROVE ProxyTypeOK'
    <3>1. Unloaded(s) \subseteq Lazy
      BY DEF Unloaded
    <3>2. todo' \in [Session -> SUBSET Lazy]
      BY <2>6, <3>1 DEF BeginUpdate, BeginRelation, ProxyTypeOK
    <3>3. pc' \in [Session -> {"idle", "update", "relation", "load"}]
      BY <2>6 DEF BeginUpdate, BeginRelation, Goto, ProxyTypeOK
    <3>4. \A t \in Session : /\ pc'[t] # "idle" => entity[t] # Nothing
                             /\ todo'[t] # {} => pc'[t] \in {"update", "relation"}
                             /\ (pc'[t] = "load") = (joinKey[t] # Null)
      BY <2>6 DEF BeginUpdate, BeginRelation, Goto, ProxyTypeOK
    <3>5. QED
      BY <2>6, <3>2, <3>3, <3>4 DEF BeginUpdate, BeginRelation, Called, ProxyTypeOK
  <2>7. ASSUME NEW s \in Session, FinishUpdate(s) PROVE ProxyTypeOK'
    <3>1. row' \in Row \cup {Nothing}
      BY <2>7 DEF FinishUpdate, ProxyTypeOK, Updated, Row, Property, Column, Mapped
    <3>2. QED
      BY <2>7, <3>1 DEF FinishUpdate, Goto, ProxyTypeOK
  <2>8. ASSUME NEW s \in Session, FindKey(s) PROVE ProxyTypeOK'
    <3>1. JoinColumnValue(s) \in Content
      BY <2>8 DEF FindKey, JoinColumnValue, ProxyTypeOK, Property, Row, Content
    <3>2. QED
      BY <2>8, <3>1 DEF FindKey, Goto, ProxyTypeOK
  <2>9. ASSUME NEW s \in Session, LoadRelated(s) PROVE ProxyTypeOK'
    BY <2>9 DEF LoadRelated, Goto, ProxyTypeOK, Content
  <2>10. ASSUME NEW s \in Session, ProxyFails(s) PROVE ProxyTypeOK'
    BY <2>10 DEF ProxyFails, Goto, ProxyTypeOK, Content
  <2>11. CASE OtherRow
    BY <2>11 DEF OtherRow, Called, Delete, Insert, ProxyTypeOK
  <2>12. CASE OtherPartner
    BY <2>12 DEF OtherPartner, Called, ProxyTypeOK
  <2>13. QED
    BY <2>1, <2>2, <2>3, <2>4, <2>5, <2>6, <2>7, <2>8, <2>9, <2>10, <2>11, <2>12
    DEF ProxyNext, ProxyStep
<1>3. QED
  BY <1>1, <1>2, PTL DEF ProxySpec

-----------------------------------------------------------------------------

\* What the program did not set is what the row held when the entity took it.
Taken(s) ==
    entity[s] # Nothing => \A c \in Mapped :
        c \notin touched[s] /\ entity[s][c] # Null =>
            seen[s][c] \in Content /\ entity[s][c] = ReadColumn(c, seen[s][c])

\* The getters a call still has to run are of lobs that are not read.
NotLoaded(s) == \A c \in todo[s] : entity[s][c] = Null

\* A relation is read when there is none, by the key the entity shows.
Joining(s) ==
    /\ pc[s] \in {"relation", "load"} => related[s] = Null
    /\ pc[s] = "load" /\ ForeignKey \in Mapped => entity[s][ForeignKey] \in {joinKey[s], Null}

Related(s) ==
    ForeignKey \in Mapped /\ related[s] # Null /\ ~keyed[s] =>
        entity[s] # Nothing /\ entity[s][ForeignKey] \in {related[s], Null}

ProxyInv == \A s \in Session : Taken(s) /\ NotLoaded(s) /\ Joining(s) /\ Related(s)

\* One program's part of the invariant, when nothing of it changes.
LEMMA OthersKeep ==
    ASSUME NEW s \in Session, Taken(s), NotLoaded(s), Joining(s), Related(s),
           entity'[s] = entity[s], touched'[s] = touched[s], seen'[s] = seen[s],
           todo'[s] = todo[s], pc'[s] = pc[s], joinKey'[s] = joinKey[s],
           related'[s] = related[s], keyed'[s] = keyed[s]
    PROVE  Taken(s)' /\ NotLoaded(s)' /\ Joining(s)' /\ Related(s)'
BY DEF Taken, NotLoaded, Joining, Related

\* A getter of a lob keeps all but the lob it loads.
LEMMA LoadKeeps ==
    ASSUME ProxyTypeOK, NEW s \in Session, Taken(s), NotLoaded(s), Joining(s), Related(s),
           NEW c \in Lazy, entity[s] # Nothing, LoadLob(s, c),
           todo'[s] \subseteq todo[s] \ {c},
           UNCHANGED <<related, pc, joinKey, touched, keyed>>
    PROVE  Taken(s)' /\ NotLoaded(s)' /\ Joining(s)' /\ Related(s)'
<1> USE EntityProxyAssumption DEF Mapped
<1>1. /\ entity'[s] # Nothing
      /\ \A d \in Mapped : d # c => /\ entity'[s][d] = entity[s][d]
                                    /\ seen'[s][d] = seen[s][d]
      /\ \/ entity'[s][c] = entity[s][c] /\ seen'[s][c] = seen[s][c]
         \/ seen'[s][c] \in Content /\ entity'[s][c] = ReadLob(seen'[s][c])
  BY LoadedType
<1>2. c \notin Plain /\ c # ForeignKey /\ c \in Mapped /\ todo[s] \subseteq Mapped
  BY DEF ProxyTypeOK
<1>3. Taken(s)'
  BY <1>1, <1>2 DEF Taken, ReadColumn
<1>4. NotLoaded(s)'
  BY <1>1, <1>2 DEF NotLoaded
<1>5. Joining(s)' /\ Related(s)'
  BY <1>1, <1>2 DEF Joining, Related
<1>6. QED
  BY <1>3, <1>4, <1>5

LEMMA ProxyInvariant == ProxySpec => [](ProxyTypeOK /\ ProxyInv)
<1>1. ProxyInit => ProxyInv
  BY DEF ProxyInit, ProxyInv, Taken, NotLoaded, Joining, Related
<1>2. ProxyTypeOK /\ ProxyInv /\ [ProxyNext]_proxyVars => ProxyInv'
  <2> SUFFICES ASSUME ProxyTypeOK, ProxyInv, [ProxyNext]_proxyVars, NEW s \in Session
               PROVE  Taken(s)' /\ NotLoaded(s)' /\ Joining(s)' /\ Related(s)'
    BY DEF ProxyInv
  <2>0. Taken(s) /\ NotLoaded(s) /\ Joining(s) /\ Related(s)
    BY DEF ProxyInv
  <2> USE EntityProxyAssumption
  <2>1. CASE UNCHANGED proxyVars \/ OtherRow \/ OtherPartner
    BY <2>0, <2>1, OthersKeep DEF proxyVars, OtherRow, OtherPartner
  <2>2. ASSUME NEW u \in Session, ProxyStep(u), u # s
        PROVE  Taken(s)' /\ NotLoaded(s)' /\ Joining(s)' /\ Related(s)'
    <3>1. ASSUME NEW c \in Lazy, GetLob(u, c) \/ CollectNext(u, c)
          PROVE  entity'[s] = entity[s] /\ seen'[s] = seen[s]
      <4>1. entity[u] # Nothing /\ LoadLob(u, c)
        BY <3>1 DEF GetLob, CollectNext, ProxyTypeOK
      <4>2. QED
        BY <2>2, <4>1, LoadedType
    <3>2. /\ entity'[s] = entity[s] /\ seen'[s] = seen[s]
          /\ touched'[s] = touched[s] /\ keyed'[s] = keyed[s]
      BY <2>2, <3>1
      DEF ProxyStep, SelectById, SetProperty, GetLob, CollectNext, BeginUpdate, FinishUpdate,
          BeginRelation, FindKey, LoadRelated, ProxyFails, ProxyTypeOK
    <3>3. /\ todo'[s] = todo[s] /\ pc'[s] = pc[s]
          /\ joinKey'[s] = joinKey[s] /\ related'[s] = related[s]
      BY <2>2
      DEF ProxyStep, SelectById, SetProperty, GetLob, CollectNext, BeginUpdate, FinishUpdate,
          BeginRelation, FindKey, LoadRelated, ProxyFails, Goto, ProxyTypeOK
    <3>4. QED
      BY <2>0, <3>2, <3>3, OthersKeep
  <2>3. CASE SelectById(s)
    <3>1. /\ entity'[s] = IF row = Nothing THEN Nothing ELSE CreateEntity(row)
          /\ seen'[s] = [c \in Mapped |-> IF row = Nothing \/ c \in Lazy THEN Nothing
                                          ELSE row[c]]
          /\ related'[s] = Null /\ touched'[s] = {}
      BY <2>3 DEF SelectById, ProxyTypeOK
    <3>2. Taken(s)'
      <4> SUFFICES ASSUME row # Nothing, NEW c \in Mapped, entity'[s][c] # Null
                   PROVE  seen'[s][c] \in Content /\ entity'[s][c] = ReadColumn(c, seen'[s][c])
        BY <3>1 DEF Taken
      <4>1. c \notin Lazy
        BY <3>1 DEF CreateEntity, NewProxy
      <4>2. row \in Row
        BY DEF ProxyTypeOK
      <4>3. QED
        BY <3>1, <4>1, <4>2, CreatedType DEF CreateEntity
    <3>3. todo[s] = {} /\ todo' = todo /\ pc'[s] = "idle"
      BY <2>3 DEF SelectById, ProxyTypeOK
    <3>4. QED
      BY <3>1, <3>2, <3>3 DEF NotLoaded, Joining, Related
  <2>4. ASSUME NEW c \in Mapped, NEW v \in Content, SetProperty(s, c, v)
        PROVE  Taken(s)' /\ NotLoaded(s)' /\ Joining(s)' /\ Related(s)'
    <3>1. entity[s] \in Property /\ Nothing \notin Property
      BY <2>4 DEF SetProperty, ProxyTypeOK, Property, Content
    <3> DEFINE e == [entity[s] EXCEPT ![c] = v]
    <3>2. e \in Property /\ \A d \in Mapped : d # c => e[d] = entity[s][d]
      BY <3>1 DEF Property
    <3> HIDE DEF e
    <3>3. entity'[s] = e
      BY <2>4, <3>1 DEF SetProperty, ProxyTypeOK, e
    <3>4. /\ touched'[s] = touched[s] \cup {c} /\ seen' = seen /\ related' = related
          /\ keyed'[s] = (keyed[s] \/ (c = ForeignKey /\ related[s] # Null))
          /\ pc' = pc /\ todo' = todo /\ pc[s] = "idle" /\ todo[s] = {}
      BY <2>4 DEF SetProperty, ProxyTypeOK
    <3>5. Taken(s)'
      BY <2>0, <3>1, <3>2, <3>3, <3>4 DEF Taken
    <3>6. NotLoaded(s)' /\ Joining(s)'
      BY <3>4 DEF NotLoaded, Joining
    <3>7. Related(s)'
      BY <2>0, <3>1, <3>2, <3>3, <3>4 DEF Related
    <3>8. QED
      BY <3>5, <3>6, <3>7
  <2>5. ASSUME NEW c \in Lazy, GetLob(s, c) \/ CollectNext(s, c)
        PROVE  Taken(s)' /\ NotLoaded(s)' /\ Joining(s)' /\ Related(s)'
    <3>1. entity[s] # Nothing /\ LoadLob(s, c) /\ todo'[s] \subseteq todo[s] \ {c}
      BY <2>5 DEF GetLob, CollectNext, ProxyTypeOK
    <3>2. UNCHANGED <<related, pc, joinKey, touched, keyed>>
      BY <2>5 DEF GetLob, CollectNext
    <3>3. QED
      BY <2>0, <3>1, <3>2, LoadKeeps
  <2>6. CASE BeginUpdate(s) \/ BeginRelation(s)
    <3>1. /\ todo'[s] = Unloaded(s) /\ UNCHANGED <<entity, seen, touched, keyed, related>>
          /\ pc'[s] \in {"update", "relation"} /\ (pc'[s] = "relation" => related[s] = Null)
      BY <2>6 DEF BeginUpdate, BeginRelation, Goto, ProxyTypeOK
    <3>2. QED
      BY <2>0, <3>1 DEF Taken, NotLoaded, Joining, Related, Unloaded
  <2>7. CASE FinishUpdate(s) \/ ProxyFails(s)
    <3>1. /\ UNCHANGED <<entity, seen, touched, keyed, related>>
          /\ todo'[s] = {} /\ pc'[s] = "idle"
      BY <2>7 DEF FinishUpdate, ProxyFails, Goto, ProxyTypeOK
    <3>2. QED
      BY <2>0, <3>1 DEF Taken, NotLoaded, Joining, Related
  <2>8. CASE FindKey(s)
    <3>1. /\ UNCHANGED <<entity, seen, touched, keyed, related, todo>>
          /\ pc[s] = "relation" /\ pc'[s] \in {"idle", "load"}
          /\ joinKey'[s] = JoinColumnValue(s)
      BY <2>8 DEF FindKey, Goto, ProxyTypeOK
    <3>2. ForeignKey \in Mapped => entity[s][ForeignKey] \in {JoinColumnValue(s), Null}
      BY DEF JoinColumnValue
    <3>3. QED
      BY <2>0, <3>1, <3>2 DEF Taken, NotLoaded, Joining, Related
  <2>9. CASE LoadRelated(s)
    <3>1. /\ UNCHANGED <<entity, seen, touched, todo>>
          /\ pc[s] = "load" /\ pc'[s] = "idle" /\ related'[s] \in {joinKey[s], Null}
          /\ entity[s] # Nothing
      BY <2>9 DEF LoadRelated, Goto, ProxyTypeOK
    <3>2. QED
      BY <2>0, <3>1 DEF Taken, NotLoaded, Joining, Related
  <2>10. ASSUME ProxyStep(s) PROVE Taken(s)' /\ NotLoaded(s)' /\ Joining(s)' /\ Related(s)'
    BY <2>3, <2>4, <2>5, <2>6, <2>7, <2>8, <2>9, <2>10 DEF ProxyStep
  <2>11. QED
    BY <2>1, <2>2, <2>10 DEF ProxyNext
<1>3. QED
  BY <1>1, <1>2, EntityProxyTyping, PTL DEF ProxySpec

-----------------------------------------------------------------------------

\* An update that changes what its program did not set overwrites a later write,
\* or a NULL that was read as the default.
THEOREM UpdatesKeepTheRest == ProxySpec => UpdateKeepsTheRest
<1>1. ASSUME ProxyTypeOK, ProxyInv, NEW s \in Session, FinishUpdate(s), row # Nothing,
             NEW c \in Column, row'[c] # row[c]
      PROVE  /\ c \in Mapped /\ row'[c] # Null
             /\ \/ c \in touched[s] \/ seen[s][c] \notin {Nothing, row[c]}
                \/ c \notin Plain /\ row[c] = Null /\ row'[c] = Default
  <2>1. /\ row'[c] = IF c \in Updated(s) THEN entity[s][c] ELSE row[c]
        /\ entity[s] # Nothing /\ Taken(s)
    BY <1>1 DEF FinishUpdate, ProxyTypeOK, ProxyInv
  <2>2. c \in Mapped /\ entity[s][c] # Null /\ row'[c] = entity[s][c]
    BY <1>1, <2>1 DEF Updated
  <2>3. ASSUME c \notin touched[s], seen[s][c] \in {Nothing, row[c]}
        PROVE  c \notin Plain /\ row[c] = Null /\ row'[c] = Default
    <3>1. seen[s][c] = row[c] /\ row'[c] = ReadColumn(c, row[c])
      BY <2>1, <2>2, <2>3, EntityProxyAssumption DEF Taken, Content
    <3>2. QED
      BY <1>1, <3>1 DEF ReadColumn, ReadLob
  <2>4. QED
    BY <2>2, <2>3
<1>2. ProxyTypeOK /\ ProxyInv /\ [ProxyNext]_proxyVars =>
        [\A s \in Session : FinishUpdate(s) /\ row # Nothing =>
           \A c \in Column : row'[c] # row[c] =>
             /\ c \in Mapped /\ row'[c] # Null
             /\ \/ c \in touched[s] \/ seen[s][c] \notin {Nothing, row[c]}
                \/ c \notin Plain /\ row[c] = Null /\ row'[c] = Default]_proxyVars
  BY <1>1
<1>3. QED
  BY <1>2, ProxyInvariant, PTL DEF ProxySpec, UpdateKeepsTheRest

\* What a getter has returned it returns again.
THEOREM GettersAlwaysRepeat == ProxySpec => GettersRepeat
<1> USE EntityProxyAssumption DEF Mapped
<1>1. ASSUME ProxyTypeOK, ProxyInv, [ProxyNext]_proxyVars, NEW s \in Session, entity[s] # Nothing,
             ~SelectById(s)
      PROVE  /\ \A c \in Mapped :
                  entity[s][c] # Null /\ c \notin touched'[s] => entity'[s][c] = entity[s][c]
             /\ related[s] # Null => related'[s] = related[s]
  <2>1. ASSUME NEW u \in Session, NEW c \in Lazy, GetLob(u, c) \/ CollectNext(u, c),
               NEW d \in Mapped, entity[s][d] # Null
        PROVE  entity'[s][d] = entity[s][d]
    <3>1. entity[u] # Nothing /\ LoadLob(u, c) /\ entity[u][c] = Null
      BY <1>1, <2>1 DEF GetLob, CollectNext, ProxyTypeOK, ProxyInv, NotLoaded
    <3>2. QED
      BY <1>1, <2>1, <3>1, LoadedType
  <2>2. ASSUME NEW u \in Session, NEW c \in Mapped, NEW v \in Content, SetProperty(u, c, v),
               NEW d \in Mapped, d \notin touched'[s]
        PROVE  entity'[s][d] = entity[s][d]
    <3>1. u = s => c # d
      BY <1>1, <2>2 DEF SetProperty, ProxyTypeOK
    <3>2. CASE u = s
      <4>1. entity[s] \in Property
        BY <1>1 DEF ProxyTypeOK
      <4>2. entity'[s] = [entity[s] EXCEPT ![c] = v]
        BY <1>1, <2>2, <3>2 DEF SetProperty, ProxyTypeOK
      <4>3. QED
        BY <2>2, <3>1, <3>2, <4>1, <4>2 DEF Property
    <3>3. CASE u # s
      BY <1>1, <2>2, <3>3 DEF SetProperty, ProxyTypeOK
    <3>4. QED
      BY <3>2, <3>3
  <2>3. \A c \in Mapped :
           entity[s][c] # Null /\ c \notin touched'[s] => entity'[s][c] = entity[s][c]
    BY <1>1, <2>1, <2>2
    DEF ProxyNext, ProxyStep, SelectById, BeginUpdate, FinishUpdate, BeginRelation, FindKey,
        LoadRelated, ProxyFails, OtherRow, OtherPartner, ProxyTypeOK, proxyVars
  <2>4. ASSUME related[s] # Null PROVE related'[s] = related[s]
    BY <1>1, <2>4
    DEF ProxyNext, ProxyStep, SelectById, SetProperty, GetLob, CollectNext, BeginUpdate, FinishUpdate,
        BeginRelation, FindKey, LoadRelated, ProxyFails, OtherRow, OtherPartner, ProxyTypeOK, proxyVars,
        ProxyInv, Joining
  <2>5. QED
    BY <2>3, <2>4
<1>2. ProxyTypeOK /\ ProxyInv /\ [ProxyNext]_proxyVars =>
        [\A s \in Session : entity[s] # Nothing /\ ~SelectById(s) =>
           /\ \A c \in Mapped :
                entity[s][c] # Null /\ c \notin touched'[s] => entity'[s][c] = entity[s][c]
           /\ related[s] # Null => related'[s] = related[s]]_proxyVars
  BY <1>1
<1>3. QED
  BY <1>2, ProxyInvariant, PTL DEF ProxySpec, GettersRepeat

\* The relation a program holds belongs to the key its entity shows.
THEOREM RelationsFit == ProxySpec => []RelationFitsEntity
<1>1. ProxyInv => RelationFitsEntity
  BY DEF ProxyInv, Related, RelationFitsEntity
<1>2. QED
  BY <1>1, ProxyInvariant, PTL

=============================================================================
