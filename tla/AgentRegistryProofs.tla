------------------------- MODULE AgentRegistryProofs -------------------------
(***************************************************************************)
(* The registry of worker connections, for any number of streams: types,   *)
(* and that a connection it hands out is open and served.                  *)
(***************************************************************************)
EXTENDS AgentRegistry, TLAPS

\* Every step of Connect, of the admin calls and of the environment keeps the types.
LEMMA TypeStep == TypeOK /\ [Next]_vars => TypeOK'
<1> SUFFICES ASSUME TypeOK, [Next]_vars PROVE TypeOK'
  OBVIOUS
<1> USE RegistryAssumption DEF TypeOK, NodeStatus, Stage, Goto
<1>1. ASSUME NEW s \in Streams, Lookup(s) PROVE TypeOK'
  BY <1>1 DEF Lookup
<1>2. ASSUME NEW s \in Streams, ConnectStep(s) PROVE TypeOK'
  <2>1. CASE Register(s)
    BY <2>1 DEF Register
  <2>2. CASE Hello(s)
    BY <2>2 DEF Hello
  <2>3. CASE HelloFails(s)
    BY <2>3 DEF HelloFails
  <2>4. CASE AckHello(s)
    BY <2>4 DEF AckHello
  <2>5. CASE Select(s)
    BY <2>5 DEF Select
  <2>6. CASE HandleMessage(s)
    BY <2>6 DEF HandleMessage
  <2>7. CASE RecvFails(s)
    BY <2>7 DEF RecvFails
  <2>8. CASE MarkDisconnected(s)
    BY <2>8 DEF MarkDisconnected
  <2>9. CASE Unregister(s)
    BY <2>9 DEF Unregister
  <2> QED
    BY <1>2, <2>1, <2>2, <2>3, <2>4, <2>5, <2>6, <2>7, <2>8, <2>9 DEF ConnectStep
<1>3. ASSUME NEW s \in Streams, LoseStream(s) PROVE TypeOK'
  BY <1>3 DEF LoseStream
<1>4. CASE Revoke
  BY <1>4 DEF Revoke, Spend
<1>5. CASE FindRevoked
  BY <1>5 DEF FindRevoked
<1>6. CASE DeleteNode
  BY <1>6 DEF DeleteNode
<1>7. CASE PlaneRestarts
  BY <1>7 DEF PlaneRestarts, Spend
<1>8. CASE UNCHANGED vars
  BY <1>8 DEF vars
<1> QED
  BY <1>1, <1>2, <1>3, <1>4, <1>5, <1>6, <1>7, <1>8 DEF Next

\* The state of the registry, the handlers and the row is always well typed.
THEOREM RegistryTypes == Spec => []TypeOK
<1>1. Init => TypeOK
  BY RegistryAssumption DEF Init, TypeOK, NodeStatus, Stage
<1> QED
  BY <1>1, TypeStep, PTL DEF Spec

\* A step leaves the registered connection as it is, removes it, or registers the
\* one that was made in this step.
LEMMA ServedStep == TypeOK /\ RegisteredIsServed /\ [Next]_vars => RegisteredIsServed'
<1> SUFFICES ASSUME TypeOK, RegisteredIsServed, [Next]_vars PROVE RegisteredIsServed'
  OBVIOUS
<1> USE RegistryAssumption DEF TypeOK, RegisteredIsServed, Serving, Stage, Goto
<1>1. ASSUME NEW s \in Streams, Lookup(s) PROVE RegisteredIsServed'
  BY <1>1 DEF Lookup
<1>2. ASSUME NEW s \in Streams, ConnectStep(s) PROVE RegisteredIsServed'
  <2>1. CASE Register(s)
    BY <2>1 DEF Register
  <2>2. CASE Hello(s)
    BY <2>2 DEF Hello
  <2>3. CASE HelloFails(s)
    BY <2>3 DEF HelloFails
  <2>4. CASE AckHello(s)
    BY <2>4 DEF AckHello
  <2>5. CASE Select(s)
    BY <2>5 DEF Select
  <2>6. CASE HandleMessage(s)
    BY <2>6 DEF HandleMessage
  <2>7. CASE RecvFails(s)
    BY <2>7 DEF RecvFails
  <2>8. CASE MarkDisconnected(s)
    BY <2>8 DEF MarkDisconnected
  <2>9. CASE Unregister(s)
    BY <2>9 DEF Unregister
  <2> QED
    BY <1>2, <2>1, <2>2, <2>3, <2>4, <2>5, <2>6, <2>7, <2>8, <2>9 DEF ConnectStep
<1>3. ASSUME NEW s \in Streams, LoseStream(s) PROVE RegisteredIsServed'
  BY <1>3 DEF LoseStream
<1>4. CASE Revoke
  BY <1>4 DEF Revoke
<1>5. CASE FindRevoked
  BY <1>5 DEF FindRevoked
<1>6. CASE DeleteNode
  BY <1>6 DEF DeleteNode
<1>7. CASE PlaneRestarts
  BY <1>7 DEF PlaneRestarts
<1>8. CASE UNCHANGED vars
  BY <1>8 DEF vars
<1> QED
  BY <1>1, <1>2, <1>3, <1>4, <1>5, <1>6, <1>7, <1>8 DEF Next

\* The registry hands out only connections whose handler is at work and whose done
\* channel is open: Unregister never closes a channel twice.
THEOREM RegistryIsServed == Spec => []RegisteredIsServed
<1>1. Init => RegisteredIsServed
  BY DEF Init, RegisteredIsServed
<1> QED
  BY <1>1, RegistryTypes, ServedStep, PTL DEF Spec
=============================================================================
