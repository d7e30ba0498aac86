-------------------------- MODULE BootstrapProofs --------------------------
(***************************************************************************)
(* Proofs about Bootstrap, for every value of its constants.               *)
(***************************************************************************)
EXTENDS Bootstrap, TLAPS

\* The inductive invariant holds in the initial states.
LEMMA InitIInv == Init => IInv
BY BootstrapAssumption
DEF Init, IInv, TypeOK, OwnToken, OwnAllTheWay, EmptyHasCause, EmptyAllTheWay, Costly, TokenIsKept, KeptOnTheWay, Here, Tokens, Calls

\* Every call keeps it.
LEMMA NextIInv == IInv /\ [Next]_vars => IInv'
<1> SUFFICES ASSUME IInv, [Next]_vars PROVE IInv'
  OBVIOUS
<1> USE BootstrapAssumption DEF Here, Tokens, Calls, api, bounds
\* The handler is called: it holds nothing yet.
<1>1. CASE \E p \in Pods : Handle(p)
  <2>1. TypeOK'
    BY <1>1 DEF IInv, TypeOK, Handle
  <2>2. (OwnToken /\ OwnAllTheWay)'
    BY <1>1 DEF IInv, OwnToken, OwnAllTheWay, TypeOK, Handle
  <2>3. (EmptyHasCause /\ EmptyAllTheWay)'
    BY <1>1 DEF IInv, EmptyHasCause, EmptyAllTheWay, Costly, TypeOK, OwnAllTheWay, Handle
  <2>4. (TokenIsKept /\ KeptOnTheWay)'
    BY <1>1 DEF IInv, TokenIsKept, KeptOnTheWay, OwnAllTheWay, TypeOK, Handle
  <2> QED
    BY <2>1, <2>2, <2>3, <2>4 DEF IInv
\* What it finds is the namespace's own; what it does not find, although it is there, has cost a failure.
<1>2. CASE GetSecret
  <2>1. TypeOK'
    BY <1>2 DEF IInv, TypeOK, GetSecret, Then, Fault
  <2>2. (OwnToken /\ OwnAllTheWay)'
    BY <1>2 DEF IInv, OwnToken, OwnAllTheWay, TypeOK, GetSecret, Then, Fault
  <2>3. (EmptyHasCause /\ EmptyAllTheWay)'
    BY <1>2 DEF IInv, EmptyHasCause, EmptyAllTheWay, Costly, TypeOK, OwnAllTheWay, GetSecret, Then, Fault
  <2>4. (TokenIsKept /\ KeptOnTheWay)'
    BY <1>2 DEF IInv, TokenIsKept, KeptOnTheWay, OwnAllTheWay, TypeOK, GetSecret, Then, Fault
  <2> QED
    BY <2>1, <2>2, <2>3, <2>4 DEF IInv
\* The account is there now, or its creation has failed.
<1>3. CASE CreateAccount
  <2>1. TypeOK'
    BY <1>3 DEF IInv, TypeOK, CreateAccount, Then, Fault
  <2>2. (OwnToken /\ OwnAllTheWay)'
    BY <1>3 DEF IInv, OwnToken, OwnAllTheWay, TypeOK, CreateAccount, Then, Fault
  <2>3. (EmptyHasCause /\ EmptyAllTheWay)'
    BY <1>3 DEF IInv, EmptyHasCause, EmptyAllTheWay, Costly, TypeOK, OwnAllTheWay, CreateAccount, Then, Fault
  <2>4. (TokenIsKept /\ KeptOnTheWay)'
    BY <1>3 DEF IInv, TokenIsKept, KeptOnTheWay, OwnAllTheWay, TypeOK, CreateAccount, Then, Fault
  <2> QED
    BY <2>1, <2>2, <2>3, <2>4 DEF IInv
\* There is a role from now on, or its binding has failed.
<1>4. CASE CreateBinding
  <2>1. TypeOK'
    BY <1>4 DEF IInv, TypeOK, CreateBinding, Then, Fault
  <2>2. (OwnToken /\ OwnAllTheWay)'
    BY <1>4 DEF IInv, OwnToken, OwnAllTheWay, TypeOK, CreateBinding, Then, Fault
  <2>3. (EmptyHasCause /\ EmptyAllTheWay)'
    BY <1>4 DEF IInv, EmptyHasCause, EmptyAllTheWay, Costly, TypeOK, OwnAllTheWay, CreateBinding, Then, Fault
  <2>4. (TokenIsKept /\ KeptOnTheWay)'
    BY <1>4 DEF IInv, TokenIsKept, KeptOnTheWay, OwnAllTheWay, TypeOK, CreateBinding, Then, Fault
  <2> QED
    BY <2>1, <2>2, <2>3, <2>4 DEF IInv
\* The token is this namespace's, or empty for want of an account.
<1>5. CASE CreateToken
  <2>1. TypeOK'
    BY <1>5 DEF IInv, TypeOK, CreateToken, Then, Fault, Issued
  <2>2. (OwnToken /\ OwnAllTheWay)'
    BY <1>5 DEF IInv, OwnToken, OwnAllTheWay, TypeOK, CreateToken, Then, Fault, Issued
  <2>3. (EmptyHasCause /\ EmptyAllTheWay)'
    BY <1>5 DEF IInv, EmptyHasCause, EmptyAllTheWay, Costly, TypeOK, OwnAllTheWay, CreateToken, Then, Fault, Issued
  <2>4. (TokenIsKept /\ KeptOnTheWay)'
    BY <1>5 DEF IInv, TokenIsKept, KeptOnTheWay, OwnAllTheWay, TypeOK, CreateToken, Then, Fault, Issued
  <2> QED
    BY <2>1, <2>2, <2>3, <2>4 DEF IInv
\* A secret that is there already means that the look for it has failed.
<1>6. CASE CreateSecret
  <2>1. TypeOK'
    BY <1>6 DEF IInv, TypeOK, CreateSecret, Then, Fault
  <2>2. (OwnToken /\ OwnAllTheWay)'
    BY <1>6 DEF IInv, OwnToken, OwnAllTheWay, TypeOK, CreateSecret, Then, Fault
  <2>3. (EmptyHasCause /\ EmptyAllTheWay)'
    BY <1>6 DEF IInv, EmptyHasCause, EmptyAllTheWay, Costly, TypeOK, OwnAllTheWay, CreateSecret, Then, Fault
  <2>4. (TokenIsKept /\ KeptOnTheWay)'
    BY <1>6 DEF IInv, TokenIsKept, KeptOnTheWay, OwnAllTheWay, TypeOK, CreateSecret, Then, Fault
  <2> QED
    BY <2>1, <2>2, <2>3, <2>4 DEF IInv
\* The token goes to this pod, and to no other.
<1>7. CASE LoadSecret
  <2>1. TypeOK'
    <3>1. token' \in Tokens /\ pod \in Pods
      BY <1>7 DEF IInv, TypeOK, LoadSecret, TokenFrom
    <3>2. loaded' \in [Pods -> Tokens \cup {None}]
      <4>1. CASE loaded' = [loaded EXCEPT ![pod] = token']
        BY <4>1, <3>1 DEF IInv, TypeOK
      <4>2. CASE loaded' = loaded
        BY <4>2 DEF IInv, TypeOK
      <4> QED
        BY <1>7, <4>1, <4>2 DEF LoadSecret
    <3>3. faults' \in 0 .. MaxFaults /\ failed' \subseteq Faults
      <4>1. UNCHANGED bounds \/ Fault("load")
        BY <1>7 DEF LoadSecret
      <4>2. faults \in 0 .. MaxFaults /\ failed \subseteq Faults
        BY DEF IInv, TypeOK
      <4>3. CASE UNCHANGED bounds
        BY <4>2, <4>3
      <4>4. CASE Fault("load")
        BY <4>2, <4>4 DEF Fault
      <4> QED
        BY <4>1, <4>3, <4>4
    <3>4. at' = "idle" /\ got' = Empty /\ UNCHANGED <<account, binding, secret, pod>>
      BY <1>7 DEF LoadSecret
    <3> QED
      BY <3>1, <3>2, <3>3, <3>4 DEF IInv, TypeOK
  <2>2. (OwnToken /\ OwnAllTheWay)'
    BY <1>7 DEF IInv, OwnToken, OwnAllTheWay, TypeOK, LoadSecret, TokenFrom, Fault
  <2>3. (EmptyHasCause /\ EmptyAllTheWay)'
    BY <1>7 DEF IInv, EmptyHasCause, EmptyAllTheWay, Costly, TypeOK, OwnAllTheWay, LoadSecret, TokenFrom, Fault
  <2>4. (TokenIsKept /\ KeptOnTheWay)'
    BY <1>7 DEF IInv, TokenIsKept, KeptOnTheWay, OwnAllTheWay, TypeOK, LoadSecret, TokenFrom, Fault
  <2> QED
    BY <2>1, <2>2, <2>3, <2>4 DEF IInv
\* A crash empties the hand.
<1>8. CASE Crash
  <2>1. TypeOK'
    BY <1>8 DEF IInv, TypeOK, Crash, Fault
  <2>2. (OwnToken /\ OwnAllTheWay)'
    BY <1>8 DEF IInv, OwnToken, OwnAllTheWay, TypeOK, Crash, Fault
  <2>3. (EmptyHasCause /\ EmptyAllTheWay)'
    BY <1>8 DEF IInv, EmptyHasCause, EmptyAllTheWay, Costly, TypeOK, OwnAllTheWay, Crash, Fault
  <2>4. (TokenIsKept /\ KeptOnTheWay)'
    BY <1>8 DEF IInv, TokenIsKept, KeptOnTheWay, OwnAllTheWay, TypeOK, Crash, Fault
  <2> QED
    BY <2>1, <2>2, <2>3, <2>4 DEF IInv
<1>9. CASE UNCHANGED vars
  <2>1. TypeOK'
    BY <1>9 DEF IInv, TypeOK, vars
  <2>2. (OwnToken /\ OwnAllTheWay)'
    BY <1>9 DEF IInv, OwnToken, OwnAllTheWay, TypeOK, vars
  <2>3. (EmptyHasCause /\ EmptyAllTheWay)'
    BY <1>9 DEF IInv, EmptyHasCause, EmptyAllTheWay, Costly, TypeOK, OwnAllTheWay, vars
  <2>4. (TokenIsKept /\ KeptOnTheWay)'
    BY <1>9 DEF IInv, TokenIsKept, KeptOnTheWay, OwnAllTheWay, TypeOK, vars
  <2> QED
    BY <2>1, <2>2, <2>3, <2>4 DEF IInv
<1> QED
  BY <1>1, <1>2, <1>3, <1>4, <1>5, <1>6, <1>7, <1>8, <1>9 DEF Next

\* The watcher's state and the API server's keep their types, for any number
\* of namespaces, pods and failures (checkSecretExists, loadSecret).
THEOREM BootstrapTypeCorrect == Spec => []TypeOK
<1>1. IInv => TypeOK
  BY DEF IInv
<1> QED
  BY InitIInv, NextIInv, <1>1, PTL DEF Spec

\* No pod is handed another namespace's token, whatever fails or crashes.
THEOREM OwnTokenAlways == Spec => []OwnToken
<1>1. IInv => OwnToken
  BY DEF IInv
<1> QED
  BY InitIInv, NextIInv, <1>1, PTL DEF Spec

\* A pod without a token has a failed call to show for it.
THEOREM EmptyAlwaysHasCause == Spec => []EmptyHasCause
<1>1. IInv => EmptyHasCause
  BY DEF IInv
<1> QED
  BY InitIInv, NextIInv, <1>1, PTL DEF Spec

\* A pod's token is the one in the secret of its namespace: what could not be kept
\* there is handed to nobody.
THEOREM TokenAlwaysKept == Spec => []TokenIsKept
<1>1. IInv => TokenIsKept
  BY DEF IInv
<1> QED
  BY InitIInv, NextIInv, <1>1, PTL DEF Spec
=============================================================================
