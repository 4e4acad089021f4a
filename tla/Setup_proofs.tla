------------------------------ MODULE Setup_proofs ------------------------------
(***************************************************************************)
(* Theorems about Setup, for every value of its constants.                 *)
(***************************************************************************)
EXTENDS Setup, TLAPS

LEMMA InitType == Init => TypeOK
  BY DEF Init, TypeOK, Files

LEMMA StepType == TypeOK /\ [Next]_vars => TypeOK'
<1> SUFFICES ASSUME TypeOK, [Next]_vars PROVE TypeOK'
  OBVIOUS
<1> USE DEF TypeOK
<1>1. ASSUME NEW option \in Passwords \cup {Unset}, Run(option) PROVE TypeOK'
  <2>1. postgresAppPassword' \in Passwords
    BY <1>1 DEF Run, passApp
  <2> QED
    BY <1>1, <2>1 DEF Run, dockerVars, keyVars
<1>2. ASSUME NEW f \in Files, writeEjsTemplate(f) PROVE TypeOK'
  BY <1>2 DEF writeEjsTemplate, dockerVars, keyVars
<1>3. CASE ComposeUp
  <2>1. file["postgres.env"] \in Passwords \cup {Unset}
    BY DEF Files
  <2>2. /\ container' \in {"absent", "initialising", "up"}
        /\ container_env' \in Passwords \cup {Unset}
        /\ volume' \in Passwords \cup {Unset, "part"}
    BY <1>3, <2>1 DEF ComposeUp, dockerVars
  <2> QED
    BY <1>3, <2>2 DEF ComposeUp, keyVars
<1>4. CASE InitDb
  BY <1>4 DEF InitDb, keyVars
<1>5. CASE GenerateKey
  BY <1>5 DEF GenerateKey, dockerVars
<1>6. CASE PublishKey
  BY <1>6 DEF PublishKey, dockerVars
<1>7. CASE Migrate
  BY <1>7 DEF Migrate, dockerVars, keyVars
<1>8. CASE Stop
  BY <1>8 DEF Stop, dockerVars, keyVars
<1>9. CASE UNCHANGED vars
  BY <1>9 DEF vars
<1> QED
  BY <1>1, <1>2, <1>3, <1>4, <1>5, <1>6, <1>7, <1>8, <1>9 DEF Next

(* Whatever runs are interrupted and repeated, every state of the setup is *)
(* well typed.                                                             *)
THEOREM SetupTypeCorrect == Spec => []TypeOK
<1> QED
  BY InitType, StepType, PTL DEF Spec
-----------------------------------------------------------------------------
(* A key file is written once, and published from what was written.        *)
KeyInv ==
  /\ publicKey \in {Unset, "part", signingKey}
  /\ signingKey = Unset => publicKey = Unset
  /\ step \in {"publish", "migrate", "done"} => signingKey # Unset

LEMMA StepKey == KeyInv /\ [Next]_vars => KeyInv'
<1> SUFFICES ASSUME KeyInv, [Next]_vars PROVE KeyInv'
  OBVIOUS
<1> USE DEF KeyInv
<1>1. CASE GenerateKey
  BY <1>1, SetupAssumption DEF GenerateKey
<1>2. CASE PublishKey
  BY <1>2, SetupAssumption DEF PublishKey
<1>3. ASSUME \/ \E option \in Passwords \cup {Unset} : Run(option)
             \/ \E f \in Files : writeEjsTemplate(f)
             \/ ComposeUp \/ InitDb \/ Migrate \/ Stop
      PROVE  KeyInv'
  BY <1>3 DEF Run, writeEjsTemplate, ComposeUp, InitDb, Migrate, Stop, keyVars
<1>4. CASE UNCHANGED vars
  BY <1>4 DEF vars
<1> QED
  BY <1>1, <1>2, <1>3, <1>4 DEF Next

(* No history of interrupted and repeated runs publishes a key other than  *)
(* the signing key's.  KeyInv is inductive: a signing key that is there is *)
(* never made again, so what was published from it stays its own.          *)
THEOREM SetupKeysMatch == Spec => []KeysMatch
<1>1. Init => KeyInv
  BY DEF Init, KeyInv
<1>2. KeyInv => KeysMatch
  BY SetupAssumption DEF KeyInv, KeysMatch
<1> QED
  BY <1>1, <1>2, StepKey, PTL DEF Spec
=============================================================================
