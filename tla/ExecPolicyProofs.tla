--------------------------- MODULE ExecPolicyProofs ---------------------------
(***************************************************************************)
(* Proofs about ExecPolicy: what Match decides is what the format of the   *)
(* policy file means, and every decision is one the file gave at some      *)
(* instant since its handler looked, for any number of handlers and edits. *)
(***************************************************************************)
EXTENDS ExecPolicy, TLAPS

-----------------------------------------------------------------------------
(* A pattern ends in a wildcard exactly when it is a sequence of words with *)
(* one appended.                                                            *)
LEMMA LastWord ==
  ASSUME NEW p \in Seq(STRING), p # <<>>
  PROVE  /\ Len(p) \in Nat \ {0}
         /\ p = Append(SubSeq(p, 1, Len(p) - 1), p[Len(p)])
OBVIOUS

(* Appending a word keeps what was there.                                  *)
LEMMA FrontOfAppend ==
  ASSUME NEW s \in Seq(STRING), NEW w \in STRING
  PROVE  SubSeq(Append(s, w), 1, Len(s)) = s
OBVIOUS

(* What matchArgv accepts: the whole command, or a prefix and a wildcard.  *)
LEMMA ArgvMeans ==
  ASSUME NEW p \in Seq(STRING), NEW a \in Seq(STRING), a # <<>>
  PROVE  matchArgv(p, a) <=>
           p = a \/ \E n \in 0..Len(a) : Append(SubSeq(a, 1, n), Wildcard) = p
<1>1. CASE p = <<>>
  BY <1>1 DEF matchArgv
<1>2. CASE p # <<>> /\ p[Len(p)] = Wildcard
  <2> DEFINE k == Len(p) - 1
  <2>1. k \in Nat /\ p = Append(SubSeq(p, 1, k), Wildcard)
    BY <1>2, LastWord
  <2>2. matchArgv(p, a) <=> k <= Len(a) /\ SubSeq(p, 1, k) = SubSeq(a, 1, k)
    BY <1>2 DEF matchArgv
  <2>3. matchArgv(p, a) => \E n \in 0..Len(a) : Append(SubSeq(a, 1, n), Wildcard) = p
    BY <2>1, <2>2
  <2>4. ASSUME NEW n \in 0..Len(a), Append(SubSeq(a, 1, n), Wildcard) = p
        PROVE  matchArgv(p, a)
    <3>1. n = k
      BY <2>1, <2>4
    <3>2. SubSeq(p, 1, k) = SubSeq(a, 1, k)
      <4>1. SubSeq(a, 1, n) \in Seq(STRING) /\ Len(SubSeq(a, 1, n)) = n
        OBVIOUS
      <4>2. SubSeq(p, 1, n) = SubSeq(a, 1, n)
        BY <2>4, <4>1, FrontOfAppend DEF Wildcard
      <4> QED BY <3>1, <4>2
    <3> QED BY <2>2, <3>1, <3>2
  <2>5. p = a => matchArgv(p, a)
    BY <2>1, <2>2
  <2> QED BY <2>3, <2>4, <2>5
<1>3. CASE p # <<>> /\ p[Len(p)] # Wildcard
  <2>1. matchArgv(p, a) <=> Len(a) = Len(p) /\ SubSeq(p, 1, Len(p)) = SubSeq(a, 1, Len(p))
    BY <1>3 DEF matchArgv
  <2>2. SubSeq(p, 1, Len(p)) = p /\ SubSeq(a, 1, Len(a)) = a
    OBVIOUS
  <2>3. ASSUME NEW n \in 0..Len(a), Append(SubSeq(a, 1, n), Wildcard) = p
        PROVE  FALSE
    <3>1. Len(p) = n + 1 /\ p[n + 1] = Wildcard
      BY <2>3
    <3> QED BY <1>3, <3>1
  <2> QED BY <2>1, <2>2, <2>3
<1> QED BY <1>1, <1>2, <1>3

(* A list of patterns accepts the commands it stands for.                  *)
LEMMA AnyArgvMeans ==
  ASSUME NEW ps \in Patterns, NEW a \in Argvs
  PROVE  matchAnyArgv(ps, a) <=> a \in Commands(ps)
<1>1. a \in Seq(STRING) /\ a # <<>>
  BY ExecPolicyAssumption
<1>2. \A q \in ps : matchArgv(q, a) <=>
        q = a \/ \E n \in 0..Len(a) : Append(SubSeq(a, 1, n), Wildcard) = q
  BY <1>1, ArgvMeans DEF Patterns
<1>3. a \in Commands(ps) <=>
        a \in ps \/ \E n \in 0..Len(a) : Append(SubSeq(a, 1, n), Wildcard) \in ps
  BY DEF Commands
<1> QED BY <1>2, <1>3 DEF matchAnyArgv

(* Match decides what the format of the file means: denials first, over    *)
(* all the rules of the workspace, and then permissions.                   *)
THEOREM MatchMeans ==
  ASSUME NEW c \in Policies, NEW a \in Argvs
  PROVE  Match(c, a) <=> Grants(c, a)
<1>1. \A i \in DOMAIN c : c[i].deny \in Patterns /\ c[i].allow \in Patterns
  <2>1. c \in Seq(PolicyRule)
    BY ExecPolicyAssumption
  <2>2. \A i \in DOMAIN c : c[i] \in PolicyRule
    BY <2>1
  <2> QED BY <2>2 DEF PolicyRule
<1>2. \A i \in DOMAIN c :
        /\ matchAnyArgv(c[i].deny, a) <=> a \in Commands(c[i].deny)
        /\ matchAnyArgv(c[i].allow, a) <=> a \in Commands(c[i].allow)
  BY <1>1, AnyArgvMeans
<1> DEFINE here == {i \in DOMAIN c : matchWorkspace(c[i].workspace)}
<1>3. Match(c, a) <=> /\ \A i \in here : a \notin Commands(c[i].deny)
                      /\ \E i \in here : a \in Commands(c[i].allow)
  BY <1>2 DEF Match
<1>4. Grants(c, a) <=> /\ \A i \in here : a \notin Commands(c[i].deny)
                       /\ \E i \in here : a \in Commands(c[i].allow)
  <2> DEFINE rules == {c[i] : i \in DOMAIN c}
             mine == {rule \in rules : rule.workspace \in {"", Wildcard, Workspace}}
  <2>1. Grants(c, a) <=> /\ a \in UNION {Commands(rule.allow) : rule \in mine}
                         /\ a \notin UNION {Commands(rule.deny) : rule \in mine}
    BY DEF Grants
  <2>2. mine = {c[i] : i \in here}
    BY DEF matchWorkspace
  <2> HIDE DEF mine
  <2>3. a \in UNION {Commands(rule.allow) : rule \in mine}
          <=> \E i \in here : a \in Commands(c[i].allow)
    BY <2>2
  <2>4. a \in UNION {Commands(rule.deny) : rule \in mine}
          <=> \E i \in here : a \in Commands(c[i].deny)
    BY <2>2
  <2> QED BY <2>1, <2>3, <2>4
<1> QED BY <1>3, <1>4

-----------------------------------------------------------------------------
(* The invariant.                                                          *)

(* Stats are of the past, and what was cached or read under the stat the   *)
(* file still has is the file.                                             *)
Fresh ==
  /\ stat <= writes
  /\ cur # None /\ stat = writes => cur = file
  /\ \A h \in Handlers : /\ seen[h] <= writes
                         /\ pc[h] = "store" => data[h] \in Policies
                         /\ pc[h] = "store" /\ seen[h] = writes => data[h] = file

(* While a handler decides, the file itself, the cache under the stat it   *)
(* has taken, and whatever another handler is about to store under that    *)
(* stat, are all things the file has said since.                           *)
Accounted ==
  \A h \in Handlers : pc[h] \in Deciding =>
    /\ Grants(file, argv[h]) \in verdicts[h]
    /\ cur # None /\ stat = seen[h] => Grants(cur, argv[h]) \in verdicts[h]
    /\ \A g \in Handlers : pc[g] = "store" /\ seen[g] = seen[h]
                             => Grants(data[g], argv[h]) \in verdicts[h]

IInv == TypeOK /\ Fresh /\ Accounted /\ DecisionEarned

(* Nothing is granted by a file that is missing or does not parse.         *)
LEMMA NoPolicyGrantsNothing ==
  ASSUME NEW c \in {None, Broken}, NEW a
  PROVE  Grants(c, a) = FALSE
BY ExecPolicyAssumption DEF Grants

(* A verdict is a truth value.                                             *)
LEMMA VerdictIsBoolean ==
  ASSUME NEW c, NEW a
  PROVE  Grants(c, a) \in BOOLEAN
BY DEF Grants

(* Deciding by a policy that is accounted for earns the decision.          *)
LEMMA DecidesEarned ==
  ASSUME TypeOK, NEW h \in Handlers, NEW c \in Policies, Decides(h, c),
         Grants(c, argv[h]) \in verdicts[h]
  PROVE  /\ pc' \in [Handlers -> {"idle", "allowed", "denied"} \cup Deciding]
         /\ pc'[h] \in {"allowed", "denied"}
         /\ pc'[h] = "allowed" => TRUE \in verdicts[h]
         /\ pc'[h] = "denied" => FALSE \in verdicts[h]
         /\ \A g \in Handlers \ {h} : pc'[g] = pc[g]
<1>1. Match(c, argv[h]) <=> Grants(c, argv[h])
  BY MatchMeans DEF TypeOK
<1>2. Grants(c, argv[h]) \in BOOLEAN
  BY VerdictIsBoolean
<1>3. CASE Grants(c, argv[h])
  <2>1. pc' = [pc EXCEPT ![h] = "allowed"]
    BY <1>1, <1>3 DEF Decides
  <2>2. Grants(c, argv[h]) = TRUE
    BY <1>2, <1>3
  <2>3. TRUE \in verdicts[h]
    BY <2>2
  <2> QED BY <2>1, <2>3 DEF TypeOK
<1>4. CASE ~Grants(c, argv[h])
  <2>1. pc' = [pc EXCEPT ![h] = "denied"]
    BY <1>1, <1>4 DEF Decides
  <2>2. Grants(c, argv[h]) = FALSE
    BY <1>2, <1>4
  <2>3. FALSE \in verdicts[h]
    BY <2>2
  <2> QED BY <2>1, <2>3 DEF TypeOK
<1> QED BY <1>3, <1>4

(* Every step of the Loader and of the user keeps the invariant.           *)
LEMMA InitInductive == Init => IInv
BY NoPolicyGrantsNothing, ExecPolicyAssumption
   DEF Init, IInv, TypeOK, Files, Fresh, Accounted, DecisionEarned, Deciding

LEMMA WriteInductive ==
  ASSUME IInv, NEW content \in Files, Write(content)
  PROVE  IInv'
<1> USE DEF Write
<1>1. \A h \in Handlers : verdicts[h] \subseteq verdicts'[h]
  BY DEF IInv, TypeOK
<1>2. TypeOK'
  <2>1. \A h \in Handlers : Grants(content, argv[h]) \in BOOLEAN
    BY VerdictIsBoolean
  <2>2. verdicts' \in [Handlers -> SUBSET BOOLEAN]
    BY <2>1 DEF IInv, TypeOK
  <2> QED BY <2>2, ExecPolicyAssumption DEF IInv, TypeOK
<1>3. Fresh'
  BY DEF IInv, TypeOK, Fresh
<1>4. Accounted'
  <2> SUFFICES ASSUME NEW h \in Handlers, pc[h] \in Deciding
               PROVE  Accounted!(h)'
    BY DEF Accounted
  <2>1. Grants(content, argv[h]) \in verdicts'[h]
    BY DEF IInv, TypeOK
  <2> QED BY <1>1, <2>1 DEF IInv, Accounted
<1>5. DecisionEarned'
  BY <1>1 DEF IInv, DecisionEarned
<1> QED BY <1>2, <1>3, <1>4, <1>5 DEF IInv

LEMMA StatInductive ==
  ASSUME IInv, NEW h \in Handlers, Stat(h)
  PROVE  IInv'
<1>1. PICK a \in Argvs : /\ argv' = [argv EXCEPT ![h] = a]
                         /\ verdicts' = [verdicts EXCEPT ![h] = {Grants(file, a)}]
  BY DEF Stat
<1>2. Grants(file, a) \in BOOLEAN
  BY VerdictIsBoolean
<1>3. /\ argv' \in [Handlers -> Argvs] /\ verdicts' \in [Handlers -> SUBSET BOOLEAN]
      /\ argv'[h] = a /\ verdicts'[h] = {Grants(file, a)}
      /\ \A g \in Handlers \ {h} : argv'[g] = argv[g] /\ verdicts'[g] = verdicts[g]
  BY <1>1, <1>2 DEF IInv, TypeOK
<1>4. CASE file = None
  <2>1. /\ cur' = None /\ stat' = 0 /\ pc' = [pc EXCEPT ![h] = "denied"]
        /\ UNCHANGED <<file, writes, seen, data>>
    BY <1>4 DEF Stat
  <2>2. Grants(file, a) = FALSE
    BY <1>4, NoPolicyGrantsNothing
  <2>3. TypeOK'
    BY <1>3, <2>1, ExecPolicyAssumption DEF IInv, TypeOK
  <2>4. Fresh'
    BY <2>1 DEF IInv, TypeOK, Fresh
  <2>5. Accounted'
    BY <1>3, <2>1 DEF IInv, TypeOK, Accounted, Deciding
  <2>6. DecisionEarned'
    BY <1>3, <2>1, <2>2 DEF IInv, TypeOK, DecisionEarned
  <2> QED BY <2>3, <2>4, <2>5, <2>6 DEF IInv
<1>5. CASE file # None
  <2>1. /\ seen' = [seen EXCEPT ![h] = writes] /\ pc' = [pc EXCEPT ![h] = "check"]
        /\ UNCHANGED <<cur, stat, file, writes, data>>
    BY <1>5 DEF Stat
  <2>2. TypeOK'
    BY <1>3, <2>1 DEF IInv, TypeOK, Deciding
  <2>3. Fresh'
    BY <2>1 DEF IInv, TypeOK, Fresh
  <2>4. Accounted'
    <3>1. Accounted!(h)'
      BY <1>3, <2>1 DEF IInv, TypeOK, Fresh
    <3>2. ASSUME NEW g \in Handlers \ {h} PROVE Accounted!(g)'
      BY <1>3, <2>1 DEF IInv, TypeOK, Accounted
    <3> QED BY <3>1, <3>2 DEF Accounted
  <2>5. DecisionEarned'
    BY <1>3, <2>1 DEF IInv, TypeOK, DecisionEarned
  <2> QED BY <2>2, <2>3, <2>4, <2>5 DEF IInv
<1> QED BY <1>4, <1>5

LEMMA CheckInductive ==
  ASSUME IInv, NEW h \in Handlers, Check(h)
  PROVE  IInv'
<1>1. pc[h] \in Deciding /\ UNCHANGED <<file, writes, cur, stat, argv, seen, data, verdicts>>
  BY DEF Check, Deciding
<1>2. CASE cur # None /\ stat = seen[h]
  <2>1. Decides(h, cur) /\ cur \in Policies
    BY <1>2 DEF Check, IInv, TypeOK
  <2>2. Grants(cur, argv[h]) \in verdicts[h]
    BY <1>1, <1>2 DEF IInv, Accounted
  <2>3. /\ pc' \in [Handlers -> {"idle", "allowed", "denied"} \cup Deciding]
        /\ pc'[h] \in {"allowed", "denied"}
        /\ pc'[h] = "allowed" => TRUE \in verdicts[h]
        /\ pc'[h] = "denied" => FALSE \in verdicts[h]
        /\ \A g \in Handlers \ {h} : pc'[g] = pc[g]
    BY <2>1, <2>2, DecidesEarned DEF IInv
  <2> QED BY <1>1, <2>3 DEF IInv, TypeOK, Fresh, Accounted, DecisionEarned, Deciding
<1>3. CASE ~(cur # None /\ stat = seen[h])
  <2>1. pc' = [pc EXCEPT ![h] = "read"]
    BY <1>3 DEF Check
  <2> QED BY <1>1, <2>1 DEF IInv, TypeOK, Fresh, Accounted, DecisionEarned, Deciding
<1> QED BY <1>2, <1>3

LEMMA ReadInductive ==
  ASSUME IInv, NEW h \in Handlers, Read(h)
  PROVE  IInv'
<1>1. pc[h] = "read" /\ UNCHANGED <<file, writes, argv, seen, verdicts>>
  BY DEF Read
<1>2. Grants(file, argv[h]) \in verdicts[h]
  BY <1>1 DEF IInv, Accounted, Deciding
<1>3. CASE file \in {None, Broken}
  <2>1. cur' = None /\ stat' = 0 /\ pc' = [pc EXCEPT ![h] = "denied"] /\ UNCHANGED data
    BY <1>3 DEF Read
  <2>2. FALSE \in verdicts[h]
    BY <1>2, <1>3, NoPolicyGrantsNothing
  <2>3. TypeOK'
    BY <1>1, <2>1, ExecPolicyAssumption DEF IInv, TypeOK
  <2>5. Fresh'
    BY <1>1, <2>1 DEF IInv, TypeOK, Fresh
  <2>6. DecisionEarned'
    BY <1>1, <2>1, <2>2 DEF IInv, TypeOK, DecisionEarned
  <2>4. Accounted'
    BY <1>1, <2>1 DEF IInv, TypeOK, Accounted, Deciding
  <2> QED BY <2>3, <2>4, <2>5, <2>6 DEF IInv
<1>4. CASE file \notin {None, Broken}
  <2>1. /\ data' = [data EXCEPT ![h] = file] /\ pc' = [pc EXCEPT ![h] = "store"]
        /\ UNCHANGED <<cur, stat>>
    BY <1>4 DEF Read
  <2>2. file \in Policies
    BY <1>4 DEF IInv, TypeOK, Files
  <2>3. TypeOK' /\ Fresh' /\ DecisionEarned'
    BY <1>1, <2>1, <2>2 DEF IInv, TypeOK, Fresh, DecisionEarned, Deciding
  <2>4. Accounted'
    BY <1>1, <2>1 DEF IInv, TypeOK, Accounted, Deciding
  <2> QED BY <2>3, <2>4 DEF IInv
<1> QED BY <1>3, <1>4

LEMMA StoreInductive ==
  ASSUME IInv, NEW h \in Handlers, Store(h)
  PROVE  IInv'
<1>1. /\ pc[h] = "store" /\ cur' = data[h] /\ stat' = seen[h] /\ Decides(h, data[h])
      /\ UNCHANGED <<file, writes, argv, seen, data, verdicts>>
  BY DEF Store
<1>2. data[h] \in Policies /\ Grants(data[h], argv[h]) \in verdicts[h]
  BY <1>1 DEF IInv, Fresh, Accounted, Deciding
<1>3. /\ pc' \in [Handlers -> {"idle", "allowed", "denied"} \cup Deciding]
      /\ pc'[h] \in {"allowed", "denied"}
      /\ pc'[h] = "allowed" => TRUE \in verdicts[h]
      /\ pc'[h] = "denied" => FALSE \in verdicts[h]
      /\ \A g \in Handlers \ {h} : pc'[g] = pc[g]
  BY <1>1, <1>2, DecidesEarned DEF IInv
<1>4. TypeOK' /\ Fresh' /\ DecisionEarned'
  BY <1>1, <1>2, <1>3 DEF IInv, TypeOK, Fresh, DecisionEarned
<1>5. Accounted'
  BY <1>1, <1>3 DEF IInv, TypeOK, Accounted, Deciding
<1> QED BY <1>4, <1>5 DEF IInv

(* The invariant is inductive.                                             *)
THEOREM Inductive == Spec => []IInv
<1>1. ASSUME IInv, [Next]_vars PROVE IInv'
  <2>1. CASE \E content \in Files : Write(content)
    BY <1>1, <2>1, WriteInductive
  <2>2. CASE \E h \in Handlers : Stat(h)
    BY <1>1, <2>2, StatInductive
  <2>3. CASE \E h \in Handlers : Check(h)
    BY <1>1, <2>3, CheckInductive
  <2>4. CASE \E h \in Handlers : Read(h)
    BY <1>1, <2>4, ReadInductive
  <2>5. CASE \E h \in Handlers : Store(h)
    BY <1>1, <2>5, StoreInductive
  <2>6. CASE UNCHANGED vars
    BY <1>1, <2>6 DEF vars, IInv, TypeOK, Fresh, Accounted, DecisionEarned
  <2> QED BY <1>1, <2>1, <2>2, <2>3, <2>4, <2>5, <2>6 DEF Next
<1> QED BY <1>1, InitInductive, PTL DEF Spec

(* Type correctness.                                                       *)
THEOREM TypeCorrect == Spec => []TypeOK
<1>1. IInv => TypeOK
  BY DEF IInv
<1> QED BY <1>1, Inductive, PTL

(* However the steps of the handlers and the user's edits interleave, a    *)
(* command is let through only if the file granted it, and refused only if *)
(* the file refused it, at an instant since its handler took the stat.     *)
THEOREM DecisionsAreEarned == Spec => []DecisionEarned
<1>1. IInv => DecisionEarned
  BY DEF IInv
<1> QED BY <1>1, Inductive, PTL
===============================================================================
