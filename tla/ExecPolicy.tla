------------------------------ MODULE ExecPolicy ------------------------------
(***************************************************************************)
(* The desktop's policy for commands a remote agent asks for: the Loader   *)
(* that caches the policy file, shared by every request handler, and Match,*)
(* the decision.  A handler calls Decide, which stats the file, trusts the *)
(* cache when the stat is the cached one and reads, parses and stores the  *)
(* file otherwise; each of the steps may interleave with those of another  *)
(* handler and with the user's edits of the file.                          *)
(*                                                                         *)
(* A stat is the number of the write that produced the file: two writes    *)
(* are taken to differ in time or size.                                    *)
(***************************************************************************)
EXTENDS Integers, Sequences, FiniteSets

CONSTANTS
  Handlers,      \* requests the desktop decides
  Workspace,     \* the workspace the runner is bound to
  Argvs,         \* commands asked for, each a nonempty sequence of words
  Policies,      \* policies the file may hold: sequences of rules
  MaxWrites,     \* bound: how often the user writes or removes the file
  None,          \* no file, no policy
  Broken         \* a file that does not parse, or is half written

Patterns == SUBSET Seq(STRING)
PolicyRule == [workspace : STRING, deny : Patterns, allow : Patterns]

ASSUME ExecPolicyAssumption ==
  /\ Workspace \in STRING /\ MaxWrites \in Nat
  /\ Argvs \subseteq Seq(STRING) \ {<<>>} /\ Policies \subseteq Seq(PolicyRule)
  /\ None # Broken /\ {None, Broken} \cap Policies = {}

Wildcard == "*"
VARIABLES
  file,          \* the policy file: a policy, Broken or None
  writes,        \* the number of writes so far, which is the file's stat
  cur, stat,     \* the Loader's cache
  pc,            \* where a handler stands in Decide
  argv,          \* the command it decides
  seen,          \* the stat it has taken
  data,          \* the policy it has read
  verdicts       \* history: what the file has said of its command since it
                 \* took the stat

vars == <<file, writes, cur, stat, pc, argv, seen, data, verdicts>>

Files == Policies \cup {Broken, None}
Deciding == {"check", "read", "store"}

TypeOK ==
  /\ file \in Files /\ writes \in 0..MaxWrites
  /\ cur \in Policies \cup {None} /\ stat \in 0..MaxWrites
  /\ pc \in [Handlers -> {"idle", "allowed", "denied"} \cup Deciding]
  /\ argv \in [Handlers -> Argvs] /\ seen \in [Handlers -> 0..MaxWrites]
  /\ data \in [Handlers -> Policies \cup {None}]
  /\ verdicts \in [Handlers -> SUBSET BOOLEAN]

-----------------------------------------------------------------------------
(* Match: a rule names a workspace and patterns of words it denies and     *)
(* allows.                                                                 *)

matchWorkspace(pattern) == pattern \in {"", Wildcard, Workspace}

\* A pattern is the whole command, or with a trailing wildcard a prefix.
matchArgv(pattern, words) ==
  /\ pattern # <<>>
  /\ LET wild == pattern[Len(pattern)] = Wildcard
         literal == IF wild THEN Len(pattern) - 1 ELSE Len(pattern)
     IN /\ IF wild THEN Len(words) >= literal ELSE Len(words) = literal
        /\ SubSeq(pattern, 1, literal) = SubSeq(words, 1, literal)

matchAnyArgv(patterns, words) == \E p \in patterns : matchArgv(p, words)

\* Every rule of the workspace is asked for a denial before any is asked for
\* a permission.
Match(policy, words) ==
  LET here == {i \in DOMAIN policy : matchWorkspace(policy[i].workspace)}
  IN /\ \A i \in here : ~ matchAnyArgv(policy[i].deny, words)
     /\ \E i \in here : matchAnyArgv(policy[i].allow, words)

\* What the format of the file means, for the properties: a pattern stands
\* for a set of commands, and a policy for those its rules of the workspace
\* allow less those they deny.
Commands(patterns) ==
  {a \in Argvs : a \in patterns}
    \cup {a \in Argvs : \E n \in 0..Len(a) : Append(SubSeq(a, 1, n), Wildcard) \in patterns}

Grants(content, words) ==
  /\ content \in Policies
  /\ LET rules == {content[i] : i \in DOMAIN content}
         here  == {rule \in rules : rule.workspace \in {"", Wildcard, Workspace}}
     IN words \in (UNION {Commands(rule.allow) : rule \in here})
                    \ (UNION {Commands(rule.deny) : rule \in here})

-----------------------------------------------------------------------------
Init ==
  /\ file \in Files /\ writes = 0
  /\ cur = None /\ stat = 0
  /\ pc = [h \in Handlers |-> "idle"]
  /\ argv \in {[h \in Handlers |-> a] : a \in Argvs}
  /\ seen = [h \in Handlers |-> 0] /\ data = [h \in Handlers |-> None]
  /\ verdicts = [h \in Handlers |-> {}]

\* The user saves, truncates or removes the file.
Write(content) ==
  /\ writes < MaxWrites /\ content # file
  /\ file' = content /\ writes' = writes + 1
  /\ verdicts' = [h \in Handlers |-> IF pc[h] \in Deciding
                    THEN verdicts[h] \cup {Grants(content, argv[h])} ELSE verdicts[h]]
  /\ UNCHANGED <<cur, stat, pc, argv, seen, data>>

\* Load's first step, the stat.  The cache is cleared when there is no file:
\* a missing file denies everything.
Stat(h) ==
  /\ pc[h] \in {"idle", "allowed", "denied"}
  /\ \E a \in Argvs :
       /\ argv' = [argv EXCEPT ![h] = a]
       /\ verdicts' = [verdicts EXCEPT ![h] = {Grants(file, a)}]
  /\ IF file = None
     THEN /\ cur' = None /\ stat' = 0
          /\ pc' = [pc EXCEPT ![h] = "denied"]
          /\ UNCHANGED seen
     ELSE /\ seen' = [seen EXCEPT ![h] = writes]
          /\ pc' = [pc EXCEPT ![h] = "check"]
          /\ UNCHANGED <<cur, stat>>
  /\ UNCHANGED <<file, writes, data>>

Decides(h, policy) ==
  pc' = [pc EXCEPT ![h] = IF Match(policy, argv[h]) THEN "allowed" ELSE "denied"]

\* The cached policy is used when it was stored under this stat.
Check(h) ==
  /\ pc[h] = "check"
  /\ IF cur # None /\ stat = seen[h]
     THEN Decides(h, cur)
     ELSE pc' = [pc EXCEPT ![h] = "read"]
  /\ UNCHANGED <<file, writes, cur, stat, argv, seen, data, verdicts>>

\* The file is read, and parsed.  Whatever goes wrong clears the cache and
\* denies.
Read(h) ==
  /\ pc[h] = "read"
  /\ IF file \in {None, Broken}
     THEN /\ cur' = None /\ stat' = 0
          /\ pc' = [pc EXCEPT ![h] = "denied"]
          /\ UNCHANGED data
     ELSE /\ data' = [data EXCEPT ![h] = file]
          /\ pc' = [pc EXCEPT ![h] = "store"]
          /\ UNCHANGED <<cur, stat>>
  /\ UNCHANGED <<file, writes, argv, seen, verdicts>>

(* faulty: the policy is stored under a stat taken after the read *)
StoreUnderNewStat(h) ==
  /\ pc[h] = "store"
  /\ cur' = data[h] /\ stat' = writes
  /\ Decides(h, data[h])
  /\ UNCHANGED <<file, writes, argv, seen, data, verdicts>>

\* What was read is cached under the stat taken before it was read, over
\* whatever another handler has stored meanwhile.
Store(h) ==
  /\ pc[h] = "store"
  /\ cur' = data[h] /\ stat' = seen[h]
  /\ Decides(h, data[h])
  /\ UNCHANGED <<file, writes, argv, seen, data, verdicts>>

Next ==
  \/ \E content \in Files : Write(content)
  \/ \E h \in Handlers : Stat(h) \/ Check(h) \/ Read(h) \/ Store(h)

Spec == Init /\ [][Next]_vars

\* A command is let through only if the file granted it at some instant since
\* its handler looked at the file, and refused only if the file refused it at
\* some such instant.  A cache written by a handler that was overtaken must
\* not answer for an edit it has not seen.
DecisionEarned ==
  \A h \in Handlers :
    /\ pc[h] = "allowed" => TRUE \in verdicts[h]
    /\ pc[h] = "denied"  => FALSE \in verdicts[h]
===============================================================================
