----------------------------- MODULE UpstreamProofs -----------------------------
(***************************************************************************)
(* Proofs about the account of a tenant, for any number of requests of     *)
(* each kind and any pool: its rows keep their types, what is stored can   *)
(* be read back, and no victim of a deadlock has sent anything, although   *)
(* who has sent still waits for the record and the reservation.            *)
(***************************************************************************)
EXTENDS Upstream, FiniteSetTheorems, SequenceTheorems, TLAPS

-----------------------------------------------------------------------------
(* What a request has left to do *)

\* The steps from the ith one on.
From(steps, i) == SubSeq(steps, i, Len(steps))

LoginSteps == <<"username", "password", "login", "store">>

Settlers == Approvers \cup Dashboards

\* A request is at a step of its program, or at a step put before it: an owner
\* that generates the data key, anybody else that logs in for a token; or only the
\* settlement is left.
ToDo(r, steps) ==
  \/ \E i \in 1..Len(Program(r)) + 1 : steps = From(Program(r), i)
  \/ r \in Owners /\ steps = <<"generate">> \o From(Program(r), 3)
  \/ r \in Settlers /\ steps \in {<<"settle">>, <<"release">>}
  \/ \E i \in 1..Len(Program(r)), j \in 1..4 :
       /\ Program(r)[i] \in {"price", "token"}
       /\ steps = From(LoginSteps \o From(Program(r), i), j)

-----------------------------------------------------------------------------
(* The inductive invariant *)

RowTypes(rows) ==
  /\ rows = [f \in Fields |-> rows[f]]
  /\ rows["username"] \in Owners \cup {None} /\ rows["key"] \in Owners \cup {None}
  /\ rows["secret"] \in Secrets \cup {None} /\ rows["token"] \in Tokens \cup {None}
  /\ rows["conf"] \in Settlers \cup {None} /\ rows["resv"] \in Settlers \cup {None}

ReadTypes == [username : Owners \cup {None}, password : Owners \cup {None},
              key : Owners \cup {None}, version : 0..Cardinality(Owners)]

Types ==
  /\ RowTypes(db) /\ own = [r \in Requests |-> own[r]] /\ \A r \in Requests : RowTypes(own[r])
  /\ holder \in [Locks -> Requests \cup {None}]
  /\ pc \in [Requests -> {"new", "run", "done", "aborted"}]
  /\ todo = [r \in Requests |-> todo[r]]
  /\ read \in [Requests -> ReadTypes]
  /\ ran \subseteq Requests /\ expiries \in 0..MaxExpiries

\* The connections of the account that are committed: each counts the version of
\* the password up once.
Connected == {o \in Owners : pc[o] = "done"}

\* Only an owner who holds the row of the account writes the key and the password;
\* it writes a key where there is none, and the password, at its end, under the
\* key it sees.
OwnerOK(r) ==
  /\ own[r]["key"] # None => r \in Owners /\ holder["account"] = r /\ db["key"] = None
  /\ own[r]["secret"] # None =>
       /\ r \in Owners /\ holder["account"] = r /\ todo[r] = <<>>
       /\ own[r]["secret"].key = View(r, "key")
       /\ own[r]["secret"].version <= Cardinality(Connected) + 1
  /\ At(r, {"key", "generate", "version", "secret"}) => holder["account"] = r
  /\ At(r, {"generate"}) => View(r, "key") = None
  /\ At(r, {"version", "secret"}) => read[r].key = View(r, "key") /\ read[r].key # None
  /\ read[r].version <= Cardinality(Connected)

\* Whoever logs in has a username, and once it has the password there is a key;
\* the token it writes is under the key of the tenant.
LoginOK(r) ==
  /\ own[r]["token"] # None => r \notin Owners /\ own[r]["token"].key = db["key"]
  /\ At(r, {"password", "login", "store"}) => read[r].username # None
  /\ At(r, {"login", "store"}) => db["key"] # None

\* Who has sent its operation has at most the record and the settlement left to do.
LastSteps == {"record", "settle", "release"}
SentOK(r) ==
  r \in ran => /\ pc[r] \in {"run", "done"}
               /\ pc[r] = "run" => todo[r] = <<>> \/ Head(todo[r]) \in LastSteps

RequestOK(r) ==
  /\ ToDo(r, todo[r])
  /\ pc[r] # "run" => own[r] = Nothing
  /\ OwnerOK(r) /\ LoginOK(r) /\ SentOK(r)

\* A call over MCP holds the audit lock from its first step on, also when it writes a
\* record; whoever holds the reservation has only its commit to do.
LocksOK(r) ==
  /\ r \in Callers \cup Approvers /\ pc[r] = "run" => At(r, {"audit"}) \/ holder["audit"] = r
  /\ holder["idem"] = r => holder["audit"] = r
  /\ holder["resv"] = r => pc[r] = "run" /\ todo[r] = <<>>

RowsOK ==
  /\ AccountIsReadable
  /\ db["secret"] # None => db["secret"].version <= Cardinality(Connected)

IInv == Types /\ RowsOK /\ \A r \in Requests : RequestOK(r) /\ LocksOK(r)

-----------------------------------------------------------------------------
(* Facts about the steps that are left *)

OwnerSteps == {"account", "key", "generate", "version", "secret"}
ProgramSteps == Steps \ {"generate", "username", "password", "login", "store", "release"}

\* The programs of the five kinds of requests.
LEMMA Programs ==
  ASSUME NEW r \in Requests
  PROVE  \/ r \in Owners /\ r \notin Callers \cup Settlers /\ Program(r) = Connecting
         \/ r \in Callers /\ r \notin Owners \cup Settlers /\ Program(r) = Calling
         \/ r \notin Owners \cup Callers \cup Settlers /\ Program(r) = Proposing
         \/ r \in Approvers /\ r \notin Owners \cup Callers /\ Program(r) = Approving
         \/ /\ r \in Dashboards /\ r \notin Owners \cup Callers \cup Approvers
            /\ Program(r) = OnDashboard
<1>1. CASE r \in Owners
  <2>1. /\ r \notin Callers /\ r \notin Proposers
        /\ r \notin Approvers /\ r \notin Dashboards
    BY <1>1, RequestsAssumption
  <2>2. QED
    BY <1>1, <2>1, Zenon DEF Program, Settlers
<1>2. CASE r \in Callers
  <2>1. /\ r \notin Owners /\ r \notin Proposers
        /\ r \notin Approvers /\ r \notin Dashboards
    BY <1>2, RequestsAssumption
  <2>2. QED
    BY <1>2, <2>1, Zenon DEF Program, Settlers
<1>3. CASE r \in Proposers
  <2>1. /\ r \notin Owners /\ r \notin Callers
        /\ r \notin Approvers /\ r \notin Dashboards
    BY <1>3, RequestsAssumption
  <2>2. QED
    BY <1>3, <2>1, Zenon DEF Program, Settlers
<1>4. CASE r \in Approvers
  <2>1. /\ r \notin Owners /\ r \notin Callers
        /\ r \notin Proposers /\ r \notin Dashboards
    BY <1>4, RequestsAssumption
  <2>2. QED
    BY <1>4, <2>1, Zenon DEF Program, Settlers
<1>5. CASE r \in Dashboards
  <2>1. /\ r \notin Owners /\ r \notin Callers
        /\ r \notin Proposers /\ r \notin Approvers
    BY <1>5, RequestsAssumption
  <2>2. QED
    BY <1>5, <2>1, Zenon DEF Program, Settlers
<1>6. QED
  BY <1>1, <1>2, <1>3, <1>4, <1>5 DEF Requests

\* What holds of every program of this length and kind.
Follows(p, i) ==
  /\ p[i] \in {"secret", "settle"} => i = Len(p)
  /\ p[i] \in {"price", "token"} => Len(p) - i <= 6
  /\ p[i] = "send" /\ i < Len(p) => p[i + 1] \in {"record", "settle"}
  /\ p[i] = "record" /\ i < Len(p) => p[i + 1] = "settle"

LEMMA ProgramFacts ==
  ASSUME NEW r \in Requests
  PROVE  /\ Program(r) \in Seq(ProgramSteps)
         /\ Len(Program(r)) \in Nat /\ 3 <= Len(Program(r)) /\ Len(Program(r)) <= 9
         /\ r \in Callers \cup Approvers => Program(r)[1] = "audit"
         /\ \A i \in 1..Len(Program(r)) :
              /\ Follows(Program(r), i)
              /\ r \in Owners <=> Program(r)[i] \in OwnerSteps
              /\ Program(r)[i] \in {"drift", "conf", "settle"} => r \in Settlers
              /\ Program(r)[i] = "account" <=> i = 1 /\ r \in Owners
              /\ Program(r)[i] = "key" <=> i = 2 /\ r \in Owners
              /\ Program(r)[i] = "version" <=> i = 3 /\ r \in Owners
              /\ Program(r)[i] = "secret" <=> i = 4 /\ r \in Owners
<1>1. CASE /\ r \in Owners /\ r \notin Callers \cup Settlers
           /\ Program(r) = <<"account", "key", "version", "secret">>
  BY <1>1 DEF ProgramSteps, OwnerSteps, Steps, Follows, Settlers
<1>2. CASE /\ r \in Callers /\ r \notin Owners \cup Settlers
           /\ Program(r) = <<"audit", "token", "send", "record">>
  BY <1>2 DEF ProgramSteps, OwnerSteps, Steps, Follows, Settlers
<1>3. CASE /\ r \notin Owners \cup Callers \cup Settlers
           /\ Program(r) = <<"policy", "price", "audit">>
  BY <1>3 DEF ProgramSteps, OwnerSteps, Steps, Follows, Settlers
<1>4. CASE /\ r \in Approvers /\ r \notin Owners \cup Callers
           /\ Program(r) = <<"audit", "load", "price", "drift", "conf", "token", "send",
                            "record", "settle">>
  BY <1>4, SMTT(30) DEF ProgramSteps, OwnerSteps, Steps, Follows, Settlers
<1>5. CASE /\ r \in Dashboards /\ r \notin Owners \cup Callers \cup Approvers
           /\ Program(r) = <<"load", "price", "drift", "conf", "token", "send", "settle">>
  BY <1>5, SMTT(30) DEF ProgramSteps, OwnerSteps, Steps, Follows, Settlers
<1>6. QED
  BY <1>1, <1>2, <1>3, <1>4, <1>5, Programs
  DEF Connecting, Calling, Proposing, Approving, OnDashboard

\* Head and tail of a suffix; suffixes of suffixes and of a concatenation.
LEMMA Suffix ==
  ASSUME NEW S, NEW p \in Seq(S), NEW i \in 1..Len(p)
  PROVE  /\ From(p, i) \in Seq(S) /\ From(p, i) # <<>>
         /\ Len(From(p, i)) = Len(p) - i + 1
         /\ Head(From(p, i)) = p[i] /\ Tail(From(p, i)) = From(p, i + 1)
         /\ \A k \in 1..Len(p) - i + 1 : From(p, i)[k] = p[i + k - 1]
<1>1. /\ From(p, i) \in Seq(S) /\ Len(From(p, i)) = Len(p) - i + 1
      /\ \A k \in 1..Len(p) - i + 1 : From(p, i)[k] = p[i + k - 1]
  BY SubSeqProperties DEF From
<1>2. From(p, i) # <<>>
  <2>1. Len(From(p, i)) > 0
    BY <1>1
  <2>2. QED
    BY <2>1
<1>3. Head(From(p, i)) = p[i] /\ Tail(From(p, i)) = From(p, i + 1)
  BY HeadTailOfSubSeq DEF From
<1>4. QED
  BY <1>1, <1>2, <1>3

LEMMA SuffixEmpty ==
  ASSUME NEW S, NEW p \in Seq(S)
  PROVE  From(p, Len(p) + 1) = <<>> /\ From(p, 1) = p
BY SubSeqEmpty, SubSeqFull DEF From

LEMMA SuffixOfSuffix ==
  ASSUME NEW S, NEW p \in Seq(S), NEW i \in 1..Len(p), NEW k \in 1..Len(p) - i + 2
  PROVE  From(From(p, i), k) = From(p, i + k - 1)
<1>1. From(p, i) \in Seq(S) /\ Len(From(p, i)) = Len(p) - i + 1
  BY Suffix
<1>2. CASE k = Len(p) - i + 2
  <2>1. From(From(p, i), k) = <<>>
    BY <1>1, <1>2, SuffixEmpty
  <2>2. i + k - 1 = Len(p) + 1
    BY <1>2
  <2>3. QED
    BY <2>1, <2>2, SuffixEmpty
<1>3. CASE k \in 1..Len(p) - i + 1
  <2>1. SubSeq(SubSeq(p, i, Len(p)), k, Len(p) - i + 1) = SubSeq(p, i + k - 1, Len(p))
    BY <1>3, SubSeqOfSubSeq
  <2>2. QED
    BY <1>1, <2>1 DEF From
<1>4. QED
  BY <1>2, <1>3

LEMMA SuffixOfConcat ==
  ASSUME NEW S, NEW s \in Seq(S), NEW t \in Seq(S), NEW k \in 1..Len(t) + 1
  PROVE  From(s \o t, Len(s) + k) = From(t, k)
<1>1. s \o t \in Seq(S) /\ Len(s \o t) = Len(s) + Len(t)
  BY ConcatProperties
<1>2. CASE k = Len(t) + 1
  <2>1. Len(s) + k = Len(s \o t) + 1
    BY <1>1, <1>2
  <2>2. QED
    BY <1>1, <1>2, <2>1, SuffixEmpty
<1>3. CASE k \in 1..Len(t)
  BY <1>1, <1>3, SubSeqOfConcat2 DEF From
<1>4. QED
  BY <1>2, <1>3

\* A login from its jth step on, before the steps rest.
LEMMA Logins ==
  ASSUME NEW S, NEW rest \in Seq(S), rest # <<>>, NEW j \in 1..4
  PROVE  LET s == From(LoginSteps \o rest, j) IN
         /\ s # <<>> /\ Head(s) = LoginSteps[j] /\ Len(s) = 5 - j + Len(rest)
         /\ Tail(s) = IF j = 4 THEN rest ELSE From(LoginSteps \o rest, j + 1)
         /\ s \in Seq(S \cup ToSet(LoginSteps))
         /\ j = 1 => s[5] = Head(rest) /\ From(s, 6) = Tail(rest)
         /\ j = 4 => From(s, 3) = Tail(rest)
<1> DEFINE U == S \cup ToSet(LoginSteps)
           all == LoginSteps \o rest
           s == From(all, j)
<1>1. LoginSteps \in Seq(U) /\ rest \in Seq(U) /\ Len(LoginSteps) = 4
  BY DEF LoginSteps, ToSet
<1>2. Len(rest) \in Nat /\ Len(rest) > 0 /\ Head(rest) = rest[1]
  OBVIOUS
<1> HIDE DEF U
<1>3. /\ all \in Seq(U) /\ Len(all) = 4 + Len(rest)
      /\ \A k \in 1..4 : all[k] = LoginSteps[k]
      /\ all[5] = rest[1]
  <2>1. /\ all \in Seq(U) /\ Len(all) = Len(LoginSteps) + Len(rest)
        /\ \A k \in 1..Len(LoginSteps) + Len(rest) :
             all[k] = IF k <= Len(LoginSteps) THEN LoginSteps[k] ELSE rest[k - Len(LoginSteps)]
    BY <1>1, ConcatProperties
  <2> HIDE DEF all
  <2>2. QED
    BY <1>1, <1>2, <2>1
<1>4. \A k \in 1..Len(rest) + 1 : From(all, 4 + k) = From(rest, k)
  <2>1. \A k \in 1..Len(rest) + 1 : From(all, Len(LoginSteps) + k) = From(rest, k)
    BY <1>1, SuffixOfConcat
  <2> HIDE DEF all
  <2>2. QED
    BY <1>1, <2>1
<1>5. From(all, 5) = rest /\ From(all, 6) = Tail(rest)
  <2> HIDE DEF all
  <2>1. From(all, 5) = From(rest, 1) /\ From(all, 6) = From(rest, 2)
    <3>1. 1 \in 1..Len(rest) + 1 /\ 2 \in 1..Len(rest) + 1
      BY <1>2
    <3>2. From(all, 4 + 1) = From(rest, 1) /\ From(all, 4 + 2) = From(rest, 2)
      BY <1>4, <3>1
    <3>3. QED
      BY <3>2
  <2>2. From(rest, 1) = rest
    BY <1>1, SuffixEmpty
  <2>3. From(rest, 2) = Tail(rest)
    BY <1>2, TailIsSubSeq DEF From
  <2>4. QED
    BY <2>1, <2>2, <2>3
<1> HIDE DEF all
<1>6. /\ s # <<>> /\ Head(s) = all[j] /\ Tail(s) = From(all, j + 1)
      /\ s \in Seq(U) /\ Len(s) = 5 - j + Len(rest)
      /\ \A k \in 1..5 - j + Len(rest) : s[k] = all[j + k - 1]
  <2>1. j \in 1..Len(all) /\ Len(all) - j + 1 = 5 - j + Len(rest)
    BY <1>2, <1>3
  <2>2. /\ s # <<>> /\ Head(s) = all[j] /\ Tail(s) = From(all, j + 1)
        /\ s \in Seq(U) /\ Len(s) = Len(all) - j + 1
        /\ \A k \in 1..Len(all) - j + 1 : s[k] = all[j + k - 1]
    BY <1>3, <2>1, Suffix, ZenonT(30)
  <2>3. QED
    BY <2>1, <2>2
<1>7. \A k \in 1..5 - j + Len(rest) + 1 : From(s, k) = From(all, j + k - 1)
  <2>1. j \in 1..Len(all) /\ Len(all) - j + 2 = 5 - j + Len(rest) + 1
    BY <1>2, <1>3
  <2>2. QED
    BY <1>3, <2>1, SuffixOfSuffix
<1> HIDE DEF s
<1>8. Tail(s) = IF j = 4 THEN rest ELSE From(LoginSteps \o rest, j + 1)
  BY <1>5, <1>6 DEF all
<1>9. j = 1 => s[5] = Head(rest) /\ From(s, 6) = Tail(rest)
  <2> SUFFICES ASSUME j = 1 PROVE s[5] = Head(rest) /\ From(s, 6) = Tail(rest)
    OBVIOUS
  <2>1. s[5] = all[5] /\ From(s, 6) = From(all, 6)
    BY <1>2, <1>6, <1>7
  <2>2. QED
    BY <1>2, <1>3, <1>5, <2>1
<1>10. j = 4 => From(s, 3) = Tail(rest)
  <2> SUFFICES ASSUME j = 4 PROVE From(s, 3) = Tail(rest)
    OBVIOUS
  <2>1. From(s, 3) = From(all, 6)
    BY <1>2, <1>7
  <2>2. QED
    BY <1>5, <2>1
<1>11. QED
  BY <1>3, <1>6, <1>8, <1>9, <1>10 DEF all, U, s

-----------------------------------------------------------------------------
(* From one step to the next *)

\* What is left is short, begins with a step of the request's kind, and goes on
\* as far as the steps after the first one are concerned.
LEMMA StepsLeft ==
  ASSUME NEW r \in Requests, NEW steps, ToDo(r, steps)
  PROVE  steps \in Seq(Steps) /\ Len(steps) <= 11
<1>1. /\ Program(r) \in Seq(ProgramSteps)
      /\ Len(Program(r)) \in Nat /\ 3 <= Len(Program(r)) /\ Len(Program(r)) <= 9
  BY ProgramFacts
<1>2. ASSUME NEW i \in 1..Len(Program(r)) + 1
      PROVE  From(Program(r), i) \in Seq(ProgramSteps) /\ Len(From(Program(r), i)) <= 9
  <2>1. CASE i \in 1..Len(Program(r))
    <3>1. /\ From(Program(r), i) \in Seq(ProgramSteps)
          /\ Len(From(Program(r), i)) = Len(Program(r)) - i + 1
      BY <1>1, <2>1, Suffix
    <3>2. QED
      BY <1>1, <2>1, <3>1
  <2>2. CASE i = Len(Program(r)) + 1
    <3>1. From(Program(r), i) = <<>>
      BY <1>1, <2>2, SuffixEmpty
    <3>2. QED
      BY <3>1
  <2>3. QED
    BY <2>1, <2>2
<1>3. CASE \E i \in 1..Len(Program(r)) + 1 : steps = From(Program(r), i)
  BY <1>2, <1>3 DEF ProgramSteps
<1>4. CASE steps = <<"generate">> \o From(Program(r), 3)
  <2>1. From(Program(r), 3) \in Seq(Steps) /\ Len(From(Program(r), 3)) <= 9
    <3>1. 3 \in 1..Len(Program(r)) + 1
      BY <1>1
    <3>2. QED
      BY <1>2, <3>1 DEF ProgramSteps
  <2>2. <<"generate">> \in Seq(Steps)
    BY DEF Steps
  <2>3. QED
    BY <1>4, <2>1, <2>2, ConcatProperties
<1>5. CASE \E i \in 1..Len(Program(r)), j \in 1..4 :
             /\ Program(r)[i] \in {"price", "token"}
             /\ steps = From(LoginSteps \o From(Program(r), i), j)
  <2>1. PICK i \in 1..Len(Program(r)), j \in 1..4 :
               /\ Program(r)[i] \in {"price", "token"}
               /\ steps = From(LoginSteps \o From(Program(r), i), j)
    BY <1>5
  <2>2. /\ From(Program(r), i) \in Seq(ProgramSteps) /\ From(Program(r), i) # <<>>
        /\ Len(From(Program(r), i)) <= 7 /\ Len(From(Program(r), i)) \in Nat
    <3>1. Len(Program(r)) - i <= 6
      BY <2>1, ProgramFacts DEF Follows
    <3>2. /\ From(Program(r), i) \in Seq(ProgramSteps) /\ From(Program(r), i) # <<>>
          /\ Len(From(Program(r), i)) = Len(Program(r)) - i + 1
      BY <1>1, Suffix
    <3>3. QED
      BY <1>1, <3>1, <3>2
  <2>3. /\ steps \in Seq(ProgramSteps \cup ToSet(LoginSteps))
        /\ Len(steps) = 5 - j + Len(From(Program(r), i))
    BY <2>1, <2>2, Logins
  <2>4. ProgramSteps \cup ToSet(LoginSteps) \subseteq Steps
    BY DEF ProgramSteps, Steps, ToSet, LoginSteps
  <2>5. QED
    BY <2>2, <2>3, <2>4
<1>6. CASE steps \in {<<"settle">>, <<"release">>}
  BY <1>6 DEF Steps
<1>7. QED
  BY <1>3, <1>4, <1>5, <1>6 DEF ToDo

\* Where a request is that has something left to do.
AtProgram(r, steps, i) ==
  /\ steps = From(Program(r), i)
  /\ Head(steps) = Program(r)[i] /\ Tail(steps) = From(Program(r), i + 1)
AtGenerate(r, steps) ==
  /\ r \in Owners /\ Head(steps) = "generate" /\ Tail(steps) = From(Program(r), 3)
AtEnd(r, steps) ==
  /\ r \in Settlers /\ Head(steps) \in {"settle", "release"} /\ Tail(steps) = <<>>
AtLogin(r, steps, i, j) ==
  /\ Program(r)[i] \in {"price", "token"} /\ Head(steps) = LoginSteps[j]
  /\ Tail(steps) = IF j = 4 THEN From(Program(r), i)
                             ELSE From(LoginSteps \o From(Program(r), i), j + 1)
  /\ j = 1 => steps[5] = Program(r)[i] /\ From(steps, 6) = From(Program(r), i + 1)
  /\ j = 4 => From(steps, 3) = From(Program(r), i + 1)

LEMMA Where ==
  ASSUME NEW r \in Requests, NEW steps, ToDo(r, steps), steps # <<>>
  PROVE  \/ \E i \in 1..Len(Program(r)) : AtProgram(r, steps, i)
         \/ AtGenerate(r, steps)
         \/ AtEnd(r, steps)
         \/ \E i \in 1..Len(Program(r)), j \in 1..4 : AtLogin(r, steps, i, j)
<1>1. /\ Program(r) \in Seq(ProgramSteps)
      /\ Len(Program(r)) \in Nat /\ 3 <= Len(Program(r)) /\ Len(Program(r)) <= 9
  BY ProgramFacts
<1>2. CASE \E i \in 1..Len(Program(r)) + 1 : steps = From(Program(r), i)
  <2>1. PICK i \in 1..Len(Program(r)) + 1 : steps = From(Program(r), i)
    BY <1>2
  <2>2. i # Len(Program(r)) + 1
    BY <1>1, <2>1, SuffixEmpty
  <2>3. i \in 1..Len(Program(r))
    BY <1>1, <2>2
  <2>4. AtProgram(r, steps, i)
    BY <1>1, <2>1, <2>3, Suffix DEF AtProgram
  <2>5. QED
    BY <2>3, <2>4
<1>3. CASE r \in Owners /\ steps = <<"generate">> \o From(Program(r), 3)
  <2> DEFINE rest == From(Program(r), 3)
  <2>1. rest \in Seq(ProgramSteps)
    BY <1>1, Suffix
  <2>2. Head(steps) = "generate" /\ Tail(steps) = rest
    <3> HIDE DEF rest
    <3>1. <<"generate">> \in Seq(Steps) /\ rest \in Seq(Steps) /\ Len(<<"generate">>) = 1
      BY <2>1 DEF ProgramSteps, Steps
    <3>2. steps = <<"generate">> \o rest
      BY <1>3 DEF rest
    <3>3. steps \in Seq(Steps) /\ steps[1] = "generate"
      BY <3>1, <3>2, ConcatProperties
    <3>4. From(steps, 2) = From(rest, 1)
      <4>1. 1 \in 1..Len(rest) + 1 /\ Len(<<"generate">>) + 1 = 2
        BY <3>1
      <4>2. From(<<"generate">> \o rest, Len(<<"generate">>) + 1) = From(rest, 1)
        BY <3>1, <4>1, SuffixOfConcat
      <4>3. QED
        BY <3>2, <4>1, <4>2
    <3>5. QED
      BY <3>1, <3>3, <3>4, SuffixEmpty, TailIsSubSeq DEF From
  <2>3. QED
    BY <1>3, <2>2 DEF AtGenerate
<1>4. CASE \E i \in 1..Len(Program(r)), j \in 1..4 :
             /\ Program(r)[i] \in {"price", "token"}
             /\ steps = From(LoginSteps \o From(Program(r), i), j)
  <2>1. PICK i \in 1..Len(Program(r)), j \in 1..4 :
               /\ Program(r)[i] \in {"price", "token"}
               /\ steps = From(LoginSteps \o From(Program(r), i), j)
    BY <1>4
  <2>2. /\ From(Program(r), i) \in Seq(ProgramSteps) /\ From(Program(r), i) # <<>>
        /\ Head(From(Program(r), i)) = Program(r)[i]
        /\ Tail(From(Program(r), i)) = From(Program(r), i + 1)
    BY <1>1, Suffix
  <2>3. /\ Head(steps) = LoginSteps[j]
        /\ Tail(steps) = IF j = 4 THEN From(Program(r), i)
                                  ELSE From(LoginSteps \o From(Program(r), i), j + 1)
        /\ j = 1 => steps[5] = Program(r)[i] /\ From(steps, 6) = From(Program(r), i + 1)
        /\ j = 4 => From(steps, 3) = From(Program(r), i + 1)
    <3> DEFINE rest == From(Program(r), i)
    <3>1. /\ rest \in Seq(ProgramSteps) /\ rest # <<>>
          /\ Head(rest) = Program(r)[i] /\ Tail(rest) = From(Program(r), i + 1)
          /\ steps = From(LoginSteps \o rest, j)
      BY <2>1, <2>2
    <3> HIDE DEF rest
    <3>2. /\ Head(steps) = LoginSteps[j]
          /\ Tail(steps) = IF j = 4 THEN rest ELSE From(LoginSteps \o rest, j + 1)
          /\ j = 1 => steps[5] = Head(rest) /\ From(steps, 6) = Tail(rest)
          /\ j = 4 => From(steps, 3) = Tail(rest)
      BY <3>1, Logins, ZenonT(30)
    <3>3. QED
      BY <3>1, <3>2 DEF rest
  <2>4. QED
    BY <2>1, <2>3 DEF AtLogin
<1>5. CASE r \in Settlers /\ steps \in {<<"settle">>, <<"release">>}
  <2>1. Head(steps) \in {"settle", "release"}
    BY <1>5
  <2>2. Tail(steps) = <<>>
    <3>1. PICK last \in {"settle", "release"} : steps = <<last>>
      BY <1>5
    <3>2. Tail(steps) = SubSeq(steps, 2, Len(steps)) /\ Len(steps) = 1
      <4>1. steps \in Seq({"settle", "release"}) /\ steps # <<>> /\ Len(steps) = 1
        BY <3>1
      <4>2. QED
        BY <4>1, TailIsSubSeq
    <3>3. QED
      BY <3>1, <3>2, SubSeqEmpty
  <2>3. QED
    BY <1>5, <2>1, <2>2 DEF AtEnd
<1>6. QED
  BY <1>2, <1>3, <1>4, <1>5 DEF ToDo

\* The tail of a suffix of the program is one, or nothing is left.
LEMMA Onwards ==
  ASSUME NEW r \in Requests, NEW i \in 1..Len(Program(r))
  PROVE  /\ ToDo(r, From(Program(r), i)) /\ ToDo(r, From(Program(r), i + 1))
         /\ From(Program(r), i) # <<>> /\ Head(From(Program(r), i)) = Program(r)[i]
         /\ IF i = Len(Program(r)) THEN From(Program(r), i + 1) = <<>>
            ELSE Head(From(Program(r), i + 1)) = Program(r)[i + 1]
<1>1. /\ Program(r) \in Seq(ProgramSteps)
      /\ Len(Program(r)) \in Nat /\ 3 <= Len(Program(r)) /\ Len(Program(r)) <= 9
  BY ProgramFacts
<1>2. i \in 1..Len(Program(r)) + 1 /\ i + 1 \in 1..Len(Program(r)) + 1
  BY <1>1
<1>3. ToDo(r, From(Program(r), i)) /\ ToDo(r, From(Program(r), i + 1))
  BY <1>2 DEF ToDo
<1>4. From(Program(r), i) # <<>> /\ Head(From(Program(r), i)) = Program(r)[i]
  BY <1>1, Suffix
<1>5. CASE i = Len(Program(r))
  <2>1. From(Program(r), i + 1) = <<>>
    BY <1>1, <1>5, SuffixEmpty
  <2>2. QED
    BY <1>3, <1>4, <1>5, <2>1
<1>6. CASE i # Len(Program(r))
  <2>1. i + 1 \in 1..Len(Program(r))
    BY <1>1, <1>6
  <2>2. Head(From(Program(r), i + 1)) = Program(r)[i + 1]
    BY <1>1, <2>1, Suffix
  <2>3. QED
    BY <1>3, <1>4, <1>6, <2>2
<1>7. QED
  BY <1>5, <1>6

LEMMA NothingLeft == ASSUME NEW r \in Requests PROVE ToDo(r, <<>>)
<1>1. Program(r) \in Seq(ProgramSteps) /\ Len(Program(r)) \in Nat
  BY ProgramFacts
<1>2. QED
  BY <1>1, SuffixEmpty DEF ToDo

LEMMA SettlersOwnNothing == \A r \in Settlers : r \notin Owners
BY RequestsAssumption DEF Settlers

\* Owners take the steps of owners, and nobody else does.
LEMMA Kinds ==
  ASSUME NEW r \in Requests, NEW steps, ToDo(r, steps), steps # <<>>
  PROVE  r \in Owners <=> Head(steps) \in OwnerSteps
<1>1. CASE \E i \in 1..Len(Program(r)) : AtProgram(r, steps, i)
  BY <1>1, ProgramFacts DEF AtProgram
<1>2. CASE AtGenerate(r, steps)
  BY <1>2 DEF AtGenerate, OwnerSteps
<1>3. CASE \E i \in 1..Len(Program(r)), j \in 1..4 : AtLogin(r, steps, i, j)
  <2>1. PICK i \in 1..Len(Program(r)), j \in 1..4 : AtLogin(r, steps, i, j)
    BY <1>3
  <2>2. r \notin Owners
    BY <2>1, ProgramFacts DEF AtLogin, OwnerSteps
  <2>3. LoginSteps[j] \notin OwnerSteps
    BY DEF LoginSteps, OwnerSteps
  <2>4. QED
    BY <2>1, <2>2, <2>3 DEF AtLogin
<1>4. CASE AtEnd(r, steps)
  BY <1>4, SettlersOwnNothing DEF AtEnd, OwnerSteps
<1>5. QED
  BY <1>1, <1>2, <1>3, <1>4, Where

\* Only an approval finds drift, claims or settles.
LEMMA Approves ==
  ASSUME NEW r \in Requests, NEW steps, ToDo(r, steps), steps # <<>>,
         Head(steps) \in {"drift", "conf", "settle", "release"}
  PROVE  r \in Settlers
<1>1. CASE \E i \in 1..Len(Program(r)) : AtProgram(r, steps, i)
  <2>1. PICK i \in 1..Len(Program(r)) : AtProgram(r, steps, i)
    BY <1>1
  <2>2. Program(r)[i] \in ProgramSteps
    BY ProgramFacts
  <2>3. Program(r)[i] \in {"drift", "conf", "settle"}
    BY <2>1, <2>2 DEF AtProgram, ProgramSteps
  <2>4. QED
    BY <2>3, ProgramFacts
<1>2. CASE AtEnd(r, steps)
  BY <1>2 DEF AtEnd
<1>3. ~AtGenerate(r, steps)
  BY DEF AtGenerate
<1>4. \A i \in 1..Len(Program(r)), j \in 1..4 : ~AtLogin(r, steps, i, j)
  BY DEF AtLogin, LoginSteps
<1>5. QED
  BY <1>1, <1>2, <1>3, <1>4, Where

\* What may come next when a step is done, and what a given step comes after.
Preceded(first, second) ==
  /\ second # "generate" /\ second # "username"
  /\ second = "key" => first = "account"
  /\ second = "version" => first \in {"key", "generate"}
  /\ second = "secret" => first = "version"
  /\ second = "password" => first = "username"
  /\ second = "login" => first = "password"
  /\ second = "store" => first = "login"
  /\ first = "send" => second \in {"record", "settle"}
  /\ first = "record" => second = "settle"
  /\ first \notin {"secret", "settle", "release"}

LEMMA Advances ==
  ASSUME NEW r \in Requests, NEW steps, ToDo(r, steps), steps # <<>>
  PROVE  /\ ToDo(r, Tail(steps))
         /\ Tail(steps) # <<>> => Preceded(Head(steps), Head(Tail(steps)))
<1>1. /\ Program(r) \in Seq(ProgramSteps)
      /\ Len(Program(r)) \in Nat /\ 3 <= Len(Program(r)) /\ Len(Program(r)) <= 9
  BY ProgramFacts
<1>2. CASE \E i \in 1..Len(Program(r)) : AtProgram(r, steps, i)
  <2>1. PICK i \in 1..Len(Program(r)) : AtProgram(r, steps, i)
    BY <1>2
  <2>2. ToDo(r, Tail(steps))
    BY <2>1, Onwards DEF AtProgram
  <2>3. ASSUME i # Len(Program(r))
        PROVE  Preceded(Program(r)[i], Program(r)[i + 1])
    <3>1. /\ i + 1 \in 1..Len(Program(r))
          /\ Program(r)[i] \in ProgramSteps /\ Program(r)[i + 1] \in ProgramSteps
      BY <1>1, <2>3
    <3>2. /\ Program(r)[i + 1] = "key" => Program(r)[i] = "account"
          /\ Program(r)[i + 1] = "version" => Program(r)[i] = "key"
          /\ Program(r)[i + 1] = "secret" => Program(r)[i] = "version"
          /\ Program(r)[i] \notin {"secret", "settle"} /\ i < Len(Program(r))
      BY <1>1, <2>3, <3>1, ProgramFacts DEF Follows
    <3>3. Follows(Program(r), i)
      BY ProgramFacts
    <3>4. QED
      BY <3>1, <3>2, <3>3 DEF Preceded, ProgramSteps, Steps, Follows
  <2>4. QED
    BY <2>1, <2>2, <2>3, Onwards DEF AtProgram
<1>3. CASE AtGenerate(r, steps)
  <2>1. 3 \in 1..Len(Program(r)) /\ Program(r)[3] = "version"
    BY <1>1, <1>3, ProgramFacts DEF AtGenerate
  <2>2. QED
    BY <1>3, <2>1, Onwards DEF AtGenerate, Preceded
<1>4. CASE \E i \in 1..Len(Program(r)), j \in 1..4 : AtLogin(r, steps, i, j)
  <2>1. PICK i \in 1..Len(Program(r)), j \in 1..4 : AtLogin(r, steps, i, j)
    BY <1>4
  <2>2. CASE j = 4
    <3>1. Tail(steps) = From(Program(r), i)
      BY <2>1, <2>2 DEF AtLogin
    <3>2. Head(steps) = "store" /\ Program(r)[i] \in {"price", "token"}
      BY <2>1, <2>2 DEF AtLogin, LoginSteps
    <3>3. QED
      BY <3>1, <3>2, Onwards DEF Preceded
  <2>3. CASE j # 4
    <3>1. j + 1 \in 1..4 /\ Tail(steps) = From(LoginSteps \o From(Program(r), i), j + 1)
      BY <2>1, <2>3 DEF AtLogin
    <3>2. ToDo(r, Tail(steps))
      BY <2>1, <3>1 DEF ToDo, AtLogin
    <3>3. Head(Tail(steps)) = LoginSteps[j + 1]
      <4> DEFINE rest == From(Program(r), i)
      <4>1. rest \in Seq(ProgramSteps) /\ rest # <<>>
        BY <1>1, Suffix
      <4> HIDE DEF rest
      <4>2. Head(From(LoginSteps \o rest, j + 1)) = LoginSteps[j + 1]
        BY <3>1, <4>1, Logins, ZenonT(30)
      <4>3. QED
        BY <3>1, <4>2 DEF rest
    <3>4. Head(steps) = LoginSteps[j]
      BY <2>1 DEF AtLogin
    <3>5. Preceded(LoginSteps[j], LoginSteps[j + 1])
      BY <2>3 DEF Preceded, LoginSteps
    <3>6. QED
      BY <3>2, <3>3, <3>4, <3>5
  <2>4. QED
    BY <2>2, <2>3
<1>5. CASE AtEnd(r, steps)
  BY <1>5, NothingLeft DEF AtEnd
<1>6. QED
  BY <1>2, <1>3, <1>4, <1>5, Where

\* A login is put before a step of the program that asks for a token, and given up
\* at its first step or done at its last the request goes on behind that step.
LEMMA LogsIn ==
  ASSUME NEW r \in Requests, NEW steps, ToDo(r, steps), steps # <<>>,
         Head(steps) \in {"price", "token"}
  PROVE  /\ ToDo(r, LoginSteps \o steps)
         /\ LoginSteps \o steps # <<>> /\ Head(LoginSteps \o steps) = "username"
<1>1. /\ Program(r) \in Seq(ProgramSteps)
      /\ Len(Program(r)) \in Nat /\ 3 <= Len(Program(r)) /\ Len(Program(r)) <= 9
  BY ProgramFacts
<1>2. \E i \in 1..Len(Program(r)) : AtProgram(r, steps, i)
  <2>1. ~AtGenerate(r, steps) /\ ~AtEnd(r, steps)
    BY DEF AtGenerate, AtEnd
  <2>2. \A j \in 1..4 : LoginSteps[j] \notin {"price", "token"}
    BY DEF LoginSteps
  <2>3. QED
    BY <2>1, <2>2, Where DEF AtLogin
<1>3. PICK i \in 1..Len(Program(r)) : AtProgram(r, steps, i)
  BY <1>2
<1>4. steps = From(Program(r), i) /\ Program(r)[i] \in {"price", "token"}
  BY <1>3 DEF AtProgram
<1>5. steps \in Seq(Steps) /\ LoginSteps \in Seq(Steps)
  BY StepsLeft DEF LoginSteps, Steps
<1>6. From(LoginSteps \o steps, 1) = LoginSteps \o steps
  BY <1>5, ConcatProperties, SuffixEmpty
<1>7. ToDo(r, LoginSteps \o steps)
  <2>1. LoginSteps \o steps = From(LoginSteps \o From(Program(r), i), 1) /\ 1 \in 1..4
    BY <1>4, <1>6
  <2>2. QED
    BY <1>4, <2>1, Zenon DEF ToDo
<1>8. From(LoginSteps \o steps, 1) # <<>> /\ Head(From(LoginSteps \o steps, 1)) = LoginSteps[1]
  <2>1. 1 \in 1..4
    OBVIOUS
  <2>2. QED
    BY <1>5, <2>1, Logins, ZenonT(30)
<1>9. QED
  BY <1>6, <1>7, <1>8 DEF LoginSteps

LEMMA LoginEnds ==
  ASSUME NEW r \in Requests, NEW steps, ToDo(r, steps), steps # <<>>,
         NEW n \in {2, 5},
         Head(steps) = IF n = 5 THEN "username" ELSE "store"
  PROVE  /\ ToDo(r, From(steps, n + 1))
         /\ From(steps, n + 1) # <<>> => Head(From(steps, n + 1)) \in ProgramSteps
<1>1. /\ Program(r) \in Seq(ProgramSteps)
      /\ Len(Program(r)) \in Nat /\ 3 <= Len(Program(r)) /\ Len(Program(r)) <= 9
  BY ProgramFacts
<1>2. \E i \in 1..Len(Program(r)), j \in 1..4 : AtLogin(r, steps, i, j)
  <2>1. ~AtGenerate(r, steps) /\ ~AtEnd(r, steps)
    BY DEF AtGenerate, AtEnd
  <2>2. \A i \in 1..Len(Program(r)) : Program(r)[i] \in ProgramSteps
    BY <1>1
  <2>3. \A i \in 1..Len(Program(r)) : ~AtProgram(r, steps, i)
    BY <2>2 DEF AtProgram, ProgramSteps
  <2>4. QED
    BY <2>1, <2>3, Where
<1>3. PICK i \in 1..Len(Program(r)), j \in 1..4 : AtLogin(r, steps, i, j)
  BY <1>2
<1>4. From(steps, n + 1) = From(Program(r), i + 1)
  <2>1. LoginSteps[j] = IF n = 5 THEN "username" ELSE "store"
    BY <1>3 DEF AtLogin
  <2>2. CASE n = 5
    <3>1. j = 1
      BY <2>1, <2>2 DEF LoginSteps
    <3>2. QED
      BY <1>3, <2>2, <3>1 DEF AtLogin
  <2>3. CASE n = 2
    <3>1. j = 4
      BY <2>1, <2>3 DEF LoginSteps
    <3>2. QED
      BY <1>3, <2>3, <3>1 DEF AtLogin
  <2>4. QED
    BY <2>2, <2>3
<1>5. CASE i = Len(Program(r))
  BY <1>4, <1>5, Onwards
<1>6. CASE i # Len(Program(r))
  <2>1. i + 1 \in 1..Len(Program(r))
    BY <1>1, <1>6
  <2>2. Program(r)[i + 1] \in ProgramSteps
    BY <1>1, <2>1
  <2>3. QED
    BY <1>4, <1>6, <2>2, Onwards
<1>7. QED
  BY <1>5, <1>6

\* An owner without a key generates one, and goes on behind that step.
LEMMA Generates ==
  ASSUME NEW r \in Requests, NEW steps, ToDo(r, steps), steps # <<>>, Head(steps) = "key"
  PROVE  /\ ToDo(r, <<"generate">> \o Tail(steps))
         /\ Head(<<"generate">> \o Tail(steps)) = "generate"
<1>1. /\ Program(r) \in Seq(ProgramSteps)
      /\ Len(Program(r)) \in Nat /\ 3 <= Len(Program(r)) /\ Len(Program(r)) <= 9
  BY ProgramFacts
<1>2. \E i \in 1..Len(Program(r)) : AtProgram(r, steps, i)
  <2>1. ~AtGenerate(r, steps) /\ ~AtEnd(r, steps)
    BY DEF AtGenerate, AtEnd
  <2>2. \A j \in 1..4 : LoginSteps[j] # "key"
    BY DEF LoginSteps
  <2>3. QED
    BY <2>1, <2>2, Where DEF AtLogin
<1>3. PICK i \in 1..Len(Program(r)) : AtProgram(r, steps, i)
  BY <1>2
<1>4. r \in Owners /\ i = 2
  BY <1>3, ProgramFacts DEF AtProgram
<1>5. Tail(steps) = From(Program(r), 3)
  BY <1>3, <1>4 DEF AtProgram
<1>6. From(Program(r), 3) \in Seq(Steps)
  <2>1. From(Program(r), 3) \in Seq(ProgramSteps)
    BY <1>1, Suffix
  <2>2. QED
    BY <2>1 DEF ProgramSteps
<1>7. Head(<<"generate">> \o From(Program(r), 3)) = "generate"
  <2> DEFINE rest == From(Program(r), 3)
  <2> HIDE DEF rest
  <2>1. <<"generate">> \in Seq(Steps) /\ rest \in Seq(Steps) /\ Len(rest) \in Nat
    BY <1>6 DEF Steps, rest
  <2>2. /\ <<"generate">> \o rest \in Seq(Steps) /\ Len(<<"generate">> \o rest) > 0
        /\ (<<"generate">> \o rest)[1] = "generate"
    BY <2>1, ConcatProperties
  <2>3. QED
    BY <2>2 DEF rest
<1>8. QED
  BY <1>4, <1>5, <1>7 DEF ToDo

-----------------------------------------------------------------------------
(* What a step of one request leaves of the others *)

\* What request r writes is of use to it alone before it commits.
Private(r) ==
  /\ \A s \in Requests \ {r} :
       pc'[s] = pc[s] /\ todo'[s] = todo[s] /\ own'[s] = own[s] /\ read'[s] = read[s]
  /\ \A l \in Locks, s \in Requests \ {r} : holder[l] = s => holder'[l] = s
  /\ own' = [s \in Requests |-> own'[s]] /\ todo' = [s \in Requests |-> todo'[s]]
  /\ pc' = [s \in Requests |-> pc'[s]] /\ read' = [s \in Requests |-> read'[s]]
  /\ holder' = [l \in Locks |-> holder'[l]]
  /\ \A l \in Locks : holder'[l] \in {holder[l], r, None}

LEMMA StepsArePrivate ==
  ASSUME Types, NEW r \in Requests, Step(r) \/ Abort(r)
  PROVE  Private(r)
<1>1. /\ own = [s \in Requests |-> own[s]] /\ todo = [s \in Requests |-> todo[s]]
      /\ pc \in [Requests -> {"new", "run", "done", "aborted"}]
      /\ read \in [Requests -> ReadTypes] /\ holder \in [Locks -> Requests \cup {None}]
  BY DEF Types
<1>2. /\ pc' = [s \in Requests |-> pc'[s]] /\ \A s \in Requests \ {r} : pc'[s] = pc[s]
  BY <1>1 DEF Step, Abort, Begin, Finish, TakeLock, Load, Drift, Claim, Replay, Send, Record,
     Settle, UpsertAccount, getTenantDek, setTenantKey, ReadVersion, upsertSecret, CachedToken,
     ReadUsername, ReadPassword, Login, StoreToken
<1>3. \/ UNCHANGED todo \/ \E steps : Then(r, steps)
  BY DEF Step, Abort, Begin, Finish, TakeLock, Load, Drift, Claim, Replay, Send, Record,
     Settle, UpsertAccount, getTenantDek, setTenantKey, ReadVersion, upsertSecret, CachedToken,
     ReadUsername, ReadPassword, Login, StoreToken, Advance, Stop, Got, End, Fail
<1>4. todo' = [s \in Requests |-> todo'[s]] /\ \A s \in Requests \ {r} : todo'[s] = todo[s]
  BY <1>1, <1>3 DEF Then
<1>5. \/ UNCHANGED own \/ own' = [own EXCEPT ![r] = Nothing]
      \/ \E f, value : Write(r, f, value)
      \/ \E row : own' = [own EXCEPT ![r] = row]
  BY DEF Step, Abort, Begin, Finish, TakeLock, Load, Drift, Claim, Replay, Send, Record,
     Settle, UpsertAccount, getTenantDek, setTenantKey, ReadVersion, upsertSecret, CachedToken,
     ReadUsername, ReadPassword, Login, StoreToken
<1>6. own' = [s \in Requests |-> own'[s]] /\ \A s \in Requests \ {r} : own'[s] = own[s]
  BY <1>1, <1>5 DEF Write
<1>7. read' = [s \in Requests |-> read'[s]] /\ \A s \in Requests \ {r} : read'[s] = read[s]
  BY <1>1 DEF Step, Abort, Begin, Finish, TakeLock, Load, Drift, Claim, Replay, Send, Record,
     Settle, UpsertAccount, getTenantDek, setTenantKey, ReadVersion, upsertSecret, CachedToken,
     ReadUsername, ReadPassword, Login, StoreToken
<1>8. \/ UNCHANGED holder \/ \E lock \in Locks : Take(r, lock) \/ holder' = Released(r)
  BY DEF Step, Abort, Begin, Finish, TakeLock, Load, Drift, Claim, Replay, Send, Record,
     Settle, UpsertAccount, getTenantDek, setTenantKey, ReadVersion, upsertSecret, CachedToken,
     ReadUsername, ReadPassword, Login, StoreToken, At, Locks
<1>9. /\ holder' = [l \in Locks |-> holder'[l]]
      /\ \A l \in Locks : holder'[l] \in {holder[l], r, None}
      /\ \A l \in Locks, s \in Requests \ {r} : holder[l] = s => holder'[l] = s
  BY <1>1, <1>8, RequestsAssumption DEF Take, Released
<1>10. QED
  BY <1>2, <1>4, <1>6, <1>7, <1>9 DEF Private

-----------------------------------------------------------------------------
(* The rows of the tenant *)

LEMMA RowsStay ==
  ASSUME NEW r \in Requests, Step(r) \/ Abort(r), ~Finish(r)
  PROVE  UNCHANGED db
BY DEF Step, Abort, Begin, TakeLock, Load, Drift, Claim, Replay, Send, Record, Settle,
   UpsertAccount, getTenantDek, setTenantKey, ReadVersion, upsertSecret, CachedToken,
   ReadUsername, ReadPassword, Login, StoreToken, outside

\* Versions are counted against the owners.
LEMMA ConnectedOwners ==
  /\ IsFiniteSet(Connected) /\ Cardinality(Connected) \in Nat /\ Cardinality(Owners) \in Nat
  /\ Cardinality(Connected) <= Cardinality(Owners)
  /\ \A r \in Owners \ Connected : Cardinality(Connected) + 1 <= Cardinality(Owners)
<1>1. IsFiniteSet(Owners) /\ Connected \subseteq Owners
  BY RequestsAssumption DEF Connected
<1>2. /\ IsFiniteSet(Connected) /\ Cardinality(Connected) <= Cardinality(Owners)
      /\ Cardinality(Owners) = Cardinality(Connected) => Owners = Connected
  BY <1>1, FS_Subset
<1>3. Cardinality(Connected) \in Nat /\ Cardinality(Owners) \in Nat
  BY <1>1, <1>2, FS_CardinalityType
<1>4. QED
  BY <1>2, <1>3

LEMMA ConnectedGrow ==
  ASSUME Types, NEW r \in Requests, Step(r) \/ Abort(r)
  PROVE  /\ Cardinality(Connected)' \in Nat /\ Cardinality(Connected) <= Cardinality(Connected)'
         /\ Finish(r) /\ r \in Owners => Cardinality(Connected)' = Cardinality(Connected) + 1
<1>1. pc \in [Requests -> {"new", "run", "done", "aborted"}] /\ Owners \subseteq Requests
  BY DEF Types, Requests
<1>2. IsFiniteSet(Connected) /\ IsFiniteSet(Connected)'
  <2>1. Connected \subseteq Owners /\ Connected' \subseteq Owners
    BY DEF Connected
  <2>2. QED
    BY <2>1, FS_Subset, RequestsAssumption
<1>3. CASE Finish(r)
  <2>1. Connected' = IF r \in Owners THEN Connected \cup {r} ELSE Connected
    BY <1>1, <1>3 DEF Finish, Connected
  <2>2. r \notin Connected
    BY <1>3 DEF Finish, Connected
  <2>3. QED
    BY <1>2, <1>3, <2>1, <2>2, FS_AddElement, FS_CardinalityType
<1>4. CASE ~Finish(r)
  <2>1. \/ UNCHANGED pc
        \/ /\ pc[r] # "done"
           /\ \E label \in {"run", "aborted"} : pc' = [pc EXCEPT ![r] = label]
    BY <1>4 DEF Step, Abort, Begin, TakeLock, Load, Drift, Claim, Replay, Send, Record, Settle,
       UpsertAccount, getTenantDek, setTenantKey, ReadVersion, upsertSecret, CachedToken,
       ReadUsername, ReadPassword, Login, StoreToken, Connections
  <2>2. Connected' = Connected
    BY <1>1, <2>1 DEF Connected
  <2>3. QED
    BY <1>2, <1>4, <2>2, FS_CardinalityType
<1>5. QED
  BY <1>3, <1>4

\* A commit keeps what is stored readable, and the key once there is one; nobody
\* else holds the account then.
LEMMA CommitOK ==
  ASSUME IInv, NEW r \in Requests, Finish(r)
  PROVE  /\ RowTypes(db)' /\ RowsOK'
         /\ db["key"] # None => db'["key"] = db["key"]
         /\ holder["account"] # r => db'["key"] = db["key"]
<1>1. /\ RowTypes(db) /\ RowTypes(own[r]) /\ OwnerOK(r) /\ LoginOK(r) /\ RowsOK
      /\ pc[r] = "run" /\ todo[r] = <<>> /\ db' = [f \in Fields |-> View(r, f)]
  BY DEF IInv, Types, RequestOK, Finish
<1>2. /\ db'["username"] = View(r, "username") /\ db'["key"] = View(r, "key")
      /\ db'["secret"] = View(r, "secret") /\ db'["token"] = View(r, "token")
      /\ db'["conf"] = View(r, "conf") /\ db'["resv"] = View(r, "resv")
      /\ db' = [f \in Fields |-> db'[f]]
  BY <1>1 DEF Fields
<1>3. RowTypes(db)'
  BY <1>1, <1>2 DEF RowTypes, View
<1>4. /\ db["key"] # None => db'["key"] = db["key"]
      /\ holder["account"] # r => db'["key"] = db["key"]
  BY <1>1, <1>2 DEF OwnerOK, View
<1>5. None \notin Owners
  BY RequestsAssumption DEF Requests
<1>6. ASSUME db'["token"] # None
      PROVE  db'["token"].key = db'["key"]
  <2>1. CASE own[r]["token"] # None
    BY <1>1, <1>2, <2>1 DEF LoginOK, OwnerOK, View
  <2>2. CASE own[r]["token"] = None
    <3>1. db["token"] # None /\ db'["token"] = db["token"]
      BY <1>2, <1>6, <2>2 DEF View
    <3>2. db["token"].key = db["key"] /\ db["token"].key \in Owners
      BY <1>1, <3>1 DEF RowsOK, AccountIsReadable, RowTypes, Tokens
    <3>3. QED
      BY <1>4, <1>5, <3>1, <3>2
  <2>3. QED
    BY <2>1, <2>2
<1>7. ASSUME db'["secret"] # None
      PROVE  /\ db'["secret"].key = db'["key"]
             /\ db'["secret"].version <= Cardinality(Connected)'
  <2>1. /\ Cardinality(Connected) \in Nat /\ Cardinality(Connected)' \in Nat
        /\ Cardinality(Connected) <= Cardinality(Connected)'
        /\ r \in Owners => Cardinality(Connected)' = Cardinality(Connected) + 1
    BY ConnectedGrow, ConnectedOwners DEF IInv, Step
  <2>2. CASE own[r]["secret"] # None
    <3>1. /\ db'["secret"] = own[r]["secret"] /\ r \in Owners
          /\ own[r]["secret"].key = View(r, "key")
          /\ own[r]["secret"].version <= Cardinality(Connected) + 1
      BY <1>1, <1>2, <2>2 DEF OwnerOK, View
    <3>2. QED
      BY <1>2, <2>1, <3>1
  <2>3. CASE own[r]["secret"] = None
    <3>1. db["secret"] # None /\ db'["secret"] = db["secret"]
      BY <1>2, <1>7, <2>3 DEF View
    <3>2. /\ db["secret"].key = db["key"] /\ db["secret"].key \in Owners
          /\ db["secret"].version \in Nat /\ db["secret"].version <= Cardinality(Connected)
      BY <1>1, <3>1, ConnectedOwners DEF RowsOK, AccountIsReadable, RowTypes, Secrets
    <3>3. QED
      BY <1>4, <1>5, <2>1, <3>1, <3>2
  <2>4. QED
    BY <2>2, <2>3
<1>8. QED
  BY <1>3, <1>4, <1>6, <1>7 DEF RowsOK, AccountIsReadable

LEMMA RowsHold ==
  ASSUME IInv, NEW r \in Requests, Step(r) \/ Abort(r)
  PROVE  /\ RowTypes(db)' /\ RowsOK'
         /\ db["key"] # None => db'["key"] = db["key"]
         /\ \A s \in Requests \ {r} : holder["account"] = s => db'["key"] = db["key"]
<1>1. CASE Finish(r)
  BY <1>1, CommitOK
<1>2. CASE ~Finish(r)
  <2>1. db' = db
    BY <1>2, RowsStay
  <2>2. /\ Cardinality(Connected) \in Nat /\ Cardinality(Connected)' \in Nat
        /\ Cardinality(Connected) <= Cardinality(Connected)'
    BY ConnectedGrow, ConnectedOwners DEF IInv
  <2>3. db["secret"] # None => db["secret"].version \in Nat
    BY ConnectedOwners DEF IInv, Types, RowTypes, Secrets
  <2>4. QED
    BY <2>1, <2>2, <2>3 DEF IInv, Types, RowTypes, RowsOK, AccountIsReadable
<1>3. QED
  BY <1>1, <1>2

LEMMA Bystander ==
  ASSUME IInv, NEW r \in Requests, Step(r) \/ Abort(r), NEW s \in Requests \ {r}
  PROVE  RequestOK(s)' /\ LocksOK(s)' /\ RowTypes(own[s])'
<1>1. /\ pc'[s] = pc[s] /\ todo'[s] = todo[s] /\ own'[s] = own[s] /\ read'[s] = read[s]
      /\ holder["account"] = s => holder'["account"] = s /\ db'["key"] = db["key"]
      /\ db["key"] # None => db'["key"] = db["key"]
  BY StepsArePrivate, RowsHold DEF IInv, Private, Locks
<1>2. RowTypes(own[s]) /\ RequestOK(s) /\ read[s] \in ReadTypes
  BY DEF IInv, Types
<1>3. /\ Cardinality(Connected) \in Nat /\ Cardinality(Connected)' \in Nat
      /\ Cardinality(Connected) <= Cardinality(Connected)'
  BY ConnectedGrow, ConnectedOwners DEF IInv
<1>4. OwnerOK(s)'
  <2>1. holder["account"] = s => View(s, "key")' = View(s, "key")
    BY <1>1 DEF View
  <2>2. own[s]["secret"] # None => own[s]["secret"].version \in Nat
    BY <1>2, ConnectedOwners DEF RowTypes, Secrets
  <2>3. read[s].version \in Nat
    BY <1>2, ConnectedOwners DEF ReadTypes
  <2>4. QED
    BY <1>1, <1>2, <1>3, <2>1, <2>2, <2>3 DEF RequestOK, OwnerOK, At
<1>5. LoginOK(s)'
  <2>1. own[s]["token"] # None => db["key"] # None
    BY <1>2, RequestsAssumption DEF RequestOK, LoginOK, RowTypes, Tokens, Requests
  <2>2. QED
    BY <1>1, <1>2, <2>1 DEF RequestOK, LoginOK, At
<1>6. s \in ran' => s \in ran
  BY DEF Step, Abort, Begin, Finish, TakeLock, Load, Drift, Claim, Replay, Send, Record,
     Settle, UpsertAccount, getTenantDek, setTenantKey, ReadVersion, upsertSecret, CachedToken,
     ReadUsername, ReadPassword, Login, StoreToken, outside
<1>7. LocksOK(s)'
  <2>1. \A l \in Locks : holder'[l] = s <=> holder[l] = s
    BY StepsArePrivate, RequestsAssumption DEF IInv, Private
  <2>2. LocksOK(s) /\ {"audit", "idem", "resv"} \subseteq Locks
    BY DEF IInv, Locks
  <2>3. QED
    BY <1>1, <2>1, <2>2 DEF LocksOK, At
<1>8. QED
  BY <1>1, <1>2, <1>4, <1>5, <1>6, <1>7 DEF RequestOK, SentOK

-----------------------------------------------------------------------------
(* What a step makes of its own request *)

\* A statement writes one field of a row.
LEMMA Written ==
  ASSUME NEW row, row = [f \in Fields |-> row[f]], NEW g \in Fields, NEW value, NEW new,
         new = [row EXCEPT ![g] = value]
  PROVE  /\ new[g] = value /\ new = [f \in Fields |-> new[f]]
         /\ \A f \in Fields \ {g} : new[f] = row[f]
OBVIOUS

LEMMA Rows == ASSUME IInv, NEW r \in Requests PROVE own[r] = [f \in Fields |-> own[r][f]]
<1>1. RowTypes(own[r])
  BY DEF IInv, Types
<1>2. QED
  BY <1>1 DEF RowTypes

\* A request at a step that takes only its lock, or none, and goes on elsewhere.
LEMMA GoesOn ==
  ASSUME IInv, NEW r \in Requests, Step(r), pc[r] = "run", todo[r] # <<>>,
         UNCHANGED <<db, pc>>, read'[r].version = read[r].version,
         \A f \in {"key", "secret", "token"} : own'[r][f] = own[r][f],
         ToDo(r, todo'[r]),
         r \in ran' => todo'[r] = <<>> \/ Head(todo'[r]) \in LastSteps,
         todo'[r] # <<>> => Head(todo'[r]) \notin {"key", "generate", "version", "secret",
                                                  "password", "login", "store"}
  PROVE  RequestOK(r)'
<1>1. RequestOK(r) /\ (holder["account"] = r => holder'["account"] = r)
  BY StepsArePrivate DEF IInv, RequestOK, Step, Begin, Finish, TakeLock, Load, Drift,
     Claim, Replay, Send, Record, Settle, UpsertAccount, getTenantDek, setTenantKey,
     ReadVersion, upsertSecret, CachedToken, ReadUsername, ReadPassword, Login, StoreToken,
     Take, Types, Locks
<1>2. Cardinality(Connected)' = Cardinality(Connected)
  BY DEF Connected
<1>3. own[r]["secret"] = None
  BY <1>1 DEF RequestOK, OwnerOK
<1>4. QED
  BY <1>1, <1>2, <1>3 DEF RequestOK, OwnerOK, LoginOK, SentOK, At, View

LEMMA BeginOK ==
  ASSUME IInv, NEW r \in Requests, Begin(r)
  PROVE  RequestOK(r)' /\ RowTypes(own[r])'
<1>1. /\ pc[r] = "new" /\ pc'[r] = "run" /\ todo'[r] = Program(r)
      /\ UNCHANGED <<db, own, holder, read, outside>> /\ own[r] = Nothing
      /\ RequestOK(r) /\ RowTypes(own[r])
  BY DEF IInv, Types, RequestOK, Begin, Then
<1>2. /\ Program(r) \in Seq(ProgramSteps) /\ Len(Program(r)) \in Nat
      /\ 3 <= Len(Program(r)) /\ Len(Program(r)) <= 9
  BY ProgramFacts
<1>3. 1 \in 1..Len(Program(r))
  BY <1>2
<1>4. ToDo(r, Program(r)) /\ Program(r) # <<>> /\ Head(Program(r)) = Program(r)[1]
  BY <1>2, <1>3, SuffixEmpty, Onwards
<1>5. /\ Program(r)[1] \in ProgramSteps
      /\ Program(r)[1] \notin {"key", "version", "secret"}
  BY <1>2, <1>3, ProgramFacts
<1>6. Cardinality(Connected)' = Cardinality(Connected)
  BY <1>1, SMTT(30) DEF IInv, Types, Begin, Connected
<1>7. r \notin ran
  BY <1>1 DEF RequestOK, SentOK
<1>8. QED
  BY <1>1, <1>4, <1>5, <1>6, <1>7
  DEF RequestOK, OwnerOK, LoginOK, SentOK, At, View, outside, ProgramSteps, Nothing, Fields

\* Nobody who has sent waits in a circle: the record is its own to write, under the
\* audit lock it holds, and whoever holds the reservation waits for nothing.
LEMMA NoneHasSent ==
  ASSUME IInv, NEW S \in SUBSET Connections, Circle(S), NEW r \in S
  PROVE  r \notin ran
<1> SUFFICES ASSUME r \in ran PROVE FALSE
  OBVIOUS
<1>1. /\ r \in Requests /\ pc[r] = "run" /\ S \subseteq Requests
      /\ holder \in [Locks -> Requests \cup {None}]
      /\ \A s \in Requests : RequestOK(s) /\ LocksOK(s)
  BY DEF Connections, IInv, Types
<1>2. \A s \in S : WaitsFor(s) \in S /\ WaitsFor(s) # None
  BY <1>1, RequestsAssumption DEF Circle
<1>3. WaitsFor(r) # r
  BY DEF Circle
<1>4. /\ Waits(r) /\ todo[r] # <<>> /\ Head(todo[r]) \in LastSteps
      /\ WaitsFor(r) = holder[LockOf[Head(todo[r])]]
  BY <1>1, <1>2 DEF WaitsFor, Waits, At, RequestOK, SentOK
<1>5. CASE Head(todo[r]) = "record"
  <2>1. r \in Callers \cup Approvers /\ WaitsFor(r) = holder["idem"]
    BY <1>1, <1>4, <1>5, RequestsAssumption DEF Waits, At, LockOf
  <2>2. holder["audit"] = r
    BY <1>1, <1>5, <2>1 DEF LocksOK, At
  <2>3. holder["audit"] = WaitsFor(r)
    BY <1>1, <1>2, <2>1 DEF LocksOK
  <2>4. QED
    BY <1>3, <2>2, <2>3
<1>6. CASE Head(todo[r]) \in {"settle", "release"}
  <2>1. WaitsFor(r) = holder["resv"]
    BY <1>4, <1>6 DEF LockOf
  <2>2. todo[WaitsFor(r)] = <<>>
    BY <1>1, <1>2, <2>1 DEF LocksOK
  <2>3. WaitsFor(WaitsFor(r)) = None
    BY <2>2 DEF WaitsFor, Waits, At
  <2>4. QED
    BY <1>2, <2>3
<1>7. QED
  BY <1>4, <1>5, <1>6 DEF LastSteps

\* The end of a transaction, by its commit or by the database.
LEMMA EndOK ==
  ASSUME IInv, NEW r \in Requests, Finish(r) \/ Abort(r)
  PROVE  RequestOK(r)' /\ RowTypes(own[r])'
<1>1. /\ own'[r] = Nothing /\ read'[r] = NoRead /\ pc'[r] \in {"done", "aborted"}
      /\ todo'[r] \in {todo[r], <<>>} /\ RequestOK(r) /\ ran' = ran
  BY DEF IInv, Types, Finish, Abort, Stop, Then, outside
<1>2. ToDo(r, <<>>)
  BY NothingLeft
<1>3. Cardinality(Connected)' \in Nat
  BY ConnectedGrow DEF IInv, Step
<1>4. r \in ran => pc'[r] = "done"
  BY NoneHasSent DEF IInv, Types, Finish, Abort
<1>5. RowTypes(Nothing)
  BY DEF RowTypes, Nothing, Fields
<1>6. QED
  BY <1>1, <1>2, <1>3, <1>4, <1>5
  DEF RequestOK, OwnerOK, LoginOK, SentOK, At, Nothing, NoRead, Fields

\* What each statement has at its beginning.
LEMMA AtStep ==
  ASSUME IInv, NEW r \in Requests, NEW steps \in SUBSET Steps, At(r, steps)
  PROVE  /\ pc[r] = "run" /\ todo[r] # <<>> /\ Head(todo[r]) \in steps
         /\ ToDo(r, todo[r]) /\ ToDo(r, Tail(todo[r])) /\ RequestOK(r) /\ RowTypes(own[r])
         /\ Tail(todo[r]) # <<>> => Preceded(Head(todo[r]), Head(Tail(todo[r])))
         /\ r \in Owners <=> Head(todo[r]) \in OwnerSteps
         /\ own[r]["secret"] = None
         /\ Head(todo[r]) \notin {"record", "settle", "release"} => r \notin ran
         /\ todo = [s \in Requests |-> todo[s]] /\ own = [s \in Requests |-> own[s]]
         /\ read \in [Requests -> ReadTypes]
         /\ holder \in [Locks -> Requests \cup {None}]
<1>1. /\ pc[r] = "run" /\ todo[r] # <<>> /\ Head(todo[r]) \in steps
      /\ ToDo(r, todo[r]) /\ RequestOK(r) /\ RowTypes(own[r])
  BY DEF At, IInv, Types, RequestOK
<1>2. /\ ToDo(r, Tail(todo[r]))
      /\ Tail(todo[r]) # <<>> => Preceded(Head(todo[r]), Head(Tail(todo[r])))
  BY <1>1, Advances
<1>3. r \in Owners <=> Head(todo[r]) \in OwnerSteps
  BY <1>1, Kinds
<1>4. /\ own[r]["secret"] = None
      /\ Head(todo[r]) \notin {"record", "settle", "release"} => r \notin ran
  BY <1>1 DEF RequestOK, OwnerOK, SentOK, LastSteps
<1>5. QED
  BY <1>1, <1>2, <1>3, <1>4 DEF IInv, Types

\* Nothing is left but the settlement of a confirmation the request has claimed.
LEMMA Ends ==
  ASSUME IInv, NEW r \in Requests, NEW settlement \in {"settle", "release"},
         End(r, settlement)
  PROVE  /\ todo'[r] \in {<<>>, <<settlement>>} /\ ToDo(r, todo'[r])
         /\ todo'[r] # <<>> => Head(todo'[r]) = settlement /\ r \in Settlers
<1>1. todo'[r] = IF own[r]["conf"] = r THEN <<settlement>> ELSE <<>>
  BY DEF IInv, Types, End, Then
<1>2. own[r]["conf"] = r => r \in Settlers
  BY RequestsAssumption DEF IInv, Types, RowTypes
<1>3. CASE own[r]["conf"] = r
  BY <1>1, <1>2, <1>3 DEF ToDo
<1>4. CASE own[r]["conf"] # r
  BY <1>1, <1>4, NothingLeft
<1>5. QED
  BY <1>3, <1>4

LEMMA LockOK ==
  ASSUME IInv, NEW r \in Requests, TakeLock(r) \/ Load(r) \/ Drift(r) \/ Record(r)
  PROVE  RequestOK(r)' /\ own'[r] = own[r] /\ read'[r] = read[r]
<1> DEFINE steps == {"policy", "audit", "load", "drift", "record"}
<1>1. At(r, steps) /\ UNCHANGED <<db, own, pc, read, ran>>
  BY DEF TakeLock, Load, Drift, Record, At, outside
<1>2. steps \subseteq Steps
  BY DEF Steps
<1>3. \/ todo'[r] = <<>> /\ r \notin ran
      \/ todo'[r] = Tail(todo[r])
      \/ todo'[r] = <<"release">> /\ Head(todo[r]) = "drift"
  BY <1>1, <1>2, AtStep DEF TakeLock, Load, Drift, Record, Advance, Stop, Then, At
<1>4. /\ ToDo(r, todo'[r])
      /\ todo'[r] # <<>> => Head(todo'[r]) \notin {"key", "generate", "version", "secret",
                                                  "password", "login", "store"}
      /\ r \in ran => todo'[r] = <<>> \/ Head(todo'[r]) \in LastSteps
  <2>1. CASE todo'[r] = <<>>
    BY <2>1, NothingLeft
  <2>2. CASE todo'[r] = Tail(todo[r])
    BY <1>1, <1>2, <2>2, AtStep DEF Preceded, LastSteps
  <2>3. CASE todo'[r] = <<"release">> /\ Head(todo[r]) = "drift"
    <3>1. r \in Settlers
      BY <1>1, <1>2, <2>3, AtStep, Approves
    <3>2. QED
      BY <2>3, <3>1 DEF ToDo, LastSteps
  <2>4. QED
    BY <1>3, <2>1, <2>2, <2>3
<1>5. QED
  BY <1>1, <1>2, <1>4, AtStep, GoesOn DEF Step

LEMMA ClaimOK ==
  ASSUME IInv, NEW r \in Requests, Claim(r)
  PROVE  RequestOK(r)' /\ RowTypes(own[r])' /\ read'[r] = read[r]
<1>1. At(r, {"conf"}) /\ UNCHANGED <<db, pc, read, ran>>
  BY DEF Claim, outside
<1>2. {"conf"} \subseteq Steps
  BY DEF Steps
<1>3. todo'[r] \in {<<>>, Tail(todo[r])}
  BY <1>1, <1>2, AtStep DEF Claim, Advance, Stop, Then
<1>4. /\ ToDo(r, todo'[r])
      /\ todo'[r] # <<>> => Head(todo'[r]) \notin {"key", "generate", "version", "secret",
                                                  "password", "login", "store"}
  <2>1. CASE todo'[r] = <<>>
    BY <2>1, NothingLeft
  <2>2. CASE todo'[r] = Tail(todo[r])
    BY <1>1, <1>2, <2>2, AtStep DEF Preceded
  <2>3. QED
    BY <1>3, <2>1, <2>2
<1>5. /\ \A f \in {"key", "secret", "token"} : own'[r][f] = own[r][f]
      /\ RowTypes(own[r])'
  <2>1. CASE own' = own
    BY <1>1, <1>2, <2>1, AtStep
  <2>2. CASE Write(r, "conf", r)
    <3>1. own'[r] = [own[r] EXCEPT !["conf"] = r] /\ r \in Settlers
      BY <1>1, <1>2, <2>2, AtStep, Approves DEF Write
    <3>2. /\ own'[r]["conf"] = r /\ own'[r]["resv"] = own[r]["resv"]
          /\ \A f \in {"username", "key", "secret", "token"} : own'[r][f] = own[r][f]
          /\ own'[r] = [f \in Fields |-> own'[r][f]]
      <4>1. /\ own'[r]["conf"] = r /\ own'[r] = [f \in Fields |-> own'[r][f]]
            /\ \A f \in Fields \ {"conf"} : own'[r][f] = own[r][f]
        <5>1. "conf" \in Fields /\ own[r] = [f \in Fields |-> own[r][f]]
          BY Rows DEF Fields
        <5>2. QED
          BY <3>1, <5>1, Written
      <4>2. QED
        BY <4>1 DEF Fields
    <3>3. QED
      BY <1>1, <1>2, <3>1, <3>2, AtStep DEF RowTypes
  <2>3. QED
    BY <2>1, <2>2 DEF Claim
<1>6. QED
  BY <1>1, <1>2, <1>4, <1>5, AtStep, GoesOn DEF Step

LEMMA ReplayOK ==
  ASSUME IInv, NEW r \in Requests, Replay(r)
  PROVE  RequestOK(r)' /\ own'[r] = own[r] /\ read'[r] = read[r]
<1>1. At(r, {"token"}) /\ End(r, "settle") /\ UNCHANGED <<db, own, pc, read, ran>>
  BY DEF Replay, outside
<1>2. {"token"} \subseteq Steps
  BY DEF Steps
<1>3. ToDo(r, todo'[r]) /\ (todo'[r] # <<>> => Head(todo'[r]) = "settle")
  BY <1>1, Ends
<1>4. QED
  BY <1>1, <1>2, <1>3, AtStep, GoesOn DEF Step

LEMMA SendOK ==
  ASSUME IInv, NEW r \in Requests, Send(r)
  PROVE  RequestOK(r)' /\ own'[r] = own[r] /\ read'[r] = read[r]
<1>1. At(r, {"send"}) /\ UNCHANGED <<db, own, pc, read>> /\ (Advance(r) \/ Fail(r))
  BY DEF Send
<1>2. {"send"} \subseteq Steps
  BY DEF Steps
<1>3. /\ ToDo(r, todo'[r])
      /\ todo'[r] # <<>> => Head(todo'[r]) \in {"record", "settle", "release"}
  <2>1. CASE Advance(r)
    BY <1>1, <1>2, <2>1, AtStep DEF Advance, Then, Preceded
  <2>2. CASE Fail(r)
    BY <2>2, Ends DEF Fail
  <2>3. QED
    BY <1>1, <2>1, <2>2
<1>4. QED
  BY <1>1, <1>2, <1>3, AtStep, GoesOn DEF Step, LastSteps

LEMMA SettleOK ==
  ASSUME IInv, NEW r \in Requests, Settle(r)
  PROVE  RequestOK(r)' /\ RowTypes(own[r])' /\ read'[r] = read[r]
<1>1. At(r, {"settle", "release"}) /\ Advance(r) /\ UNCHANGED <<db, pc, read, ran>>
  BY DEF Settle, outside
<1>2. {"settle", "release"} \subseteq Steps
  BY DEF Steps
<1>3. todo'[r] = <<>>
  BY <1>1, <1>2, AtStep DEF Advance, Then, Preceded
<1>4. r \in Settlers
  BY <1>1, <1>2, AtStep, Approves
<1>5. /\ \A f \in {"username", "key", "secret", "token"} : own'[r][f] = own[r][f]
      /\ own'[r]["conf"] \in {own[r]["conf"], None}
      /\ own'[r]["resv"] \in {own[r]["resv"], r}
      /\ own'[r] = [f \in Fields |-> own'[r][f]]
  <2> DEFINE row == IF At(r, {"release"}) THEN [own[r] EXCEPT !["conf"] = None] ELSE own[r]
  <2>1. /\ \A f \in {"username", "key", "secret", "token", "resv"} : row[f] = own[r][f]
        /\ row["conf"] \in {own[r]["conf"], None} /\ row = [f \in Fields |-> row[f]]
    <3>1. own[r] = [f \in Fields |-> own[r][f]] /\ "conf" \in Fields
      BY Rows DEF Fields
    <3>2. CASE ~At(r, {"release"})
      BY <3>1, <3>2
    <3>3. CASE At(r, {"release"})
      <4> HIDE DEF row
      <4>1. row = [own[r] EXCEPT !["conf"] = None]
        BY <3>3 DEF row
      <4>2. /\ row["conf"] = None /\ row = [f \in Fields |-> row[f]]
            /\ \A f \in Fields \ {"conf"} : row[f] = own[r][f]
        BY <3>1, <4>1, Written
      <4>3. QED
        BY <4>2 DEF Fields
    <3>4. QED
      BY <3>2, <3>3
  <2>2. own'[r] \in {row, [row EXCEPT !["resv"] = r]}
    BY <1>1, <1>2, AtStep DEF Settle
  <2> HIDE DEF row
  <2>3. CASE own'[r] = [row EXCEPT !["resv"] = r]
    <3>1. /\ own'[r]["resv"] = r /\ own'[r] = [f \in Fields |-> own'[r][f]]
          /\ \A f \in Fields \ {"resv"} : own'[r][f] = row[f]
      <4>1. "resv" \in Fields /\ row = [f \in Fields |-> row[f]]
        BY <2>1 DEF Fields
      <4>2. QED
        BY <2>3, <4>1, Written
    <3>2. QED
      BY <2>1, <3>1 DEF Fields
  <2>4. CASE own'[r] = row
    BY <2>1, <2>4
  <2>5. QED
    BY <2>2, <2>3, <2>4
<1>6. RowTypes(own[r])'
  BY <1>1, <1>2, <1>4, <1>5, AtStep DEF RowTypes
<1>7. QED
  BY <1>1, <1>2, <1>3, <1>5, <1>6, AtStep, GoesOn, NothingLeft DEF Step

LEMMA UpsertAccountOK ==
  ASSUME IInv, NEW r \in Requests, UpsertAccount(r)
  PROVE  RequestOK(r)' /\ RowTypes(own[r])' /\ read'[r] = read[r]
<1>1. /\ At(r, {"account"}) /\ Take(r, "account") /\ Write(r, "username", r)
      /\ Advance(r) /\ UNCHANGED <<db, pc, read, ran>>
  BY DEF UpsertAccount, outside
<1>2. {"account"} \subseteq Steps /\ "account" \in Locks
  BY DEF Steps, Locks
<1>3. r \in Owners
  BY <1>1, <1>2, AtStep DEF OwnerSteps
<1>4. /\ own'[r] = [own[r] EXCEPT !["username"] = r] /\ todo'[r] = Tail(todo[r])
      /\ holder'["account"] = r
  BY <1>1, <1>2, AtStep DEF Write, Advance, Then, Take
<1>5. /\ own'[r]["username"] = r /\ own'[r]["key"] = own[r]["key"]
      /\ own'[r]["secret"] = own[r]["secret"] /\ own'[r]["token"] = own[r]["token"]
      /\ own'[r]["conf"] = own[r]["conf"] /\ own'[r]["resv"] = own[r]["resv"]
      /\ own'[r] = [f \in Fields |-> own'[r][f]]
  <2>1. "username" \in Fields /\ own[r] = [f \in Fields |-> own[r][f]]
    BY Rows DEF Fields
  <2>2. /\ own'[r]["username"] = r /\ own'[r] = [f \in Fields |-> own'[r][f]]
        /\ \A f \in Fields \ {"username"} : own'[r][f] = own[r][f]
    BY <1>4, <2>1, Written
  <2>3. QED
    BY <2>2 DEF Fields
<1>6. Cardinality(Connected)' = Cardinality(Connected)
  BY <1>1 DEF Connected
<1>7. RowTypes(own[r])'
  BY <1>1, <1>2, <1>3, <1>5, AtStep DEF RowTypes
<1>8. QED
  BY <1>1, <1>2, <1>3, <1>4, <1>5, <1>6, <1>7, AtStep
  DEF RequestOK, OwnerOK, LoginOK, SentOK, At, View, Preceded

LEMMA getTenantDekOK ==
  ASSUME IInv, NEW r \in Requests, getTenantDek(r)
  PROVE  RequestOK(r)' /\ own'[r] = own[r] /\ read'[r] \in ReadTypes
<1>1. At(r, {"key"}) /\ UNCHANGED <<db, own, holder, pc, ran>>
  BY DEF getTenantDek, outside
<1>2. {"key"} \subseteq Steps
  BY DEF Steps
<1>3. Cardinality(Connected)' = Cardinality(Connected)
  BY <1>1 DEF Connected
<1>4. View(r, "key") \in Owners \cup {None} /\ read[r] \in ReadTypes
  BY <1>1, <1>2, AtStep DEF IInv, Types, RowTypes, View
<1>5. CASE View(r, "key") = None
  <2>1. todo'[r] = <<"generate">> \o Tail(todo[r]) /\ UNCHANGED read
    BY <1>1, <1>2, <1>5, AtStep DEF getTenantDek, Then
  <2>2. ToDo(r, todo'[r]) /\ Head(todo'[r]) = "generate"
    BY <1>1, <1>2, <2>1, AtStep, Generates
  <2>3. QED
    BY <1>1, <1>2, <1>3, <1>4, <1>5, <2>1, <2>2, AtStep
    DEF RequestOK, OwnerOK, LoginOK, SentOK, At, View
<1>6. CASE View(r, "key") # None
  <2>1. /\ todo'[r] = Tail(todo[r])
        /\ read' = [read EXCEPT ![r].key = View(r, "key")]
    BY <1>1, <1>2, <1>6, AtStep DEF getTenantDek, Then, Advance
  <2>2. /\ read'[r].key = View(r, "key") /\ read'[r].version = read[r].version
        /\ read'[r].username = read[r].username /\ read'[r] \in ReadTypes
    <3>1. read'[r] = [read[r] EXCEPT !.key = View(r, "key")]
      BY <1>1, <1>2, <2>1, AtStep
    <3>2. QED
      BY <1>4, <3>1 DEF ReadTypes
  <2>3. QED
    BY <1>1, <1>2, <1>3, <1>6, <2>1, <2>2, AtStep
    DEF RequestOK, OwnerOK, LoginOK, SentOK, At, View, Preceded
<1>7. QED
  BY <1>5, <1>6

LEMMA setTenantKeyOK ==
  ASSUME IInv, NEW r \in Requests, setTenantKey(r)
  PROVE  RequestOK(r)' /\ RowTypes(own[r])' /\ read'[r] \in ReadTypes
<1>1. /\ At(r, {"generate"}) /\ Take(r, "key") /\ Write(r, "key", r) /\ Advance(r)
      /\ read' = [read EXCEPT ![r].key = r] /\ UNCHANGED <<db, pc, ran>>
  BY DEF setTenantKey, outside
<1>2. {"generate"} \subseteq Steps /\ "key" \in Locks /\ "account" \in Locks
  BY DEF Steps, Locks
<1>3. r \in Owners /\ r # None
  BY <1>1, <1>2, AtStep, RequestsAssumption DEF OwnerSteps
<1>4. /\ own'[r] = [own[r] EXCEPT !["key"] = r] /\ todo'[r] = Tail(todo[r])
      /\ holder'["account"] = holder["account"]
  BY <1>1, <1>2, AtStep DEF Write, Advance, Then, Take
<1>5. /\ own'[r]["key"] = r /\ own'[r]["username"] = own[r]["username"]
      /\ own'[r]["secret"] = own[r]["secret"] /\ own'[r]["token"] = own[r]["token"]
      /\ own'[r]["conf"] = own[r]["conf"] /\ own'[r]["resv"] = own[r]["resv"]
      /\ own'[r] = [f \in Fields |-> own'[r][f]]
  <2>1. "key" \in Fields /\ own[r] = [f \in Fields |-> own[r][f]]
    BY Rows DEF Fields
  <2>2. /\ own'[r]["key"] = r /\ own'[r] = [f \in Fields |-> own'[r][f]]
        /\ \A f \in Fields \ {"key"} : own'[r][f] = own[r][f]
    BY <1>4, <2>1, Written
  <2>3. QED
    BY <2>2 DEF Fields
<1>6. /\ read'[r].key = r /\ read'[r].version = read[r].version
      /\ read'[r].username = read[r].username /\ read'[r] \in ReadTypes
  <2>1. read'[r] = [read[r] EXCEPT !.key = r] /\ read[r] \in ReadTypes
    BY <1>1, <1>2, AtStep
  <2>2. QED
    BY <1>3, <2>1 DEF ReadTypes
<1>7. Cardinality(Connected)' = Cardinality(Connected)
  BY <1>1 DEF Connected
<1>8. RowTypes(own[r])'
  BY <1>1, <1>2, <1>3, <1>5, AtStep DEF RowTypes
<1>9. holder["account"] = r /\ db["key"] = None
  BY <1>1, <1>2, AtStep DEF RequestOK, OwnerOK, At, View
<1>10. QED
  BY <1>1, <1>2, <1>3, <1>4, <1>5, <1>6, <1>7, <1>8, <1>9, AtStep
  DEF RequestOK, OwnerOK, LoginOK, SentOK, At, View, Preceded

LEMMA ReadVersionOK ==
  ASSUME IInv, NEW r \in Requests, ReadVersion(r)
  PROVE  RequestOK(r)' /\ own'[r] = own[r] /\ read'[r] \in ReadTypes
<1> DEFINE prev == View(r, "secret")
           version == IF prev = None THEN 0 ELSE prev.version
<1>1. /\ At(r, {"version"}) /\ read' = [read EXCEPT ![r].version = version] /\ Advance(r)
      /\ UNCHANGED <<db, own, holder, pc, ran>>
  BY DEF ReadVersion, outside
<1>2. {"version"} \subseteq Steps
  BY DEF Steps
<1>3. /\ version \in 0..Cardinality(Owners) /\ version <= Cardinality(Connected)
  <2>1. prev = db["secret"]
    BY <1>1, <1>2, AtStep DEF View
  <2>2. RowTypes(db) /\ RowsOK
    BY DEF IInv, Types
  <2>3. prev # None => /\ prev.version \in 1..Cardinality(Owners)
                       /\ prev.version <= Cardinality(Connected)
    BY <2>1, <2>2 DEF RowTypes, RowsOK, Secrets
  <2>4. QED
    BY <2>3, ConnectedOwners
<1> HIDE DEF version, prev
<1>4. /\ todo'[r] = Tail(todo[r]) /\ read'[r] = [read[r] EXCEPT !.version = version]
      /\ read[r] \in ReadTypes
  BY <1>1, <1>2, AtStep DEF Advance, Then
<1>5. /\ read'[r].key = read[r].key /\ read'[r].version = version
      /\ read'[r].username = read[r].username /\ read'[r] \in ReadTypes
  BY <1>3, <1>4 DEF ReadTypes
<1>6. Cardinality(Connected)' = Cardinality(Connected)
  BY <1>1 DEF Connected
<1>7. QED
  BY <1>1, <1>2, <1>3, <1>4, <1>5, <1>6, AtStep
  DEF RequestOK, OwnerOK, LoginOK, SentOK, At, View, Preceded

LEMMA upsertSecretOK ==
  ASSUME IInv, NEW r \in Requests, upsertSecret(r)
  PROVE  RequestOK(r)' /\ RowTypes(own[r])' /\ read'[r] = read[r]
<1> DEFINE secret == [password |-> r, key |-> read[r].key, version |-> read[r].version + 1]
<1>1. /\ At(r, {"secret"}) /\ Take(r, "secret") /\ Write(r, "secret", secret) /\ Advance(r)
      /\ UNCHANGED <<db, pc, read, ran>>
  BY DEF upsertSecret, outside
<1>2. {"secret"} \subseteq Steps /\ "secret" \in Locks /\ "account" \in Locks
  BY DEF Steps, Locks
<1>3. r \in Owners /\ r # None /\ r \notin Connected
  BY <1>1, <1>2, AtStep, RequestsAssumption DEF OwnerSteps, Connected
<1>4. /\ read[r] \in ReadTypes /\ read[r].key # None /\ read[r].key = View(r, "key")
      /\ read[r].version <= Cardinality(Connected) /\ holder["account"] = r
  BY <1>1, <1>2, AtStep DEF RequestOK, OwnerOK, At
<1>5. /\ secret \in Secrets /\ secret.key = View(r, "key")
      /\ secret.version <= Cardinality(Connected) + 1
  <2>1. read[r].key \in Owners /\ read[r].version \in Nat
    BY <1>4, ConnectedOwners DEF ReadTypes
  <2>2. read[r].version + 1 \in 1..Cardinality(Owners)
    BY <1>3, <1>4, <2>1, ConnectedOwners
  <2>3. QED
    BY <1>3, <1>4, <2>1, <2>2, ConnectedOwners DEF Secrets
<1> HIDE DEF secret
<1>6. /\ own'[r] = [own[r] EXCEPT !["secret"] = secret] /\ todo'[r] = Tail(todo[r])
      /\ holder'["account"] = r
  BY <1>1, <1>2, <1>4, AtStep DEF Write, Advance, Then, Take
<1>7. /\ own'[r]["secret"] = secret /\ own'[r]["username"] = own[r]["username"]
      /\ own'[r]["key"] = own[r]["key"] /\ own'[r]["token"] = own[r]["token"]
      /\ own'[r]["conf"] = own[r]["conf"] /\ own'[r]["resv"] = own[r]["resv"]
      /\ own'[r] = [f \in Fields |-> own'[r][f]]
  <2>1. "secret" \in Fields /\ own[r] = [f \in Fields |-> own[r][f]]
    BY Rows DEF Fields
  <2>2. /\ own'[r]["secret"] = secret /\ own'[r] = [f \in Fields |-> own'[r][f]]
        /\ \A f \in Fields \ {"secret"} : own'[r][f] = own[r][f]
    BY <1>6, <2>1, Written
  <2>3. QED
    BY <2>2 DEF Fields
<1>8. Cardinality(Connected)' = Cardinality(Connected)
  BY <1>1 DEF Connected
<1>9. RowTypes(own[r])'
  BY <1>1, <1>2, <1>5, <1>7, AtStep DEF RowTypes
<1>10. todo'[r] = <<>>
  BY <1>1, <1>2, <1>6, AtStep DEF Preceded
<1>11. RequestOK(r) /\ pc[r] = "run" /\ r \notin ran
  BY <1>1, <1>2, AtStep
<1>12. View(r, "key")' = View(r, "key")
  BY <1>1, <1>7 DEF View
<1>13. OwnerOK(r)'
  BY <1>1, <1>3, <1>4, <1>5, <1>6, <1>7, <1>8, <1>10, <1>11, <1>12 DEF RequestOK, OwnerOK, At
<1>14. LoginOK(r)' /\ SentOK(r)'
  BY <1>1, <1>7, <1>10, <1>11 DEF RequestOK, LoginOK, SentOK, At
<1>15. QED
  BY <1>1, <1>9, <1>10, <1>11, <1>13, <1>14, NothingLeft DEF RequestOK

LEMMA CachedTokenOK ==
  ASSUME IInv, NEW r \in Requests, CachedToken(r)
  PROVE  RequestOK(r)' /\ own'[r] = own[r] /\ read'[r] = read[r]
<1>1. At(r, {"price", "token"}) /\ UNCHANGED <<db, own, holder, pc, read, ran>>
  BY DEF CachedToken, outside
<1>2. {"price", "token"} \subseteq Steps
  BY DEF Steps
<1>3. todo'[r] \in {LoginSteps \o todo[r], Tail(todo[r])} \/ Fail(r)
  <2>1. \/ Then(r, <<"username", "password", "login", "store">> \o todo[r])
        \/ Advance(r) \/ Fail(r)
    BY Zenon DEF CachedToken
  <2>2. QED
    BY <1>1, <1>2, <2>1, AtStep DEF Advance, Then, LoginSteps
<1>4. /\ ToDo(r, todo'[r])
      /\ todo'[r] # <<>> => Head(todo'[r]) \notin {"key", "generate", "version", "secret",
                                                  "password", "login", "store"}
  <2>1. CASE todo'[r] = LoginSteps \o todo[r]
    BY <1>1, <1>2, <2>1, AtStep, LogsIn
  <2>2. CASE todo'[r] = Tail(todo[r])
    BY <1>1, <1>2, <2>2, AtStep DEF Preceded
  <2>3. CASE Fail(r)
    BY <2>3, Ends DEF Fail
  <2>4. QED
    BY <1>3, <2>1, <2>2, <2>3
<1>5. QED
  BY <1>1, <1>2, <1>4, AtStep, GoesOn DEF Step

LEMMA ReadUsernameOK ==
  ASSUME IInv, NEW r \in Requests, ReadUsername(r)
  PROVE  RequestOK(r)' /\ own'[r] = own[r] /\ read'[r] \in ReadTypes
<1>1. /\ At(r, {"username"}) /\ UNCHANGED <<db, own, holder, pc, ran>>
      /\ read' = [read EXCEPT ![r].username = View(r, "username")]
  BY DEF ReadUsername, outside
<1>2. {"username"} \subseteq Steps
  BY DEF Steps
<1>3. View(r, "username") \in Owners \cup {None} /\ read[r] \in ReadTypes
  BY <1>1, <1>2, AtStep DEF IInv, Types, RowTypes, View
<1>4. /\ read'[r].username = View(r, "username") /\ read'[r].version = read[r].version
      /\ read'[r].key = read[r].key /\ read'[r] \in ReadTypes
  <2>1. read'[r] = [read[r] EXCEPT !.username = View(r, "username")]
    BY <1>1, <1>2, AtStep
  <2>2. QED
    BY <1>3, <2>1 DEF ReadTypes
<1>5. CASE View(r, "username") # None
  <2>1. todo'[r] = Tail(todo[r])
    BY <1>1, <1>2, <1>5, AtStep DEF ReadUsername, Advance, Then
  <2>2. Cardinality(Connected)' = Cardinality(Connected)
    BY <1>1 DEF Connected
  <2>3. QED
    BY <1>1, <1>2, <1>4, <1>5, <2>1, <2>2, AtStep
    DEF RequestOK, OwnerOK, LoginOK, SentOK, At, View, Preceded
<1>6. CASE View(r, "username") = None
  <2>1. todo'[r] = From(todo[r], 6) \/ Fail(r)
    BY <1>1, <1>2, <1>6, AtStep DEF ReadUsername, Got, Then, From
  <2>2. /\ ToDo(r, todo'[r])
        /\ todo'[r] # <<>> => /\ Head(todo'[r]) \in ProgramSteps \cup {"release"}
                              /\ r \notin Owners
    <3>1. CASE Fail(r)
      BY <3>1, Ends, SettlersOwnNothing DEF Fail
    <3>2. CASE todo'[r] = From(todo[r], 6)
      <4>1. /\ ToDo(r, From(todo[r], 5 + 1))
            /\ From(todo[r], 5 + 1) # <<>> => Head(From(todo[r], 5 + 1)) \in ProgramSteps
        BY <1>1, <1>2, AtStep, LoginEnds
      <4>2. r \notin Owners
        BY <1>1, <1>2, AtStep DEF OwnerSteps
      <4>3. QED
        BY <3>2, <4>1, <4>2
    <3>3. QED
      BY <2>1, <3>1, <3>2
  <2>3. todo'[r] # <<>> => Head(todo'[r]) \notin {"key", "generate", "version", "secret",
                                                 "password", "login", "store"}
    BY <2>2, Kinds DEF OwnerSteps, ProgramSteps
  <2>4. QED
    BY <1>1, <1>2, <1>4, <2>2, <2>3, AtStep, GoesOn DEF Step
<1>7. QED
  BY <1>4, <1>5, <1>6, <1>1

LEMMA ReadPasswordOK ==
  ASSUME IInv, NEW r \in Requests, ReadPassword(r)
  PROVE  RequestOK(r)' /\ own'[r] = own[r] /\ read'[r] \in ReadTypes
<1> DEFINE secret == View(r, "secret")
<1>1. At(r, {"password"}) /\ UNCHANGED <<db, own, holder, pc, ran>>
  BY DEF ReadPassword, outside
<1>2. {"password"} \subseteq Steps
  BY DEF Steps
<1>3. secret = db["secret"] /\ RowTypes(db) /\ read[r] \in ReadTypes
  BY <1>1, <1>2, AtStep DEF IInv, Types, View
<1>4. CASE secret # None /\ Opens(r, secret)
  <2>1. /\ todo'[r] = Tail(todo[r])
        /\ read'[r] = [read[r] EXCEPT !.password = secret.password]
    <3>1. Advance(r) /\ read' = [read EXCEPT ![r].password = secret.password]
      BY <1>4 DEF ReadPassword
    <3>2. QED
      BY <1>1, <1>2, <3>1, AtStep DEF Advance, Then
  <2>2. secret \in Secrets /\ secret.key = db["key"]
    BY <1>3, <1>4 DEF RowTypes, IInv, RowsOK, AccountIsReadable
  <2>3. secret.password \in Owners /\ db["key"] # None
    BY <2>2, RequestsAssumption DEF Secrets, Requests
  <2> HIDE DEF secret
  <2>4. /\ read'[r].username = read[r].username /\ read'[r].version = read[r].version
        /\ read'[r].key = read[r].key /\ read'[r] \in ReadTypes
    BY <1>3, <2>1, <2>3 DEF ReadTypes
  <2>5. Cardinality(Connected)' = Cardinality(Connected)
    BY <1>1 DEF Connected
  <2>6. read[r].username # None
    BY <1>1, <1>2, AtStep DEF RequestOK, LoginOK, At
  <2>7. QED
    BY <1>1, <1>2, <2>1, <2>3, <2>4, <2>5, <2>6, AtStep
    DEF RequestOK, OwnerOK, LoginOK, SentOK, At, View, Preceded
<1>5. CASE ~(secret # None /\ Opens(r, secret))
  <2>1. Fail(r) /\ read' = read
    BY <1>5 DEF ReadPassword
  <2>2. ToDo(r, todo'[r]) /\ (todo'[r] # <<>> => Head(todo'[r]) = "release")
    BY <2>1, Ends DEF Fail
  <2>3. QED
    BY <1>1, <1>2, <1>3, <2>1, <2>2, AtStep, GoesOn DEF Step
<1>6. QED
  BY <1>4, <1>5

LEMMA LoginStepOK ==
  ASSUME IInv, NEW r \in Requests, Login(r)
  PROVE  RequestOK(r)' /\ own'[r] = own[r] /\ read'[r] = read[r]
<1>1. At(r, {"login"}) /\ UNCHANGED <<db, own, holder, pc, read, ran>>
  BY DEF Login, outside
<1>2. {"login"} \subseteq Steps
  BY DEF Steps
<1>3. CASE Advance(r)
  <2>1. todo'[r] = Tail(todo[r])
    BY <1>1, <1>2, <1>3, AtStep DEF Advance, Then
  <2>2. Cardinality(Connected)' = Cardinality(Connected)
    BY <1>1 DEF Connected
  <2>3. QED
    BY <1>1, <1>2, <2>1, <2>2, AtStep
    DEF RequestOK, OwnerOK, LoginOK, SentOK, At, View, Preceded
<1>4. CASE Fail(r)
  <2>1. ToDo(r, todo'[r]) /\ (todo'[r] # <<>> => Head(todo'[r]) = "release")
    BY <1>4, Ends DEF Fail
  <2>2. QED
    BY <1>1, <1>2, <2>1, AtStep, GoesOn DEF Step
<1>5. QED
  BY <1>3, <1>4 DEF Login

LEMMA StoreTokenOK ==
  ASSUME IInv, NEW r \in Requests, StoreToken(r)
  PROVE  RequestOK(r)' /\ RowTypes(own[r])' /\ read'[r] = read[r]
<1> DEFINE token == [of |-> read[r].username, key |-> View(r, "key")]
<1>1. /\ At(r, {"store"}) /\ Take(r, "account") /\ Write(r, "token", token) /\ Got(r, 1)
      /\ UNCHANGED <<db, pc, read, ran>>
  BY DEF StoreToken, outside
<1>2. {"store"} \subseteq Steps /\ "account" \in Locks
  BY DEF Steps, Locks
<1>3. r \notin Owners
  BY <1>1, <1>2, AtStep DEF OwnerSteps
<1>4. own[r]["key"] = None /\ View(r, "key") = db["key"]
  BY <1>1, <1>2, <1>3, AtStep DEF RequestOK, OwnerOK, View
<1>5. token \in Tokens /\ token.key = db["key"]
  <2>1. read[r].username # None /\ db["key"] # None /\ read[r] \in ReadTypes
    BY <1>1, <1>2, AtStep DEF RequestOK, LoginOK, At
  <2>2. read[r].username \in Owners /\ db["key"] \in Owners
    BY <2>1 DEF ReadTypes, IInv, Types, RowTypes
  <2>3. QED
    BY <1>4, <2>2 DEF Tokens
<1> HIDE DEF token
<1>6. /\ own'[r] = [own[r] EXCEPT !["token"] = token] /\ todo'[r] = From(todo[r], 3)
  BY <1>1, <1>2, AtStep DEF Write, Got, Then, From
<1>7. /\ own'[r]["token"] = token /\ own'[r]["username"] = own[r]["username"]
      /\ own'[r]["key"] = own[r]["key"] /\ own'[r]["secret"] = own[r]["secret"]
      /\ own'[r]["conf"] = own[r]["conf"] /\ own'[r]["resv"] = own[r]["resv"]
      /\ own'[r] = [f \in Fields |-> own'[r][f]]
  <2>1. "token" \in Fields /\ own[r] = [f \in Fields |-> own[r][f]]
    BY Rows DEF Fields
  <2>2. /\ own'[r]["token"] = token /\ own'[r] = [f \in Fields |-> own'[r][f]]
        /\ \A f \in Fields \ {"token"} : own'[r][f] = own[r][f]
    BY <1>6, <2>1, Written
  <2>3. QED
    BY <2>2 DEF Fields
<1>8. Cardinality(Connected)' = Cardinality(Connected)
  BY <1>1 DEF Connected
<1>9. RowTypes(own[r])'
  BY <1>1, <1>2, <1>5, <1>7, AtStep DEF RowTypes
<1>10. /\ ToDo(r, todo'[r])
       /\ todo'[r] # <<>> => Head(todo'[r]) \in ProgramSteps
  <2>1. /\ ToDo(r, From(todo[r], 2 + 1))
        /\ From(todo[r], 2 + 1) # <<>> => Head(From(todo[r], 2 + 1)) \in ProgramSteps
    BY <1>1, <1>2, AtStep, LoginEnds
  <2>2. QED
    BY <1>6, <2>1
<1>11. todo'[r] # <<>> => Head(todo'[r]) \notin OwnerSteps
  BY <1>3, <1>10, Kinds
<1>12. QED
  BY <1>1, <1>2, <1>3, <1>4, <1>5, <1>7, <1>8, <1>9, <1>10, <1>11, AtStep
  DEF RequestOK, OwnerOK, LoginOK, SentOK, At, View, OwnerSteps, ProgramSteps

-----------------------------------------------------------------------------
(* The locks a request holds *)

LEMMA OwnLocks ==
  ASSUME IInv, NEW r \in Requests, Step(r) \/ Abort(r)
  PROVE  LocksOK(r)'
<1>1. /\ LocksOK(r) /\ holder \in [Locks -> Requests \cup {None}] /\ r # None
      /\ pc \in [Requests -> {"new", "run", "done", "aborted"}]
      /\ todo = [s \in Requests |-> todo[s]]
      /\ {"audit", "idem", "resv"} \subseteq Locks
  BY RequestsAssumption DEF IInv, Types, Locks
<1>2. CASE Finish(r) \/ Abort(r)
  <2>1. /\ pc'[r] # "run" /\ \A l \in Locks : holder'[l] # r
    BY <1>1, <1>2 DEF Finish, Abort, Released
  <2>2. QED
    BY <1>1, <2>1 DEF LocksOK
<1>3. CASE Begin(r)
  <2>1. /\ pc[r] = "new" /\ pc'[r] = "run" /\ todo'[r] = Program(r) /\ holder' = holder
    BY <1>1, <1>3 DEF Begin, Then
  <2>2. /\ Program(r) \in Seq(ProgramSteps) /\ Len(Program(r)) \in Nat
        /\ 3 <= Len(Program(r))
        /\ r \in Callers \cup Approvers => Program(r)[1] = "audit"
    BY ProgramFacts
  <2>3. r \in Callers \cup Approvers => At(r, {"audit"})'
    BY <2>1, <2>2 DEF At
  <2>4. QED
    BY <1>1, <2>1, <2>3 DEF LocksOK
<1>4. CASE TakeLock(r)
  <2>1. /\ At(r, {"policy", "audit"}) /\ holder' = [holder EXCEPT ![Head(todo[r])] = r]
    BY <1>4 DEF TakeLock, Take
  <2>2. /\ At(r, {"audit"}) => holder'["audit"] = r
        /\ ~At(r, {"audit"}) => holder'["audit"] = holder["audit"]
        /\ holder'["idem"] = holder["idem"] /\ holder'["resv"] = holder["resv"]
    BY <1>1, <2>1 DEF At
  <2>3. holder["idem"] = r => holder'["audit"] = r
    BY <1>1, <2>2 DEF LocksOK
  <2>4. QED
    BY <1>1, <2>1, <2>2, <2>3 DEF LocksOK, At
<1>5. CASE Record(r)
  <2>1. /\ At(r, {"record"}) /\ holder'["audit"] = holder["audit"]
        /\ holder'["resv"] = holder["resv"]
        /\ holder'["idem"] = r => r \in Creators \/ holder["idem"] = r
    BY <1>1, <1>5 DEF Record, Take
  <2>2. r \in Callers \cup Approvers => holder["audit"] = r
    BY <1>1, <2>1 DEF LocksOK, At
  <2>3. QED
    BY <1>1, <2>1, <2>2, RequestsAssumption DEF LocksOK, At
<1>6. CASE Settle(r)
  <2>1. /\ At(r, {"settle", "release"}) /\ Advance(r) /\ pc' = pc
        /\ holder'["audit"] = holder["audit"] /\ holder'["idem"] = holder["idem"]
    BY <1>1, <1>6 DEF Settle, Take
  <2>2. pc'[r] = "run" /\ todo'[r] = <<>>
    <3>1. {"settle", "release"} \subseteq Steps
      BY DEF Steps
    <3>2. QED
      BY <2>1, <3>1, AtStep DEF Advance, Then, Preceded
  <2>3. QED
    BY <1>1, <2>1, <2>2 DEF LocksOK, At
<1>7. CASE ~(\/ Finish(r) \/ Abort(r) \/ Begin(r) \/ TakeLock(r) \/ Record(r)
             \/ Settle(r))
  <2>1. /\ pc[r] = "run" /\ todo[r] # <<>> /\ Head(todo[r]) # "audit"
        /\ \/ UNCHANGED holder
           \/ \E lock \in {"account", "key", "secret", "conf"} : Take(r, lock)
    BY <1>7 DEF Step, Load, Drift, Claim, Replay, Send, UpsertAccount, getTenantDek,
       setTenantKey, ReadVersion, upsertSecret, CachedToken, ReadUsername, ReadPassword,
       Login, StoreToken, At, outside
  <2>2. /\ holder'["audit"] = holder["audit"] /\ holder'["idem"] = holder["idem"]
        /\ holder'["resv"] = holder["resv"]
    BY <1>1, <2>1 DEF Take
  <2>3. QED
    BY <1>1, <2>1, <2>2 DEF LocksOK, At
<1>8. QED
  BY <1>2, <1>3, <1>4, <1>5, <1>6, <1>7

-----------------------------------------------------------------------------
(* The theorems *)

LEMMA OwnOK ==
  ASSUME IInv, NEW r \in Requests, Step(r) \/ Abort(r)
  PROVE  RequestOK(r)' /\ RowTypes(own[r])' /\ read'[r] \in ReadTypes
<1>1. RowTypes(own[r]) /\ read \in [Requests -> ReadTypes]
  BY DEF IInv, Types
<1>2. CASE Begin(r)
  BY <1>1, <1>2, BeginOK DEF Begin
<1>3. CASE Finish(r) \/ Abort(r)
  <2>1. read'[r] = NoRead
    BY <1>1, <1>3 DEF Finish, Abort
  <2>2. NoRead \in ReadTypes
    BY ConnectedOwners DEF NoRead, ReadTypes
  <2>3. QED
    BY <1>3, <2>1, <2>2, EndOK
<1>4. CASE TakeLock(r) \/ Load(r) \/ Drift(r) \/ Record(r)
  BY <1>1, <1>4, LockOK
<1>5. CASE Claim(r) \/ Replay(r) \/ Send(r) \/ Settle(r)
  BY <1>1, <1>5, ClaimOK, ReplayOK, SendOK, SettleOK
<1>6. CASE UpsertAccount(r)
  BY <1>1, <1>6, UpsertAccountOK
<1>7. CASE getTenantDek(r)
  BY <1>1, <1>7, getTenantDekOK
<1>8. CASE setTenantKey(r)
  BY <1>8, setTenantKeyOK
<1>9. CASE ReadVersion(r)
  BY <1>1, <1>9, ReadVersionOK
<1>10. CASE upsertSecret(r)
  BY <1>1, <1>10, upsertSecretOK
<1>11. CASE CachedToken(r)
  BY <1>1, <1>11, CachedTokenOK
<1>12. CASE ReadUsername(r)
  BY <1>1, <1>12, ReadUsernameOK
<1>13. CASE ReadPassword(r)
  BY <1>1, <1>13, ReadPasswordOK
<1>14. CASE Login(r)
  BY <1>1, <1>14, LoginStepOK
<1>15. CASE StoreToken(r)
  BY <1>1, <1>15, StoreTokenOK
<1>16. QED
  BY <1>2, <1>3, <1>4, <1>5, <1>6, <1>7, <1>8, <1>9, <1>10, <1>11, <1>12, <1>13, <1>14,
     <1>15 DEF Step

LEMMA InvInit == Init => IInv
<1> SUFFICES ASSUME Init PROVE IInv
  OBVIOUS
<1>1. None \notin Owners /\ RowTypes(Nothing) /\ NoRead \in ReadTypes
  BY RequestsAssumption, ConnectedOwners
  DEF RowTypes, Nothing, Fields, NoRead, ReadTypes, Requests
<1>2. Types
  <2>1. /\ db = Nothing /\ own = [r \in Requests |-> Nothing]
        /\ holder = [l \in Locks |-> None]
        /\ \E meeting \in Meetings :
             pc = [r \in Requests |-> IF r \in meeting THEN "new" ELSE "done"]
        /\ todo = [r \in Requests |-> <<>>] /\ read = [r \in Requests |-> NoRead]
        /\ ran = {} /\ expiries = 0
    BY DEF Init
  <2>2. expiries \in 0..MaxExpiries /\ ran \subseteq Requests
    <3>1. 0 \in 0..MaxExpiries
      BY BoundsAssumption
    <3>2. QED
      BY <2>1, <3>1
  <2>3. /\ holder \in [Locks -> Requests \cup {None}] /\ read \in [Requests -> ReadTypes]
        /\ pc \in [Requests -> {"new", "run", "done", "aborted"}]
    BY <1>1, <2>1
  <2>4. RowTypes(db) /\ \A r \in Requests : RowTypes(own[r])
    BY <1>1, <2>1
  <2>5. todo = [r \in Requests |-> todo[r]] /\ own = [r \in Requests |-> own[r]]
    BY <2>1
  <2>6. QED
    BY <2>2, <2>3, <2>4, <2>5 DEF Types
<1>3. RowsOK
  BY DEF Init, RowsOK, AccountIsReadable, Nothing, Fields
<1>4. ASSUME NEW r \in Requests
      PROVE  RequestOK(r) /\ LocksOK(r)
  <2>1. ToDo(r, <<>>)
    BY NothingLeft
  <2>2. pc[r] \in {"new", "done"} /\ todo[r] = <<>>
    BY DEF Init
  <2>3. RequestOK(r)
    BY <2>1, <2>2, ConnectedOwners
    DEF Init, RequestOK, OwnerOK, LoginOK, SentOK, At, Nothing, Fields, NoRead
  <2>4. LocksOK(r)
    BY <2>2, RequestsAssumption DEF Init, LocksOK, Locks
  <2>5. QED
    BY <2>3, <2>4
<1>5. QED
  BY <1>2, <1>3, <1>4 DEF IInv

\* A token that expires is none.
LEMMA ExpireOK ==
  ASSUME IInv, Expire
  PROVE  IInv'
<1>1. /\ db' = [db EXCEPT !["token"] = None] /\ RowTypes(db) /\ expiries \in 0..MaxExpiries
      /\ expiries < MaxExpiries /\ expiries' = expiries + 1
      /\ UNCHANGED <<own, holder, pc, todo, read, ran>>
  BY DEF Expire, IInv, Types
<1>2. /\ db'["username"] = db["username"] /\ db'["key"] = db["key"]
      /\ db'["secret"] = db["secret"] /\ db'["token"] = None
      /\ db'["conf"] = db["conf"] /\ db'["resv"] = db["resv"]
      /\ db' = [f \in Fields |-> db'[f]]
  BY <1>1 DEF RowTypes, Fields
<1>3. Cardinality(Connected)' = Cardinality(Connected)
  BY <1>1 DEF Connected
<1>4. Types'
  BY <1>1, <1>2, BoundsAssumption DEF IInv, Types, RowTypes
<1>5. RowsOK'
  BY <1>2, <1>3 DEF IInv, RowsOK, AccountIsReadable
<1>6. ASSUME NEW r \in Requests
      PROVE  RequestOK(r)' /\ LocksOK(r)'
  BY <1>1, <1>2, <1>3 DEF IInv, RequestOK, LocksOK, OwnerOK, LoginOK, SentOK, At, View
<1>7. QED
  BY <1>4, <1>5, <1>6 DEF IInv

LEMMA InvNext == IInv /\ [Next]_vars => IInv'
<1> SUFFICES ASSUME IInv, [Next]_vars PROVE IInv'
  OBVIOUS
<1>1. CASE Expire
  BY <1>1, ExpireOK
<1>2. ASSUME NEW r \in Requests, Step(r) \/ Abort(r)
      PROVE  IInv'
  <2>1. /\ RequestOK(r)' /\ LocksOK(r)' /\ RowTypes(own[r])' /\ read'[r] \in ReadTypes
        /\ \A s \in Requests \ {r} : RequestOK(s)' /\ LocksOK(s)' /\ RowTypes(own[s])'
    BY <1>2, OwnOK, OwnLocks, Bystander
  <2>2. RowTypes(db)' /\ RowsOK' /\ Private(r) /\ Types
    BY <1>2, RowsHold, StepsArePrivate DEF IInv
  <2>3. \A s \in Requests : pc'[s] \in {"new", "run", "done", "aborted"}
    <3>1. UNCHANGED pc \/ \E label \in {"run", "done", "aborted"} : pc' = [pc EXCEPT ![r] = label]
      BY <1>2 DEF Step, Abort, Begin, Finish, TakeLock, Load, Drift, Claim, Replay, Send, Record,
         Settle, UpsertAccount, getTenantDek, setTenantKey, ReadVersion, upsertSecret,
         CachedToken, ReadUsername, ReadPassword, Login, StoreToken
    <3>2. QED
      BY <2>2, <3>1 DEF Types
  <2>4. ran' \subseteq Requests /\ expiries' = expiries
    BY <1>2, <2>2 DEF Types, Step, Abort, Begin, Finish, TakeLock, Load, Drift, Claim, Replay,
       Send, Record, Settle, UpsertAccount, getTenantDek, setTenantKey, ReadVersion,
       upsertSecret, CachedToken, ReadUsername, ReadPassword, Login, StoreToken, outside
  <2>5. read' \in [Requests -> ReadTypes] /\ holder' \in [Locks -> Requests \cup {None}]
        /\ pc' \in [Requests -> {"new", "run", "done", "aborted"}]
    BY <2>1, <2>2, <2>3 DEF Private, Types
  <2>6. Types'
    BY <2>1, <2>2, <2>4, <2>5 DEF Private, Types
  <2>7. QED
    BY <2>1, <2>2, <2>6 DEF IInv
<1>3. CASE UNCHANGED vars
  <2>1. /\ UNCHANGED <<db, own, holder, pc, todo, read, ran, expiries>>
        /\ Connected' = Connected
    BY <1>3 DEF vars, Connected
  <2>2. Types'
    BY <2>1 DEF IInv, Types, RowTypes
  <2>3. RowsOK'
    BY <2>1 DEF IInv, RowsOK, AccountIsReadable
  <2>4. ASSUME NEW r \in Requests
        PROVE  RequestOK(r)' /\ LocksOK(r)'
    BY <2>1 DEF IInv, RequestOK, LocksOK, OwnerOK, LoginOK, SentOK, At, View
  <2>5. QED
    BY <2>2, <2>3, <2>4 DEF IInv
<1>4. QED
  BY <1>1, <1>2, <1>3 DEF Next

LEMMA InvHolds == Spec => []IInv
BY InvInit, InvNext, PTL DEF Spec

\* The rows, the reads and the steps left are what TypeOK says: no connection of the
\* account counts the version of the password up more than once.
THEOREM UpstreamTypes == Spec => []TypeOK
<1>1. IInv => TypeOK
  <2> SUFFICES ASSUME IInv PROVE TypeOK
    OBVIOUS
  <2>1. Types /\ \A r \in Requests : ToDo(r, todo[r])
    BY DEF IInv, RequestOK
  <2>2. ASSUME NEW rows, RowTypes(rows), NEW f \in Fields
        PROVE  rows[f] \in Values[f] \cup {None}
    BY <2>2 DEF RowTypes, Values, Fields, Settlers
  <2>3. ASSUME NEW r \in Requests
        PROVE  Len(todo[r]) <= 11 /\ ToSet(todo[r]) \subseteq Steps
    <3>1. todo[r] \in Seq(Steps) /\ Len(todo[r]) <= 11
      BY <2>1, StepsLeft
    <3>2. QED
      BY <3>1 DEF ToSet
  <2>4. QED
    BY <2>1, <2>2, <2>3 DEF TypeOK, Types, ReadTypes
<1>2. QED
  BY <1>1, InvHolds, PTL

\* The password and the cached token are encrypted under the data key of the tenant.
THEOREM AccountsAreReadable == Spec => []AccountIsReadable
<1>1. IInv => AccountIsReadable
  BY DEF IInv, RowsOK
<1>2. QED
  BY <1>1, InvHolds, PTL

\* No victim of a deadlock has sent its operation, whatever it still waits for.
THEOREM VictimsNeverRan == Spec => []VictimNeverRan
<1>1. IInv => VictimNeverRan
  BY DEF IInv, RequestOK, SentOK, VictimNeverRan
<1>2. QED
  BY <1>1, InvHolds, PTL

=============================================================================
