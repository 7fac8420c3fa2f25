------------------------ MODULE BenchmarkLeaseProofs -----------------------
(***************************************************************************)
(* For any number of executions, sessions and tokens: an answer once       *)
(* stored is final, a call is paid for twice only after a failure or a     *)
(* recovery, and sessions do not contend unless a lease gets old while its *)
(* task is alive.                                                          *)
(***************************************************************************)
EXTENDS BenchmarkLease, TLAPS

USE DEF session, counts, vars, Active

Row == [status : {"absent", "pending", "running", "complete", "error"},
        token : Tokens \union {NoToken}, claimed : {"null", "fresh", "old"},
        answer : Tokens \union {NoToken}]

\* TypeOK, the table apart from the rest.
TableOK == execs \in [Execs -> Row] /\ \A e \in Execs : Leased(execs[e])

SessionOK ==
    /\ phase \in [Runners -> {"off", "list", "work"}]
    /\ token \in [Runners -> Tokens \union {NoToken}]
    /\ mine \in [Runners -> SUBSET Execs]
    /\ retry \in [Runners -> BOOLEAN]
    /\ task \in [Runners -> [Execs -> {"none", "todo"} \union Active]]
    /\ calls \in [Execs -> Nat]
    /\ excused \subseteq Execs
    /\ lapses \in Nat /\ errors \in Nat /\ crashes \in Nat

\* A token is drawn for one live session only.
TokensDistinct ==
    \A r, s \in Runners : token[r] = token[s] /\ token[r] # NoToken => r = s

\* A session has a token and tasks only while it lives.
LiveHasToken ==
    \A r \in Runners : /\ phase[r] # "off" <=> token[r] # NoToken
                       /\ \A e \in Execs : task[r][e] # "none" => phase[r] = "work"

\* No live task's lease is old, as long as none has lapsed.
OldIsAbandoned ==
    lapses = 0 => \A e \in Execs, r \in Runners :
                      execs[e].claimed = "old" /\ phase[r] # "off" => execs[e].token # token[r]

\* Nor has a live task lost its lease, unless the execution was recovered.
ActiveHolds ==
    \A e \in Execs : (lapses = 0 \/ e \notin excused) =>
        \A r \in Runners : task[r][e] \in Active =>
            execs[e].status = "running" /\ execs[e].token = token[r]

\* What has been called for is waited for by nobody, and not open.
CalledCounts ==
    \A e \in Execs : /\ calls[e] <= 1
                     /\ calls[e] # 0 => /\ execs[e].status \in {"running", "complete"}
                                        /\ \A r \in Runners : task[r][e] # "waiting"
                                        /\ e \notin excused

\* An error is only ever stored for an execution that failed.
ErrorsExcused ==
    \A e \in Execs : /\ execs[e].status = "error" => e \in excused
                     /\ \A r \in Runners : task[r][e] = "failing" => e \in excused

LeaseInv ==
    /\ TableOK
    /\ SessionOK
    /\ TokensDistinct
    /\ LiveHasToken
    /\ OldIsAbandoned
    /\ ActiveHolds
    /\ CalledCounts
    /\ ErrorsExcused

LEMMA TypeParts == TypeOK <=> TableOK /\ SessionOK
<1>1. TypeOK => TableOK
  BY Zenon DEF TypeOK, TableOK, Row
<1>2. TypeOK => SessionOK
  BY Zenon DEF TypeOK, SessionOK
<1>3. TableOK /\ SessionOK => TypeOK
  BY Zenon DEF TypeOK, TableOK, SessionOK, Row
<1>4. QED
  BY <1>1, <1>2, <1>3

LEMMA LeaseInit == Init => LeaseInv
BY NoTokenIsNone DEF Init, LeaseInv, TableOK, Row, Leased, SessionOK, NoRow, TokensDistinct,
       LiveHasToken, OldIsAbandoned, ActiveHolds, CalledCounts, ErrorsExcused

\* One row is replaced by a well-formed one.
LEMMA TableStep ==
    ASSUME TableOK, NEW e \in Execs, NEW row \in Row, Leased(row),
           execs' = [execs EXCEPT ![e] = row]
    PROVE  TableOK'
BY DEF TableOK

\* A lease gets old: nothing else changes in the row.
LEMMA AgedRow ==
    ASSUME TableOK, NEW e \in Execs, execs[e].status = "running",
           execs' = [execs EXCEPT ![e].claimed = "old"]
    PROVE  /\ TableOK'
           /\ \A x \in Execs : execs'[x].status = execs[x].status /\ execs'[x].token = execs[x].token
<1> DEFINE row == [execs[e] EXCEPT !.claimed = "old"]
<1>1. execs[e] \in Row /\ Leased(execs[e])
  BY DEF TableOK
<1>2. /\ row \in Row /\ row.status = execs[e].status /\ row.token = execs[e].token
      /\ row.claimed = "old" /\ row.answer = execs[e].answer
  BY <1>1 DEF Row
<1>3. Leased(row)
  BY <1>1, <1>2 DEF Leased
<1>4. execs' = [execs EXCEPT ![e] = row]
  OBVIOUS
<1>5. TableOK'
  BY <1>2, <1>3, <1>4, TableStep
<1>6. \A x \in Execs : execs'[x].status = execs[x].status /\ execs'[x].token = execs[x].token
  BY <1>2, <1>4 DEF TableOK
<1>7. QED
  BY <1>5, <1>6

LEMMA StartKeeps ==
    ASSUME LeaseInv, NEW r \in Runners, Start(r)
    PROVE  LeaseInv'
<1>a. PICK t \in Tokens : /\ token' = [token EXCEPT ![r] = t]
                          /\ \A s \in Runners : token[s] # t
                          /\ \A e \in Execs : execs[e].token # t
  BY DEF Start, Unused
<1>b. /\ mine' \in [Runners -> SUBSET Execs]
      /\ retry' \in [Runners -> BOOLEAN]
  BY WorkloadsAreExecs DEF Start, LeaseInv, SessionOK
<1>c. calls' = [e \in Execs |-> IF Recoverable(e) THEN 0 ELSE calls[e]]
  BY DEF Start, Excuse
<1>0. /\ phase[r] = "off"
      /\ phase' = [phase EXCEPT ![r] = "list"]
      /\ execs' = [e \in Execs |-> IF Recoverable(e) THEN Pending ELSE execs[e]]
      /\ excused' = excused \union {e \in Execs : Recoverable(e)}
      /\ calls' = [e \in Execs |-> IF Recoverable(e) THEN 0 ELSE calls[e]]
      /\ task' = task /\ lapses' = lapses /\ errors' = errors /\ crashes' = crashes
  BY <1>c DEF Start, Live, Excuse
<1>1. TableOK'
  <2>1. Pending \in Row /\ Leased(Pending)
    BY NoTokenIsNone DEF Pending, Row, Leased
  <2>2. \A x \in Execs : execs'[x] \in Row /\ Leased(execs'[x])
    BY <1>0, <2>1 DEF LeaseInv, TableOK
  <2>3. QED
    BY <1>0, <2>2 DEF TableOK
<1>2. SessionOK'
  BY <1>0, <1>a, <1>b DEF LeaseInv, SessionOK
<1>3. TokensDistinct'
  BY <1>0, <1>a, <1>b, NoTokenIsNone DEF LeaseInv, SessionOK, TokensDistinct, LiveHasToken
<1>4. LiveHasToken'
  BY <1>0, <1>a, <1>b, NoTokenIsNone DEF LeaseInv, SessionOK, LiveHasToken
<1>5. OldIsAbandoned'
  BY <1>0, <1>a, <1>b, NoTokenIsNone DEF LeaseInv, TableOK, SessionOK, OldIsAbandoned,
       LiveHasToken, ActiveHolds, TokensDistinct, Pending, Recoverable, Leased
<1>6. ActiveHolds'
  BY <1>0, <1>a, <1>b DEF LeaseInv, TableOK, SessionOK, ActiveHolds, TokensDistinct,
       LiveHasToken, OldIsAbandoned, ErrorsExcused, Pending, Recoverable, Leased
<1>7. CalledCounts'
  BY <1>0, <1>a, <1>b DEF LeaseInv, TableOK, SessionOK, CalledCounts, TokensDistinct,
       LiveHasToken, ActiveHolds, ErrorsExcused, Pending, Recoverable, Leased
<1>8. ErrorsExcused'
  BY <1>0, <1>a, <1>b DEF LeaseInv, TableOK, SessionOK, ErrorsExcused, ActiveHolds,
       Pending, Recoverable
<1>9. QED
  BY <1>1, <1>2, <1>3, <1>4, <1>5, <1>6, <1>7, <1>8 DEF LeaseInv

LEMMA ListKeeps ==
    ASSUME LeaseInv, NEW r \in Runners, List(r)
    PROVE  LeaseInv'
<1>x. /\ execs' \in [Execs -> Row]
      /\ \A e \in Execs : execs[e].status # "absent" => execs'[e] = execs[e]
      /\ \A e \in Execs : execs[e].status = "absent" => execs'[e] \in {execs[e], Pending}
  BY DEF List, Pending, Row, LeaseInv, TableOK
<1>0. /\ phase[r] = "list"
      /\ phase' = [phase EXCEPT ![r] = "work"]
      /\ task' \in [Runners -> [Execs -> {"none", "todo"} \union Active]]
      /\ \A e \in Execs : task'[r][e] \in {"none", "todo"}
      /\ \A s \in Runners : s # r => task'[s] = task[s]
      /\ token' = token /\ mine' = mine /\ retry' = retry
      /\ calls' = calls /\ excused' = excused /\ lapses' = lapses /\ errors' = errors /\ crashes' = crashes
  BY DEF List, LeaseInv, SessionOK
<1>1. TableOK'
  <2>1. Leased(Pending)
    BY NoTokenIsNone DEF Pending, Leased
  <2>2. QED
    BY <1>x, <2>1 DEF LeaseInv, TableOK
<1>p. Pending.status = "pending" /\ Pending.token = NoToken /\ Pending.claimed = "null"
  BY DEF Pending
<1>s. \A e \in Execs :
         \/ /\ execs'[e].status = execs[e].status
            /\ execs'[e].token = execs[e].token
            /\ execs'[e].claimed = execs[e].claimed
         \/ /\ execs[e].status = "absent"
            /\ execs'[e].status = "pending" /\ execs'[e].claimed = "null"
  BY <1>x, <1>p
<1>t. \A s \in Runners, e \in Execs :
         task'[s][e] \in {"waiting", "calling", "failing"} => task'[s][e] = task[s][e]
  BY <1>0
<1>2. SessionOK'
  BY <1>0, <1>s, <1>t DEF LeaseInv, SessionOK
<1>3. TokensDistinct'
  BY <1>0, <1>s, <1>t, NoTokenIsNone DEF LeaseInv, SessionOK, TokensDistinct, LiveHasToken
<1>4. LiveHasToken'
  BY <1>0, <1>s, <1>t, NoTokenIsNone DEF LeaseInv, SessionOK, LiveHasToken
<1>u. \A s \in Runners : phase'[s] # "off" => phase[s] # "off"
  BY <1>0 DEF LeaseInv, SessionOK
<1>5. OldIsAbandoned'
  BY <1>0, <1>s, <1>t, <1>u DEF LeaseInv, OldIsAbandoned
<1>6. ActiveHolds'
  BY <1>0, <1>s, <1>t, <1>u DEF LeaseInv, ActiveHolds
<1>7. CalledCounts'
  BY <1>0, <1>s, <1>t, <1>u DEF LeaseInv, CalledCounts
<1>8. ErrorsExcused'
  BY <1>0, <1>s, <1>t, <1>u DEF LeaseInv, TableOK, SessionOK, ErrorsExcused, ActiveHolds
<1>9. QED
  BY <1>1, <1>2, <1>3, <1>4, <1>5, <1>6, <1>7, <1>8 DEF LeaseInv

LEMMA FinishKeeps ==
    ASSUME LeaseInv, NEW r \in Runners, Finish(r)
    PROVE  LeaseInv'
<1>0. /\ \A e \in Execs : task[r][e] = "none"
      /\ phase' = [phase EXCEPT ![r] = "off"]
      /\ token' = [token EXCEPT ![r] = NoToken]
      /\ mine' = [mine EXCEPT ![r] = {}]
      /\ retry' = [retry EXCEPT ![r] = FALSE]
      /\ execs' = execs /\ task' = task
      /\ calls' = calls /\ excused' = excused /\ lapses' = lapses /\ errors' = errors /\ crashes' = crashes
  BY DEF Finish, End
<1>1. TableOK'
  BY <1>0 DEF LeaseInv, TableOK
<1>2. SessionOK'
  BY <1>0 DEF LeaseInv, SessionOK
<1>3. TokensDistinct'
  BY <1>0, NoTokenIsNone DEF LeaseInv, SessionOK, TokensDistinct, LiveHasToken
<1>4. LiveHasToken'
  BY <1>0, NoTokenIsNone DEF LeaseInv, SessionOK, LiveHasToken
<1>5. OldIsAbandoned'
  BY <1>0, NoTokenIsNone DEF LeaseInv, TableOK, SessionOK, OldIsAbandoned, LiveHasToken,
       ActiveHolds, TokensDistinct, Leased
<1>6. ActiveHolds'
  BY <1>0 DEF LeaseInv, TableOK, SessionOK, ActiveHolds, TokensDistinct, LiveHasToken,
       OldIsAbandoned, ErrorsExcused, Leased
<1>7. CalledCounts'
  BY <1>0 DEF LeaseInv, TableOK, SessionOK, CalledCounts, TokensDistinct, LiveHasToken,
       ActiveHolds, ErrorsExcused, Leased
<1>8. ErrorsExcused'
  BY <1>0 DEF LeaseInv, TableOK, SessionOK, ErrorsExcused, ActiveHolds
<1>9. QED
  BY <1>1, <1>2, <1>3, <1>4, <1>5, <1>6, <1>7, <1>8 DEF LeaseInv

LEMMA CrashKeeps ==
    ASSUME LeaseInv, NEW r \in Runners, Crash(r)
    PROVE  LeaseInv'
<1>0. /\ phase' = [phase EXCEPT ![r] = "off"]
      /\ token' = [token EXCEPT ![r] = NoToken]
      /\ mine' = [mine EXCEPT ![r] = {}]
      /\ retry' = [retry EXCEPT ![r] = FALSE]
      /\ task' = [task EXCEPT ![r] = [e \in Execs |-> "none"]]
      /\ execs' = execs /\ calls' = calls /\ excused' = excused /\ lapses' = lapses /\ errors' = errors
      /\ crashes' \in Nat
  BY DEF Crash, End, LeaseInv, SessionOK
<1>1. TableOK'
  BY <1>0 DEF LeaseInv, TableOK
<1>2. SessionOK'
  BY <1>0 DEF LeaseInv, SessionOK
<1>3. TokensDistinct'
  BY <1>0, NoTokenIsNone DEF LeaseInv, SessionOK, TokensDistinct, LiveHasToken
<1>4. LiveHasToken'
  BY <1>0, NoTokenIsNone DEF LeaseInv, SessionOK, LiveHasToken
<1>5. OldIsAbandoned'
  BY <1>0, NoTokenIsNone DEF LeaseInv, TableOK, SessionOK, OldIsAbandoned, LiveHasToken,
       ActiveHolds, TokensDistinct, Leased
<1>6. ActiveHolds'
  BY <1>0 DEF LeaseInv, TableOK, SessionOK, ActiveHolds, TokensDistinct, LiveHasToken,
       OldIsAbandoned, ErrorsExcused, Leased
<1>7. CalledCounts'
  BY <1>0 DEF LeaseInv, TableOK, SessionOK, CalledCounts, TokensDistinct, LiveHasToken,
       ActiveHolds, ErrorsExcused, Leased
<1>8. ErrorsExcused'
  BY <1>0 DEF LeaseInv, TableOK, SessionOK, ErrorsExcused, ActiveHolds
<1>9. QED
  BY <1>1, <1>2, <1>3, <1>4, <1>5, <1>6, <1>7, <1>8 DEF LeaseInv

LEMMA ClaimedKeeps ==
    ASSUME LeaseInv, NEW r \in Runners, NEW e \in Execs, Claim(r, e), Open(r, e)
    PROVE  LeaseInv'
<1>0. /\ task[r][e] = "todo"
      /\ execs[e].status \in {"pending", "error"}
      /\ execs' = [execs EXCEPT ![e] = [status |-> "running", token |-> token[r], claimed |-> "fresh",
                                      answer |-> NoToken]]
      /\ task' = [task EXCEPT ![r][e] = "waiting"]
      /\ phase' = phase /\ token' = token /\ mine' = mine /\ retry' = retry
      /\ calls' = calls /\ excused' = excused /\ lapses' = lapses /\ errors' = errors /\ crashes' = crashes
  BY DEF Claim, Claimed, Set, Open
<1>1. TableOK'
  <2> DEFINE row == [status |-> "running", token |-> token[r], claimed |-> "fresh",
                                      answer |-> NoToken]
  <2>1. token[r] \in Tokens
    BY <1>0 DEF LeaseInv, SessionOK, LiveHasToken
  <2>2. row \in Row /\ Leased(row)
    BY <2>1, NoTokenIsNone DEF Row, Leased
  <2>3. QED
    BY <1>0, <2>2, TableStep DEF LeaseInv
<1>2. SessionOK'
  BY <1>0 DEF LeaseInv, SessionOK
<1>3. TokensDistinct'
  BY <1>0, NoTokenIsNone DEF LeaseInv, SessionOK, TokensDistinct, LiveHasToken
<1>4. LiveHasToken'
  BY <1>0, NoTokenIsNone DEF LeaseInv, SessionOK, LiveHasToken
<1>5. OldIsAbandoned'
  BY <1>0, NoTokenIsNone DEF LeaseInv, TableOK, SessionOK, OldIsAbandoned, LiveHasToken,
       ActiveHolds, TokensDistinct, Leased
<1>6. ActiveHolds'
  BY <1>0 DEF LeaseInv, TableOK, SessionOK, ActiveHolds, TokensDistinct, LiveHasToken,
       OldIsAbandoned, ErrorsExcused, Leased
<1>7. CalledCounts'
  BY <1>0 DEF LeaseInv, TableOK, SessionOK, CalledCounts, TokensDistinct, LiveHasToken,
       ActiveHolds, ErrorsExcused, Leased
<1>8. ErrorsExcused'
  BY <1>0 DEF LeaseInv, TableOK, SessionOK, ErrorsExcused, ActiveHolds
<1>9. QED
  BY <1>1, <1>2, <1>3, <1>4, <1>5, <1>6, <1>7, <1>8 DEF LeaseInv

LEMMA NotClaimedKeeps ==
    ASSUME LeaseInv, NEW r \in Runners, NEW e \in Execs, Claim(r, e), ~Open(r, e)
    PROVE  LeaseInv'
<1>0. /\ task[r][e] = "todo"
      /\ task' = [task EXCEPT ![r][e] = "none"]
      /\ execs' = execs
      /\ phase' = phase /\ token' = token /\ mine' = mine /\ retry' = retry
      /\ calls' = calls /\ excused' = excused /\ lapses' = lapses /\ errors' = errors /\ crashes' = crashes
  BY DEF Claim, Set
<1>1. TableOK'
  BY <1>0 DEF LeaseInv, TableOK
<1>2. SessionOK'
  BY <1>0 DEF LeaseInv, SessionOK
<1>3. TokensDistinct'
  BY <1>0, NoTokenIsNone DEF LeaseInv, SessionOK, TokensDistinct, LiveHasToken
<1>4. LiveHasToken'
  BY <1>0, NoTokenIsNone DEF LeaseInv, SessionOK, LiveHasToken
<1>5. OldIsAbandoned'
  BY <1>0, NoTokenIsNone DEF LeaseInv, TableOK, SessionOK, OldIsAbandoned, LiveHasToken,
       ActiveHolds, TokensDistinct, Leased
<1>6. ActiveHolds'
  BY <1>0 DEF LeaseInv, TableOK, SessionOK, ActiveHolds, TokensDistinct, LiveHasToken,
       OldIsAbandoned, ErrorsExcused, Leased
<1>7. CalledCounts'
  BY <1>0 DEF LeaseInv, TableOK, SessionOK, CalledCounts, TokensDistinct, LiveHasToken,
       ActiveHolds, ErrorsExcused, Leased
<1>8. ErrorsExcused'
  BY <1>0 DEF LeaseInv, TableOK, SessionOK, ErrorsExcused, ActiveHolds
<1>9. QED
  BY <1>1, <1>2, <1>3, <1>4, <1>5, <1>6, <1>7, <1>8 DEF LeaseInv

LEMMA CallKeeps ==
    ASSUME LeaseInv, NEW r \in Runners, NEW e \in Execs, Call(r, e)
    PROVE  LeaseInv'
<1>0. /\ task[r][e] = "waiting"
      /\ task' = [task EXCEPT ![r][e] = "calling"]
      /\ calls' = [calls EXCEPT ![e] = IF e \in excused THEN 0 ELSE @ + 1]
      /\ execs' = execs /\ excused' = excused /\ lapses' = lapses /\ errors' = errors /\ crashes' = crashes
      /\ phase' = phase /\ token' = token /\ mine' = mine /\ retry' = retry
  BY DEF Call, Set
<1>1. TableOK'
  BY <1>0 DEF LeaseInv, TableOK
<1>2. SessionOK'
  BY <1>0 DEF LeaseInv, SessionOK
<1>3. TokensDistinct'
  BY <1>0, NoTokenIsNone DEF LeaseInv, SessionOK, TokensDistinct, LiveHasToken
<1>4. LiveHasToken'
  BY <1>0, NoTokenIsNone DEF LeaseInv, SessionOK, LiveHasToken
<1>5. OldIsAbandoned'
  BY <1>0, NoTokenIsNone DEF LeaseInv, TableOK, SessionOK, OldIsAbandoned, LiveHasToken,
       ActiveHolds, TokensDistinct, Leased
<1>6. ActiveHolds'
  BY <1>0 DEF LeaseInv, TableOK, SessionOK, ActiveHolds, TokensDistinct, LiveHasToken,
       OldIsAbandoned, ErrorsExcused, Leased
<1>7. CalledCounts'
  BY <1>0 DEF LeaseInv, TableOK, SessionOK, CalledCounts, TokensDistinct, LiveHasToken,
       ActiveHolds, ErrorsExcused, Leased
<1>8. ErrorsExcused'
  BY <1>0 DEF LeaseInv, TableOK, SessionOK, ErrorsExcused, ActiveHolds
<1>9. QED
  BY <1>1, <1>2, <1>3, <1>4, <1>5, <1>6, <1>7, <1>8 DEF LeaseInv

LEMMA FailKeeps ==
    ASSUME LeaseInv, NEW r \in Runners, NEW e \in Execs, Fail(r, e)
    PROVE  LeaseInv'
<1>0. /\ task[r][e] \in {"waiting", "calling"}
      /\ task' = [task EXCEPT ![r][e] = "failing"]
      /\ calls' = [x \in Execs |-> IF x = e THEN 0 ELSE calls[x]]
      /\ excused' = excused \union {e}
      /\ execs' = execs /\ lapses' = lapses /\ crashes' = crashes
      /\ errors' \in Nat
      /\ phase' = phase /\ token' = token /\ mine' = mine /\ retry' = retry
  BY DEF Fail, Set, Excuse, LeaseInv, SessionOK
<1>1. TableOK'
  BY <1>0 DEF LeaseInv, TableOK
<1>2. SessionOK'
  BY <1>0 DEF LeaseInv, SessionOK
<1>3. TokensDistinct'
  BY <1>0, NoTokenIsNone DEF LeaseInv, SessionOK, TokensDistinct, LiveHasToken
<1>4. LiveHasToken'
  BY <1>0, NoTokenIsNone DEF LeaseInv, SessionOK, LiveHasToken
<1>5. OldIsAbandoned'
  BY <1>0, NoTokenIsNone DEF LeaseInv, TableOK, SessionOK, OldIsAbandoned, LiveHasToken,
       ActiveHolds, TokensDistinct, Leased
<1>6. ActiveHolds'
  BY <1>0 DEF LeaseInv, TableOK, SessionOK, ActiveHolds, TokensDistinct, LiveHasToken,
       OldIsAbandoned, ErrorsExcused, Leased
<1>7. CalledCounts'
  BY <1>0 DEF LeaseInv, TableOK, SessionOK, CalledCounts, TokensDistinct, LiveHasToken,
       ActiveHolds, ErrorsExcused, Leased
<1>8. ErrorsExcused'
  BY <1>0 DEF LeaseInv, TableOK, SessionOK, ErrorsExcused, ActiveHolds
<1>9. QED
  BY <1>1, <1>2, <1>3, <1>4, <1>5, <1>6, <1>7, <1>8 DEF LeaseInv

LEMMA AnsweredKeeps ==
    ASSUME LeaseInv, NEW r \in Runners, NEW e \in Execs, SaveAnswer(r, e), Holds(r, e)
    PROVE  LeaseInv'
<1>0. /\ task[r][e] = "calling"
      /\ execs[e].token = token[r]
      /\ execs' = [execs EXCEPT ![e] = [status |-> "complete", token |-> NoToken, claimed |-> "null",
                                      answer |-> token[r]]]
      /\ task' = [task EXCEPT ![r][e] = "none"]
      /\ phase' = phase /\ token' = token /\ mine' = mine /\ retry' = retry
      /\ calls' = calls /\ excused' = excused /\ lapses' = lapses /\ errors' = errors /\ crashes' = crashes
  BY DEF SaveAnswer, Set, Saved, Holds
<1>1. TableOK'
  <2> DEFINE row == [status |-> "complete", token |-> NoToken, claimed |-> "null",
                                      answer |-> token[r]]
  <2>1. row \in Row /\ Leased(row)
    BY NoTokenIsNone, <1>0 DEF Row, Leased, LeaseInv, SessionOK, LiveHasToken
  <2>2. QED
    BY <1>0, <2>1, TableStep DEF LeaseInv
<1>2. SessionOK'
  BY <1>0 DEF LeaseInv, SessionOK
<1>3. TokensDistinct'
  BY <1>0, NoTokenIsNone DEF LeaseInv, SessionOK, TokensDistinct, LiveHasToken
<1>4. LiveHasToken'
  BY <1>0, NoTokenIsNone DEF LeaseInv, SessionOK, LiveHasToken
<1>5. OldIsAbandoned'
  BY <1>0, NoTokenIsNone DEF LeaseInv, TableOK, SessionOK, OldIsAbandoned, LiveHasToken,
       ActiveHolds, TokensDistinct, Leased
<1>6. ActiveHolds'
  BY <1>0 DEF LeaseInv, TableOK, SessionOK, ActiveHolds, TokensDistinct, LiveHasToken,
       OldIsAbandoned, ErrorsExcused, Leased
<1>7. CalledCounts'
  BY <1>0 DEF LeaseInv, TableOK, SessionOK, CalledCounts, TokensDistinct, LiveHasToken,
       ActiveHolds, ErrorsExcused, Leased
<1>8. ErrorsExcused'
  BY <1>0 DEF LeaseInv, TableOK, SessionOK, ErrorsExcused, ActiveHolds
<1>9. QED
  BY <1>1, <1>2, <1>3, <1>4, <1>5, <1>6, <1>7, <1>8 DEF LeaseInv

LEMMA LeaseLostKeeps ==
    ASSUME LeaseInv, NEW r \in Runners, NEW e \in Execs, SaveAnswer(r, e), ~Holds(r, e)
    PROVE  LeaseInv'
<1>0. /\ task[r][e] = "calling"
      /\ execs[e].token # token[r]
      /\ task' = [task EXCEPT ![r][e] = "failing"]
      /\ execs' = execs
      /\ phase' = phase /\ token' = token /\ mine' = mine /\ retry' = retry
      /\ calls' = calls /\ excused' = excused /\ lapses' = lapses /\ errors' = errors /\ crashes' = crashes
  BY DEF SaveAnswer, Set, Holds
<1>1. TableOK'
  BY <1>0 DEF LeaseInv, TableOK
<1>2. SessionOK'
  BY <1>0 DEF LeaseInv, SessionOK
<1>3. TokensDistinct'
  BY <1>0, NoTokenIsNone DEF LeaseInv, SessionOK, TokensDistinct, LiveHasToken
<1>4. LiveHasToken'
  BY <1>0, NoTokenIsNone DEF LeaseInv, SessionOK, LiveHasToken
<1>5. OldIsAbandoned'
  BY <1>0, NoTokenIsNone DEF LeaseInv, TableOK, SessionOK, OldIsAbandoned, LiveHasToken,
       ActiveHolds, TokensDistinct, Leased
<1>6. ActiveHolds'
  BY <1>0 DEF LeaseInv, TableOK, SessionOK, ActiveHolds, TokensDistinct, LiveHasToken,
       OldIsAbandoned, ErrorsExcused, Leased
<1>7. CalledCounts'
  BY <1>0 DEF LeaseInv, TableOK, SessionOK, CalledCounts, TokensDistinct, LiveHasToken,
       ActiveHolds, ErrorsExcused, Leased
<1>8. ErrorsExcused'
  BY <1>0 DEF LeaseInv, TableOK, SessionOK, ErrorsExcused, ActiveHolds
<1>9. QED
  BY <1>1, <1>2, <1>3, <1>4, <1>5, <1>6, <1>7, <1>8 DEF LeaseInv

LEMMA ErrorSavedKeeps ==
    ASSUME LeaseInv, NEW r \in Runners, NEW e \in Execs, SaveError(r, e), Holds(r, e)
    PROVE  LeaseInv'
<1>0. /\ task[r][e] = "failing"
      /\ execs[e].token = token[r]
      /\ execs' = [execs EXCEPT ![e] = [status |-> "error", token |-> NoToken, claimed |-> "null",
                                      answer |-> NoToken]]
      /\ task' = [task EXCEPT ![r][e] = "none"]
      /\ phase' = phase /\ token' = token /\ mine' = mine /\ retry' = retry
      /\ calls' = calls /\ excused' = excused /\ lapses' = lapses /\ errors' = errors /\ crashes' = crashes
  BY DEF SaveError, Set, Saved, Holds
<1>1. TableOK'
  <2> DEFINE row == [status |-> "error", token |-> NoToken, claimed |-> "null",
                                      answer |-> NoToken]
  <2>1. row \in Row /\ Leased(row)
    BY NoTokenIsNone, <1>0 DEF Row, Leased, LeaseInv, SessionOK, LiveHasToken
  <2>2. QED
    BY <1>0, <2>1, TableStep DEF LeaseInv
<1>2. SessionOK'
  BY <1>0 DEF LeaseInv, SessionOK
<1>3. TokensDistinct'
  BY <1>0, NoTokenIsNone DEF LeaseInv, SessionOK, TokensDistinct, LiveHasToken
<1>4. LiveHasToken'
  BY <1>0, NoTokenIsNone DEF LeaseInv, SessionOK, LiveHasToken
<1>5. OldIsAbandoned'
  BY <1>0, NoTokenIsNone DEF LeaseInv, TableOK, SessionOK, OldIsAbandoned, LiveHasToken,
       ActiveHolds, TokensDistinct, Leased
<1>6. ActiveHolds'
  BY <1>0 DEF LeaseInv, TableOK, SessionOK, ActiveHolds, TokensDistinct, LiveHasToken,
       OldIsAbandoned, ErrorsExcused, Leased
<1>7. CalledCounts'
  BY <1>0 DEF LeaseInv, TableOK, SessionOK, CalledCounts, TokensDistinct, LiveHasToken,
       ActiveHolds, ErrorsExcused, Leased
<1>8. ErrorsExcused'
  BY <1>0 DEF LeaseInv, TableOK, SessionOK, ErrorsExcused, ActiveHolds
<1>9. QED
  BY <1>1, <1>2, <1>3, <1>4, <1>5, <1>6, <1>7, <1>8 DEF LeaseInv

LEMMA SkippedKeeps ==
    ASSUME LeaseInv, NEW r \in Runners, NEW e \in Execs, SaveError(r, e), ~Holds(r, e)
    PROVE  LeaseInv'
<1>0. /\ task[r][e] = "failing"
      /\ task' = [task EXCEPT ![r][e] = "none"]
      /\ execs' = execs
      /\ phase' = phase /\ token' = token /\ mine' = mine /\ retry' = retry
      /\ calls' = calls /\ excused' = excused /\ lapses' = lapses /\ errors' = errors /\ crashes' = crashes
  BY DEF SaveError, Set
<1>1. TableOK'
  BY <1>0 DEF LeaseInv, TableOK
<1>2. SessionOK'
  BY <1>0 DEF LeaseInv, SessionOK
<1>3. TokensDistinct'
  BY <1>0, NoTokenIsNone DEF LeaseInv, SessionOK, TokensDistinct, LiveHasToken
<1>4. LiveHasToken'
  BY <1>0, NoTokenIsNone DEF LeaseInv, SessionOK, LiveHasToken
<1>5. OldIsAbandoned'
  BY <1>0, NoTokenIsNone DEF LeaseInv, TableOK, SessionOK, OldIsAbandoned, LiveHasToken,
       ActiveHolds, TokensDistinct, Leased
<1>6. ActiveHolds'
  BY <1>0 DEF LeaseInv, TableOK, SessionOK, ActiveHolds, TokensDistinct, LiveHasToken,
       OldIsAbandoned, ErrorsExcused, Leased
<1>7. CalledCounts'
  BY <1>0 DEF LeaseInv, TableOK, SessionOK, CalledCounts, TokensDistinct, LiveHasToken,
       ActiveHolds, ErrorsExcused, Leased
<1>8. ErrorsExcused'
  BY <1>0 DEF LeaseInv, TableOK, SessionOK, ErrorsExcused, ActiveHolds
<1>9. QED
  BY <1>1, <1>2, <1>3, <1>4, <1>5, <1>6, <1>7, <1>8 DEF LeaseInv

LEMMA LapseAliveKeeps ==
    ASSUME LeaseInv, NEW r \in Runners, NEW e \in Execs, LapseAlive(r, e)
    PROVE  LeaseInv'
<1>0. /\ phase[r] # "off" /\ execs[e].token = token[r]
      /\ execs' = [execs EXCEPT ![e].claimed = "old"]
      /\ lapses' = lapses + 1
      /\ phase' = phase /\ token' = token /\ mine' = mine /\ retry' = retry
      /\ task' = task /\ calls' = calls /\ excused' = excused /\ errors' = errors /\ crashes' = crashes
  BY DEF LapseAlive, Live, Holds
<1>r. execs[e].status = "running"
  BY <1>0 DEF LeaseInv, LiveHasToken, TableOK, Leased
<1>1. TableOK'
  BY <1>r, <1>0, AgedRow DEF LeaseInv
<1>ag. /\ \A x \in Execs : execs'[x].status = execs[x].status /\ execs'[x].token = execs[x].token
       /\ \A x \in Execs : x # e => execs'[x] = execs[x]
  BY <1>r, <1>0, AgedRow DEF LeaseInv, TableOK
<1>2. SessionOK'
  BY <1>0, <1>ag DEF LeaseInv, SessionOK
<1>3. TokensDistinct'
  BY <1>0, <1>ag, NoTokenIsNone DEF LeaseInv, SessionOK, TokensDistinct, LiveHasToken
<1>4. LiveHasToken'
  BY <1>0, <1>ag, NoTokenIsNone DEF LeaseInv, SessionOK, LiveHasToken
<1>5. OldIsAbandoned'
  BY <1>0, <1>ag, NoTokenIsNone DEF LeaseInv, TableOK, SessionOK, OldIsAbandoned,
       LiveHasToken, ActiveHolds, TokensDistinct, Leased
<1>6. ActiveHolds'
  BY <1>0, <1>ag DEF LeaseInv, TableOK, SessionOK, ActiveHolds, TokensDistinct,
       LiveHasToken, OldIsAbandoned, ErrorsExcused, Leased
<1>7. CalledCounts'
  BY <1>0, <1>ag DEF LeaseInv, TableOK, SessionOK, CalledCounts, TokensDistinct,
       LiveHasToken, ActiveHolds, ErrorsExcused, Leased
<1>8. ErrorsExcused'
  BY <1>0, <1>ag DEF LeaseInv, TableOK, SessionOK, ErrorsExcused, ActiveHolds
<1>9. QED
  BY <1>1, <1>2, <1>3, <1>4, <1>5, <1>6, <1>7, <1>8 DEF LeaseInv

LEMMA LapseAbandonedKeeps ==
    ASSUME LeaseInv, NEW e \in Execs, LapseAbandoned(e)
    PROVE  LeaseInv'
<1>0. /\ execs[e].status = "running"
      /\ \A r \in Runners : phase[r] # "off" => execs[e].token # token[r]
      /\ execs' = [execs EXCEPT ![e].claimed = "old"]
      /\ phase' = phase /\ token' = token /\ mine' = mine /\ retry' = retry
      /\ task' = task
      /\ calls' = calls /\ excused' = excused /\ lapses' = lapses /\ errors' = errors /\ crashes' = crashes
  BY DEF LapseAbandoned, Owned, Live, Holds
<1>1. TableOK'
  BY <1>0, AgedRow DEF LeaseInv
<1>ag. /\ \A x \in Execs : execs'[x].status = execs[x].status /\ execs'[x].token = execs[x].token
       /\ \A x \in Execs : x # e => execs'[x] = execs[x]
  BY <1>0, AgedRow DEF LeaseInv, TableOK
<1>2. SessionOK'
  BY <1>0, <1>ag DEF LeaseInv, SessionOK
<1>3. TokensDistinct'
  BY <1>0, <1>ag, NoTokenIsNone DEF LeaseInv, SessionOK, TokensDistinct, LiveHasToken
<1>4. LiveHasToken'
  BY <1>0, <1>ag, NoTokenIsNone DEF LeaseInv, SessionOK, LiveHasToken
<1>5. OldIsAbandoned'
  BY <1>0, <1>ag, NoTokenIsNone DEF LeaseInv, TableOK, SessionOK, OldIsAbandoned,
       LiveHasToken, ActiveHolds, TokensDistinct, Leased
<1>6. ActiveHolds'
  BY <1>0, <1>ag DEF LeaseInv, TableOK, SessionOK, ActiveHolds, TokensDistinct,
       LiveHasToken, OldIsAbandoned, ErrorsExcused, Leased
<1>7. CalledCounts'
  BY <1>0, <1>ag DEF LeaseInv, TableOK, SessionOK, CalledCounts, TokensDistinct,
       LiveHasToken, ActiveHolds, ErrorsExcused, Leased
<1>8. ErrorsExcused'
  BY <1>0, <1>ag DEF LeaseInv, TableOK, SessionOK, ErrorsExcused, ActiveHolds
<1>9. QED
  BY <1>1, <1>2, <1>3, <1>4, <1>5, <1>6, <1>7, <1>8 DEF LeaseInv
LEMMA LeaseNext == LeaseInv /\ [Next]_vars => LeaseInv'
<1> SUFFICES ASSUME LeaseInv, [Next]_vars
             PROVE  LeaseInv'
  OBVIOUS
<1>1. ASSUME NEW r \in Runners, Start(r)
      PROVE  LeaseInv'
  BY <1>1, StartKeeps
<1>2. ASSUME NEW r \in Runners, SessionStep(r)
      PROVE  LeaseInv'
  BY <1>2, ListKeeps, FinishKeeps DEF SessionStep
<1>3. ASSUME NEW r \in Runners, Crash(r)
      PROVE  LeaseInv'
  BY <1>3, CrashKeeps
<1>4. ASSUME NEW r \in Runners, NEW e \in Execs, TaskStep(r, e)
      PROVE  LeaseInv'
  <2>1. CASE Claim(r, e)
    BY <2>1, ClaimedKeeps, NotClaimedKeeps
  <2>2. CASE Call(r, e)
    BY <2>2, CallKeeps
  <2>3. CASE Fail(r, e)
    BY <2>3, FailKeeps
  <2>4. CASE SaveAnswer(r, e)
    BY <2>4, AnsweredKeeps, LeaseLostKeeps
  <2>5. CASE SaveError(r, e)
    BY <2>5, ErrorSavedKeeps, SkippedKeeps
  <2>6. QED
    BY <1>4, <2>1, <2>2, <2>3, <2>4, <2>5 DEF TaskStep
<1>5. ASSUME NEW r \in Runners, NEW e \in Execs, LapseAlive(r, e)
      PROVE  LeaseInv'
  BY <1>5, LapseAliveKeeps
<1>6. ASSUME NEW e \in Execs, LapseAbandoned(e)
      PROVE  LeaseInv'
  BY <1>6, LapseAbandonedKeeps
<1>7. CASE UNCHANGED vars
  <2>1. /\ execs' = execs /\ phase' = phase /\ token' = token /\ mine' = mine /\ retry' = retry
        /\ task' = task /\ calls' = calls /\ excused' = excused
        /\ lapses' = lapses /\ errors' = errors /\ crashes' = crashes
    BY <1>7
  <2>2. TableOK' /\ SessionOK' /\ ErrorsExcused'
    BY <2>1 DEF LeaseInv, TableOK, SessionOK, ErrorsExcused
  <2>3. TokensDistinct' /\ LiveHasToken' /\ OldIsAbandoned'
    BY <2>1 DEF LeaseInv, TokensDistinct, LiveHasToken, OldIsAbandoned
  <2>4. ActiveHolds' /\ CalledCounts'
    BY <2>1 DEF LeaseInv, ActiveHolds, CalledCounts
  <2>5. QED
    BY <2>2, <2>3, <2>4 DEF LeaseInv
<1>8. QED
  BY <1>1, <1>2, <1>3, <1>4, <1>5, <1>6, <1>7 DEF Next

LEMMA LeaseInvariant == Spec => []LeaseInv
BY LeaseInit, LeaseNext, PTL DEF Spec

\* The table and every session are well formed; a row has a token and a claim
\* time exactly while it is running (the three columns are written together).
THEOREM LeaseTypeCorrect == Spec => []TypeOK
<1>1. LeaseInv => TypeOK
  BY TypeParts DEF LeaseInv
<1>2. QED
  BY <1>1, LeaseInvariant, PTL

\* However many sessions there are and whichever of them die, two of them work
\* on one execution only if a lease got old under a task that was alive.
THEOREM NoContention == Spec => []NoLapseNoContention
<1>1. ASSUME LeaseInv, lapses = 0, NEW e \in Execs, NEW r \in Runners, NEW s \in Runners,
             task[r][e] \in Active, task[s][e] \in Active
      PROVE  r = s
  <2>1. execs[e].token = token[r] /\ execs[e].token = token[s]
    BY <1>1 DEF LeaseInv, ActiveHolds
  <2>2. token[r] # NoToken
    BY <1>1 DEF LeaseInv, LiveHasToken
  <2>3. QED
    BY <1>1, <2>1, <2>2 DEF LeaseInv, TokensDistinct
<1>2. LeaseInv => NoLapseNoContention
  BY <1>1 DEF NoLapseNoContention, NeverContend
<1>3. QED
  BY <1>2, LeaseInvariant, PTL

\* The model is paid for an execution once, unless a call failed or the row was
\* recovered: claiming it again needs a row that is pending or in error.
THEOREM PaidOnce == Spec => []CalledOnce
<1>1. LeaseInv => CalledOnce
  BY DEF LeaseInv, CalledCounts, CalledOnce
<1>2. QED
  BY <1>1, LeaseInvariant, PTL

\* No step of any session changes a row that is complete.
LEMMA FinalStep ==
    ASSUME LeaseInv, Next, NEW e \in Execs, execs[e].status = "complete"
    PROVE  execs'[e] = execs[e]
<1>1. execs \in [Execs -> Row] /\ execs[e].token = NoToken
  BY DEF LeaseInv, TableOK, Leased
<1>2. \A r \in Runners : task[r][e] # "none" => ~Holds(r, e)
  BY <1>1 DEF LeaseInv, LiveHasToken, Holds
<1>3. \A r \in Runners : Live(r) => ~Holds(r, e)
  BY <1>1 DEF LeaseInv, LiveHasToken, Holds, Live
<1>4. ASSUME NEW r \in Runners, Start(r) \/ SessionStep(r) \/ Crash(r)
      PROVE  execs'[e] = execs[e]
  BY <1>1, <1>4 DEF Start, Recoverable, SessionStep, List, Finish, Crash
<1>5. ASSUME NEW r \in Runners, NEW x \in Execs, TaskStep(r, x)
      PROVE  execs'[e] = execs[e]
  <2>1. CASE Claim(r, x)
    BY <1>1, <2>1 DEF Claim, Open
  <2>2. CASE Call(r, x) \/ Fail(r, x)
    BY <2>2 DEF Call, Fail
  <2>3. CASE SaveAnswer(r, x)
    BY <1>1, <1>2, <2>3 DEF SaveAnswer
  <2>4. CASE SaveError(r, x)
    BY <1>1, <1>2, <2>4 DEF SaveError
  <2>5. QED
    BY <1>5, <2>1, <2>2, <2>3, <2>4 DEF TaskStep
<1>6. ASSUME NEW r \in Runners, NEW x \in Execs, LapseAlive(r, x)
      PROVE  execs'[e] = execs[e]
  BY <1>1, <1>3, <1>6 DEF LapseAlive
<1>7. ASSUME NEW x \in Execs, LapseAbandoned(x)
      PROVE  execs'[e] = execs[e]
  BY <1>1, <1>7 DEF LapseAbandoned
<1>8. QED
  BY <1>4, <1>5, <1>6, <1>7 DEF Next

\* A stored answer is final: a session that claims late, lost its lease or
\* recovers what it takes for abandoned leaves it as it is.
THEOREM AnswersAreFinal == Spec => CompleteIsFinal
<1>1. LeaseInv /\ [Next]_vars =>
          [\A e \in Execs : execs[e].status = "complete" => execs'[e] = execs[e]]_vars
  BY FinalStep
<1>2. QED
  BY <1>1, LeaseInvariant, PTL DEF Spec, CompleteIsFinal
=============================================================================
