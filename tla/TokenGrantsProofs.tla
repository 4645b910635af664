------------------------- MODULE TokenGrantsProofs -------------------------
(***************************************************************************)
(* Proofs about TokenGrants for any sets of users, clients, codes, tokens  *)
(* and concurrent requests: an authorization code is good once, a refresh  *)
(* token that was used is refused, a session has one token, and deleted    *)
(* users get none.                                                         *)
(***************************************************************************)
EXTENDS TokenGrants, TLAPS

-----------------------------------------------------------------------------
(* Type correctness. *)

LEMMA IdleType == Idle \in Locals /\ Unissued \in Issues
BY DEF Idle, Locals, Unissued, Issues

\* What a request holds, whatever it is doing.
LEMMA LocalsFacts ==
  ASSUME TypeOK, NEW r \in Requests
  PROVE  request[r].grant \in Grants \cup {None} /\ request[r].issue \in Issues
<1>1. request[r] \in Locals
  BY DEF TypeOK
<1>2. CASE request[r] = Idle
  BY <1>2, IdleType DEF Idle
<1>3. CASE request[r] # Idle
  BY <1>1, <1>3 DEF Locals
<1>4. QED
  BY <1>2, <1>3

LEMMA AnswerType ==
  ASSUME TypeOK, NEW r \in Requests, Answer(r)
  PROVE  request' \in [Requests -> Locals]
BY IdleType DEF TypeOK, Answer

LEMMA BecomeType ==
  ASSUME TypeOK, NEW r \in Requests,
         NEW pc \in {"authorize", "check", "rotate", "issue"},
         NEW g \in Grants \cup {None}, NEW i \in Issues, Become(r, pc, g, i)
  PROVE  request' \in [Requests -> Locals]
<1>1. [pc |-> pc, grant |-> g, issue |-> i] \in Locals
  BY DEF Locals
<1>2. QED
  BY <1>1 DEF TypeOK, Become

LEMMA GotoType ==
  ASSUME TypeOK, NEW r \in Requests, request[r].pc # "idle",
         NEW pc \in {"lookup", "issue"}, Goto(r, pc)
  PROVE  request' \in [Requests -> Locals]
<1>1. request[r] \in Locals
  BY DEF TypeOK
<1>2. [request[r] EXCEPT !.pc = pc] \in Locals
  BY <1>1 DEF Locals, Idle
<1>3. request' = [request EXCEPT ![r] = [request[r] EXCEPT !.pc = pc]]
  BY DEF Goto
<1>4. QED
  BY <1>2, <1>3 DEF TypeOK

LEMMA CodeStepType == TypeOK /\ CodeStep => TypeOK'
<1> SUFFICES ASSUME TypeOK, CodeStep PROVE TypeOK'
  OBVIOUS
<1> USE DEF rowVars, observerVars
<1>1. ASSUME NEW q \in Requests, NEW c \in Clients, NEW u \in Users,
             NEW pkce \in BOOLEAN, Authorize(q, c, u, pkce)
      PROVE  TypeOK'
  <2>1. [client |-> c, user |-> u, pkce |-> pkce] \in Issues
    BY DEF Issues
  <2>2. request' \in [Requests -> Locals]
    BY <1>1, <2>1, BecomeType DEF Authorize
  <2>3. QED
    BY <1>1, <2>2 DEF Authorize, TypeOK
<1>2. ASSUME NEW q \in Requests, NEW x \in Codes, CreateAuthCode(q, x)
      PROVE  TypeOK'
  <2>1. request' \in [Requests -> Locals]
    BY <1>2, AnswerType DEF CreateAuthCode
  <2>2. request[q].issue \in Issues
    BY LocalsFacts
  <2>3. QED
    BY <1>2, <2>1, <2>2 DEF CreateAuthCode, TypeOK, Grants
<1>3. ASSUME NEW q \in Requests, NEW x \in Codes, ConsumeAuthCode(q, x)
      PROVE  TypeOK'
  <2>1. request' \in [Requests -> Locals]
    BY <1>3, BecomeType DEF ConsumeAuthCode, TypeOK, Grants
  <2>2. QED
    BY <1>3, <2>1 DEF ConsumeAuthCode, TypeOK
<1>4. ASSUME NEW q \in Requests, CheckRedemption(q) PROVE TypeOK'
  <2>1. request' \in [Requests -> Locals]
    BY <1>4, GotoType, AnswerType DEF CheckRedemption
  <2>2. QED
    BY <1>4, <2>1 DEF CheckRedemption, TypeOK
<1>5. QED
  BY <1>1, <1>2, <1>3, <1>4 DEF CodeStep

LEMMA RevokedRowType ==
  ASSUME TypeOK, NEW g
  PROVE  RevokedRow(g) \in [Tokens -> {"none", "valid", "revoked", "gone"}]
<1>1. token \in [Tokens -> {"none", "valid", "revoked", "gone"}]
  BY DEF TypeOK
<1>2. CASE g \in Tokens
  BY <1>1, <1>2 DEF RevokedRow
<1>3. CASE g \notin Tokens
  BY <1>1, <1>3 DEF RevokedRow
<1>4. QED
  BY <1>2, <1>3

LEMMA TokenStepType == TypeOK /\ TokenStep => TypeOK'
<1> SUFFICES ASSUME TypeOK, TokenStep PROVE TypeOK'
  OBVIOUS
<1> USE DEF rowVars, observerVars
<1>1. ASSUME NEW r \in Requests, NEW u \in Users, Login(r, u) PROVE TypeOK'
  <2>1. [Unissued EXCEPT !.user = u] \in Issues
    BY DEF Unissued, Issues
  <2>2. request' \in [Requests -> Locals]
    BY <1>1, <2>1, BecomeType DEF Login
  <2>3. QED
    BY <1>1, <2>2 DEF Login, TypeOK
<1>2. ASSUME NEW r \in Requests, NEW t \in Tokens, ValidateRefreshToken(r, t)
      PROVE  TypeOK'
  <2>1. request' \in [Requests -> Locals]
    BY <1>2, BecomeType DEF ValidateRefreshToken, TypeOK, Grants
  <2>2. QED
    BY <1>2, <2>1 DEF ValidateRefreshToken, TypeOK
<1>3. ASSUME NEW r \in Requests, NEW t \in Tokens, CreateRefreshToken(r, t)
      PROVE  TypeOK'
  <2> DEFINE g == request[r].grant
  <2>1. request' \in [Requests -> Locals]
    BY <1>3, AnswerType DEF CreateRefreshToken
  <2>2. g \in Grants \cup {None} /\ request[r].issue \in Issues
    BY LocalsFacts
  <2>3. issue' \in [Grants -> Issues]
    <3>1. [request[r].issue EXCEPT !.pkce = FALSE] \in Issues
      BY <2>2 DEF Issues
    <3>2. QED
      BY <1>3, <3>1 DEF CreateRefreshToken, TypeOK
  <2>4. yields' \in [Grants -> Nat]
    <3>1. yields' = yields \/ (g \in Grants /\ yields' = [yields EXCEPT ![g] = yields[g] + 1])
      BY <1>3, <2>2 DEF CreateRefreshToken
    <3>2. QED
      BY <3>1 DEF TypeOK
  <2>5. root' \in [Tokens -> Grants \cup {None}]
    <3>1. PICK v \in Grants \cup {None} : root' = [root EXCEPT ![t] = v]
      BY <1>3 DEF CreateRefreshToken, TypeOK, Grants
    <3>2. QED
      BY <3>1 DEF TypeOK
  <2>6. token' \in [Tokens -> {"none", "valid", "revoked", "gone"}]
    BY <1>3 DEF CreateRefreshToken, TypeOK
  <2>7. QED
    BY <1>3, <2>1, <2>3, <2>4, <2>5, <2>6 DEF CreateRefreshToken, TypeOK
<1>4. ASSUME NEW r \in Requests, Rotate(r) PROVE TypeOK'
  <2>1. request' \in [Requests -> Locals]
    BY <1>4, GotoType DEF Rotate
  <2>2. token' \in [Tokens -> {"none", "valid", "revoked", "gone"}]
    BY <1>4, RevokedRowType DEF Rotate, TypeOK
  <2>3. faults' \in 0..MaxFaults
    BY <1>4, GrantsAssumption DEF Rotate, TypeOK
  <2>4. QED
    BY <1>4, <2>1, <2>2, <2>3 DEF Rotate, TypeOK
<1>5. ASSUME NEW r \in Requests, GetUserByID(r) \/ Fail(r) PROVE TypeOK'
  <2>1. request' \in [Requests -> Locals]
    BY <1>5, GotoType, AnswerType DEF GetUserByID, Fail
  <2>2. QED
    BY <1>5, <2>1 DEF GetUserByID, Fail, TypeOK
<1>6. ASSUME NEW t \in Tokens, Revoke(t) PROVE TypeOK'
  <2>1. token' \in [Tokens -> {"none", "valid", "revoked", "gone"}]
    BY <1>6, RevokedRowType DEF Revoke, TypeOK
  <2>2. faults' \in 0..MaxFaults
    BY <1>6, GrantsAssumption DEF Revoke, TypeOK
  <2>3. QED
    BY <1>6, <2>1, <2>2 DEF Revoke, TypeOK
<1>7. QED
  BY <1>1, <1>2, <1>3, <1>4, <1>5, <1>6 DEF TokenStep

LEMMA OtherStepType == TypeOK /\ OtherStep => TypeOK'
BY DEF OtherStep, Expire, DeleteUser, DeleteClient, DeleteTenant, TypeOK,
   observerVars

\* The state always has its type.
THEOREM TypeCorrect == Spec => []TypeOK
<1>1. Init => TypeOK
  BY IdleType, GrantsAssumption DEF Init, TypeOK
<1>2. TypeOK /\ [Next]_vars => TypeOK'
  <2>1. TypeOK /\ UNCHANGED vars => TypeOK'
    BY DEF TypeOK, vars, rowVars, observerVars
  <2>2. QED
    BY <2>1, CodeStepType, TokenStepType, OtherStepType DEF Next
<1>3. QED
  BY <1>1, <1>2, PTL DEF Spec
-----------------------------------------------------------------------------
(* One request holds a used code. *)

\* A request that goes on with the grant it has, or ends, disturbs no code.
LEMMA HeldFrame ==
  ASSUME TypeOK, CodesHeldOnce,
         \A x \in Codes : code'[x] = "none" =>
                            code[x] = "none" /\ (x \in expired' => x \in expired),
         \A x \in Codes : /\ code'[x] \in {"none", "fresh"} =>
                              code[x] \in {"none", "fresh"}
                          /\ yields'[x] = yields[x],
         \A r \in Requests, x \in Codes : Holds(r, x)' => Holds(r, x)
  PROVE  CodesHeldOnce'
BY DEF CodesHeldOnce

\* An answered request holds nothing, and the others what they held.
LEMMA AnswerHolds ==
  ASSUME TypeOK, NEW r \in Requests, Answer(r)
  PROVE  /\ \A x \in Codes : ~Holds(r, x)'
         /\ \A q \in Requests, x \in Codes :
              q # r => (Holds(q, x)' <=> Holds(q, x))
BY GrantsAssumption DEF TypeOK, Answer, Idle, Holds

LEMMA GotoHolds ==
  ASSUME TypeOK, NEW r \in Requests, NEW pc, Goto(r, pc)
  PROVE  \A q \in Requests, x \in Codes : Holds(q, x)' <=> Holds(q, x)
<1>1. request[r] \in Locals /\ request \in [Requests -> Locals]
  BY DEF TypeOK
<1>2. request[r].grant = [request[r] EXCEPT !.pc = pc].grant
  BY <1>1 DEF Locals, Idle
<1>3. request' = [request EXCEPT ![r] = [request[r] EXCEPT !.pc = pc]]
  BY DEF Goto
<1>4. QED
  BY <1>1, <1>2, <1>3 DEF Holds

LEMMA BecomeHolds ==
  ASSUME TypeOK, NEW r \in Requests, NEW pc, NEW g, NEW i, Become(r, pc, g, i)
  PROVE  /\ \A x \in Codes : Holds(r, x)' <=> x = g
         /\ \A q \in Requests, x \in Codes :
              q # r => (Holds(q, x)' <=> Holds(q, x))
BY DEF TypeOK, Become, Holds

LEMMA StepKeepsHold ==
  TypeOK /\ CodesHeldOnce /\ [Next]_vars => CodesHeldOnce'
<1> SUFFICES ASSUME TypeOK, CodesHeldOnce, [Next]_vars PROVE CodesHeldOnce'
  OBVIOUS
<1> USE DEF rowVars, observerVars
<1>1. ASSUME NEW r \in Requests, NEW c \in Clients, NEW u \in Users,
             NEW pkce \in BOOLEAN, Authorize(r, c, u, pkce)
      PROVE  CodesHeldOnce'
  BY <1>1, HeldFrame, BecomeHolds, GrantsAssumption DEF Authorize
<1>2. ASSUME NEW r \in Requests, NEW x \in Codes, CreateAuthCode(r, x)
      PROVE  CodesHeldOnce'
  <2>1. \A y \in Codes : code'[y] = code[y] \/ (code[y] = "none" /\ code'[y] = "fresh")
    BY <1>2 DEF CreateAuthCode, TypeOK
  <2>2. UNCHANGED <<yields, expired>> /\ Answer(r)
    BY <1>2 DEF CreateAuthCode
  <2>3. QED
    BY <2>1, <2>2, HeldFrame, AnswerHolds
<1>3. ASSUME NEW r \in Requests, NEW x \in Codes, ConsumeAuthCode(r, x)
      PROVE  CodesHeldOnce'
  <2>1. /\ code[x] = "fresh" /\ code'[x] = "used" /\ UNCHANGED <<yields, expired>>
        /\ \A y \in Codes : y # x => code'[y] = code[y]
    BY <1>3 DEF ConsumeAuthCode, TypeOK
  <2>2. /\ \A y \in Codes : Holds(r, y)' <=> y = x
        /\ \A q \in Requests, y \in Codes :
             q # r => (Holds(q, y)' <=> Holds(q, y))
    BY <1>3, BecomeHolds DEF ConsumeAuthCode
  <2>3. QED
    BY <2>1, <2>2 DEF CodesHeldOnce
<1>4. ASSUME NEW r \in Requests,
             CheckRedemption(r) \/ GetUserByID(r) \/ Fail(r) \/ Rotate(r)
      PROVE  CodesHeldOnce'
  <2>1. UNCHANGED <<code, yields, expired>>
    BY <1>4 DEF CheckRedemption, GetUserByID, Fail, Rotate
  <2>2. Answer(r) \/ Goto(r, "lookup") \/ Goto(r, "issue")
    BY <1>4 DEF CheckRedemption, GetUserByID, Fail, Rotate
  <2>3. \A q \in Requests, x \in Codes : Holds(q, x)' => Holds(q, x)
    BY <2>2, AnswerHolds, GotoHolds
  <2>4. QED
    BY <2>1, <2>3, HeldFrame
<1>5. ASSUME NEW r \in Requests, NEW u \in Users, Login(r, u)
      PROVE  CodesHeldOnce'
  BY <1>5, HeldFrame, BecomeHolds, GrantsAssumption DEF Login
<1>6. ASSUME NEW r \in Requests, NEW t \in Tokens, ValidateRefreshToken(r, t)
      PROVE  CodesHeldOnce'
  BY <1>6, HeldFrame, BecomeHolds, GrantsAssumption DEF ValidateRefreshToken
<1>7. ASSUME NEW r \in Requests, NEW t \in Tokens, CreateRefreshToken(r, t)
      PROVE  CodesHeldOnce'
  <2>1. UNCHANGED <<code, expired>> /\ Answer(r)
    BY <1>7 DEF CreateRefreshToken
  <2>2. \A x \in Codes : ~Holds(r, x) => yields'[x] = yields[x]
    BY <1>7 DEF CreateRefreshToken, TypeOK, Grants, Holds
  <2>3. /\ \A x \in Codes : ~Holds(r, x)'
        /\ \A q \in Requests, x \in Codes :
             q # r => (Holds(q, x)' <=> Holds(q, x))
    BY <2>1, AnswerHolds
  <2>4. QED
    BY <2>1, <2>2, <2>3 DEF CodesHeldOnce
<1>8. ASSUME UNCHANGED <<yields, request>>,
             \A x \in Codes :
               /\ code'[x] \in {"none", "fresh"} => code'[x] = code[x]
               /\ code'[x] = "none" => (x \in expired' => x \in expired)
      PROVE  CodesHeldOnce'
  BY <1>8, HeldFrame DEF Holds
<1>9. CASE UNCHANGED vars \/ OtherStep \/ \E t \in Tokens : Revoke(t)
  <2>1. UNCHANGED <<yields, request>>
    BY <1>9 DEF vars, OtherStep, Expire, DeleteUser, DeleteClient,
       DeleteTenant, Revoke
  <2>2. \A x \in Codes : code'[x] \in {"none", "fresh"} => code'[x] = code[x]
    BY <1>9 DEF vars, OtherStep, Expire, DeleteUser, DeleteClient,
       DeleteTenant, Revoke, TypeOK
  <2>3. ASSUME NEW x \in Codes, code'[x] = "none", x \in expired'
        PROVE  x \in expired
    BY <1>9, <2>3 DEF vars, OtherStep, Expire, DeleteUser, DeleteClient,
       DeleteTenant, Revoke, TypeOK
  <2>4. QED
    BY <1>8, <2>1, <2>2, <2>3
<1>10. QED
  BY <1>1, <1>2, <1>3, <1>4, <1>5, <1>6, <1>7, <1>9
     DEF Next, CodeStep, TokenStep

\* However many requests present a code, one of them claims it, and until that
\* one is answered nobody got anything for it (ConsumeAuthCode).
THEOREM HeldOnce == Spec => []CodesHeldOnce
<1>1. Init => CodesHeldOnce
  BY GrantsAssumption DEF Init, CodesHeldOnce, Holds, Idle, Grants
<1>2. QED
  BY <1>1, StepKeepsHold, TypeCorrect, PTL DEF Spec
-----------------------------------------------------------------------------
(* Codes implement OneShot. *)

LEMMA StageFacts ==
  ASSUME NEW x \in Codes
  PROVE  /\ code[x] = "none" => CodeStage[x] = "none"
         /\ code[x] = "fresh" /\ x \notin expired => CodeStage[x] = "open"
         /\ code[x] = "fresh" /\ x \in expired /\ yields[x] = 0
              /\ (\A r \in Requests : ~Holds(r, x)) => CodeStage[x] = "void"
         /\ code[x] \notin {"none", "fresh"} /\ yields[x] > 0
              => CodeStage[x] = "spent"
         /\ code[x] \notin {"none", "fresh"} /\ ~(yields[x] > 0)
              /\ (\E r \in Requests : Holds(r, x)) => CodeStage[x] = "claimed"
         /\ code[x] \notin {"none", "fresh"} /\ ~(yields[x] > 0)
              /\ (\A r \in Requests : ~Holds(r, x)) => CodeStage[x] = "void"
BY DEF CodeStage

\* A step after which every code is where it was is a stutter.
LEMMA StageFrame ==
  ASSUME UNCHANGED <<code, yields, expired>>,
         \A r \in Requests, x \in Codes : Holds(r, x)' <=> Holds(r, x)
  PROVE  UNCHANGED <<CodeStage, CodeYields>>
<1>1. CodeYields' = CodeYields
  BY DEF CodeYields
<1>2. \A x \in Codes : CodeStage'[x] = CodeStage[x]
  BY DEF CodeStage
<1>3. /\ CodeStage = [x \in Codes |-> CodeStage[x]]
      /\ CodeStage' = [x \in Codes |-> CodeStage'[x]]
  BY DEF CodeStage
<1>4. QED
  BY <1>1, <1>2, <1>3

\* What one code does, the abstract credential does too.
LEMMA StageMove ==
  ASSUME NEW x \in Codes, NEW from, NEW to,
         CodeStage[x] = from, CodeStage'[x] = to,
         \A y \in Codes : y # x => CodeStage'[y] = CodeStage[y]
  PROVE  CodeGrant!Move(x, from, to)
<1>1. /\ CodeStage = [y \in Codes |-> CodeStage[y]]
      /\ CodeStage' = [y \in Codes |-> CodeStage'[y]]
  BY DEF CodeStage
<1>2. CodeStage' = [CodeStage EXCEPT ![x] = to]
  BY <1>1
<1>3. QED
  BY <1>2 DEF CodeGrant!Move

LEMMA IdleHoldsNothing ==
  ASSUME TypeOK, NEW r \in Requests, request[r].pc = "idle"
  PROVE  \A x \in Codes : ~Holds(r, x)
<1>1. request[r] = Idle
  BY DEF TypeOK, Locals
<1>2. QED
  BY <1>1, GrantsAssumption DEF Idle, Holds

LEMMA Stutters ==
  ASSUME TypeOK, UNCHANGED <<code, yields, expired>>, NEW r \in Requests,
         \/ \E pc, i, g : /\ request[r].pc = "idle" /\ g \notin Codes
                          /\ Become(r, pc, g, i)
         \/ \E pc : Goto(r, pc)
  PROVE  UNCHANGED <<CodeStage, CodeYields>>
<1>1. \A q \in Requests, x \in Codes : Holds(q, x)' <=> Holds(q, x)
  BY GotoHolds, BecomeHolds, IdleHoldsNothing
<1>2. QED
  BY <1>1, StageFrame

\* A request that ends gives back the claim it had.
LEMMA AnswerAbandons ==
  ASSUME TypeOK, CodesHeldOnce, UNCHANGED <<code, yields, expired>>,
         NEW r \in Requests, Answer(r)
  PROVE  CodeGrant!Next \/ UNCHANGED <<CodeStage, CodeYields>>
<1>1. /\ \A x \in Codes : ~Holds(r, x)'
      /\ \A q \in Requests, x \in Codes :
           q # r => (Holds(q, x)' <=> Holds(q, x))
  BY AnswerHolds
<1>2. CASE \A x \in Codes : ~Holds(r, x)
  BY <1>1, <1>2, StageFrame
<1>3. ASSUME NEW x \in Codes, Holds(r, x)
      PROVE  CodeGrant!Next
  <2>1. /\ code[x] \notin {"none", "fresh"} /\ ~(yields[x] > 0)
        /\ \A q \in Requests : ~Holds(q, x)'
    BY <1>1, <1>3 DEF CodesHeldOnce
  <2>2. CodeStage[x] = "claimed"
    BY <1>3, <2>1, StageFacts
  <2>3. CodeStage'[x] = "void"
    BY <2>1 DEF CodeStage
  <2>4. \A y \in Codes : y # x => CodeStage'[y] = CodeStage[y]
    <3>1. \A y \in Codes, q \in Requests : y # x => (Holds(q, y)' <=> Holds(q, y))
      BY <1>1, <1>3 DEF Holds
    <3>2. QED
      BY <3>1 DEF CodeStage
  <2>5. CodeGrant!Move(x, "claimed", "void") /\ UNCHANGED CodeYields
    BY <2>2, <2>3, <2>4, StageMove DEF CodeYields
  <2>6. QED
    BY <2>5 DEF CodeGrant!Next, CodeGrant!Abandon
<1>4. QED
  BY <1>2, <1>3

\* The end of /authorize has no grant to give back.
AuthorizeHoldsNone ==
  \A r \in Requests : request[r].pc = "authorize" => request[r].grant = None

LEMMA AuthorizeStep ==
  TypeOK /\ AuthorizeHoldsNone /\ [Next]_vars => AuthorizeHoldsNone'
<1> SUFFICES ASSUME TypeOK, AuthorizeHoldsNone, [Next]_vars
             PROVE  AuthorizeHoldsNone'
  OBVIOUS
<1>1. ASSUME NEW r \in Requests, NEW pc, NEW g, NEW i, Become(r, pc, g, i),
             pc = "authorize" => g = None
      PROVE  AuthorizeHoldsNone'
  BY <1>1 DEF AuthorizeHoldsNone, Become, TypeOK
<1>2. ASSUME NEW r \in Requests, NEW pc, Goto(r, pc), pc # "authorize"
      PROVE  AuthorizeHoldsNone'
  <2>1. request[r] \in Locals /\ request \in [Requests -> Locals]
    BY DEF TypeOK
  <2>2. [request[r] EXCEPT !.pc = pc].pc = pc
    BY <2>1 DEF Locals, Idle
  <2>3. request' = [request EXCEPT ![r] = [request[r] EXCEPT !.pc = pc]]
    BY <1>2 DEF Goto
  <2>4. QED
    BY <1>2, <2>1, <2>2, <2>3 DEF AuthorizeHoldsNone
<1>3. ASSUME NEW r \in Requests, Answer(r) PROVE AuthorizeHoldsNone'
  BY <1>3 DEF AuthorizeHoldsNone, Answer, Idle, TypeOK
<1>4. CASE CodeStep
  BY <1>1, <1>2, <1>3, <1>4
     DEF CodeStep, Authorize, CreateAuthCode, ConsumeAuthCode, CheckRedemption
<1>5. CASE TokenStep
  BY <1>1, <1>2, <1>3, <1>5
     DEF TokenStep, Login, ValidateRefreshToken, CreateRefreshToken, Rotate,
         GetUserByID, Fail, Revoke, AuthorizeHoldsNone
<1>6. CASE OtherStep \/ UNCHANGED vars
  BY <1>6 DEF OtherStep, Expire, DeleteUser, DeleteClient, DeleteTenant, vars,
     AuthorizeHoldsNone
<1>7. QED
  BY <1>4, <1>5, <1>6 DEF Next

\* A code is inserted.
LEMMA CreateOpens ==
  ASSUME TypeOK, CodesHeldOnce, AuthorizeHoldsNone,
         NEW r \in Requests, NEW x \in Codes, CreateAuthCode(r, x)
  PROVE  CodeGrant!Next
<1>1. /\ code[x] = "none" /\ code'[x] = "fresh"
      /\ \A y \in Codes : y # x => code'[y] = code[y]
      /\ UNCHANGED <<yields, expired>> /\ Answer(r)
      /\ request[r].grant = None
  BY DEF CreateAuthCode, TypeOK, AuthorizeHoldsNone, observerVars
<1>2. \A q \in Requests, y \in Codes : Holds(q, y)' <=> Holds(q, y)
  BY <1>1, AnswerHolds, GrantsAssumption DEF Holds
<1>3. CodeStage[x] = "none"
  BY <1>1, StageFacts
<1>4. CodeStage'[x] = "open"
  BY <1>1 DEF CodeStage, CodesHeldOnce
<1>5. \A y \in Codes : y # x => CodeStage'[y] = CodeStage[y]
  BY <1>1, <1>2 DEF CodeStage
<1>6. CodeGrant!Move(x, "none", "open") /\ UNCHANGED CodeYields
  BY <1>1, <1>3, <1>4, <1>5, StageMove DEF CodeYields
<1>7. QED
  BY <1>6 DEF CodeGrant!Next, CodeGrant!Open

\* An UPDATE claims a code.
LEMMA ConsumeClaims ==
  ASSUME TypeOK, CodesHeldOnce,
         NEW r \in Requests, NEW x \in Codes, ConsumeAuthCode(r, x)
  PROVE  CodeGrant!Next
<1>1. /\ request[r].pc = "idle" /\ code[x] = "fresh" /\ x \notin expired
      /\ code'[x] = "used"
      /\ \A y \in Codes : y # x => code'[y] = code[y]
      /\ UNCHANGED <<yields, expired>> /\ Become(r, "check", x, issue[x])
  BY DEF ConsumeAuthCode, TypeOK, observerVars
<1>2. /\ Holds(r, x)'
      /\ \A q \in Requests, y \in Codes :
           y # x => (Holds(q, y)' <=> Holds(q, y))
  BY <1>1, BecomeHolds, IdleHoldsNothing
<1>3. CodeStage[x] = "open"
  BY <1>1, StageFacts
<1>4. CodeStage'[x] = "claimed"
  <2>1. yields'[x] = 0
    BY <1>1 DEF CodesHeldOnce
  <2>2. QED
    BY <1>1, <1>2, <2>1 DEF CodeStage
<1>5. \A y \in Codes : y # x => CodeStage'[y] = CodeStage[y]
  BY <1>1, <1>2 DEF CodeStage
<1>6. CodeGrant!Move(x, "open", "claimed") /\ UNCHANGED CodeYields
  BY <1>1, <1>3, <1>4, <1>5, StageMove DEF CodeYields
<1>7. QED
  BY <1>6 DEF CodeGrant!Next, CodeGrant!Claim

\* The tokens are the yield of the code the request holds, if it holds one.
LEMMA CreateYields ==
  ASSUME TypeOK, CodesHeldOnce,
         NEW r \in Requests, NEW t \in Tokens, CreateRefreshToken(r, t)
  PROVE  CodeGrant!Next \/ UNCHANGED <<CodeStage, CodeYields>>
<1>1. /\ UNCHANGED <<code, expired>> /\ Answer(r)
      /\ yields' = IF request[r].grant = None THEN yields
                   ELSE [yields EXCEPT ![request[r].grant] = @ + 1]
  BY DEF CreateRefreshToken
<1>2. /\ \A x \in Codes : ~Holds(r, x)'
      /\ \A q \in Requests, x \in Codes :
           q # r => (Holds(q, x)' <=> Holds(q, x))
  BY <1>1, AnswerHolds
<1>3. \A x \in Codes : ~Holds(r, x) => yields'[x] = yields[x]
  BY <1>1 DEF TypeOK, Grants, Holds
<1>4. CASE \A x \in Codes : ~Holds(r, x)
  <2>1. CodeYields' = CodeYields
    BY <1>3, <1>4 DEF CodeYields
  <2>2. \A x \in Codes : CodeStage'[x] = CodeStage[x]
    BY <1>1, <1>2, <1>3, <1>4 DEF CodeStage
  <2>3. /\ CodeStage = [x \in Codes |-> CodeStage[x]]
        /\ CodeStage' = [x \in Codes |-> CodeStage'[x]]
    BY DEF CodeStage
  <2>4. QED
    BY <2>1, <2>2, <2>3
<1>5. ASSUME NEW x \in Codes, Holds(r, x)
      PROVE  CodeGrant!Next
  <2>1. /\ code[x] \notin {"none", "fresh"} /\ yields[x] = 0 /\ yields'[x] = 1
        /\ \A y \in Codes : y # x => yields'[y] = yields[y]
    <3>1. code[x] \notin {"none", "fresh"} /\ yields[x] = 0
      BY <1>5 DEF CodesHeldOnce
    <3>2. yields' = [yields EXCEPT ![x] = 0 + 1]
      BY <1>1, <1>5, <3>1, GrantsAssumption DEF Holds
    <3>3. QED
      BY <3>1, <3>2 DEF TypeOK, Grants
  <2>2. CodeStage[x] = "claimed"
    BY <1>5, <2>1, StageFacts
  <2>3. CodeStage'[x] = "spent"
    BY <1>1, <2>1 DEF CodeStage
  <2>4. \A y \in Codes : y # x => CodeStage'[y] = CodeStage[y]
    <3>1. \A y \in Codes, q \in Requests : y # x => (Holds(q, y)' <=> Holds(q, y))
      BY <1>2, <1>5 DEF Holds
    <3>2. QED
      BY <1>1, <2>1, <3>1 DEF CodeStage
  <2>5. CodeGrant!Move(x, "claimed", "spent")
    BY <2>2, <2>3, <2>4, StageMove
  <2>6. CodeYields' = [CodeYields EXCEPT ![x] = 1]
    BY <2>1 DEF CodeYields
  <2>7. QED
    BY <2>5, <2>6 DEF CodeGrant!Next, CodeGrant!Yield
<1>6. QED
  BY <1>4, <1>5

\* Open codes that expire, or go with their tenant, are void.
LEMMA Voids ==
  ASSUME TypeOK, CodesHeldOnce, UNCHANGED <<yields, request>>,
         \A x \in Codes :
           \/ code'[x] = code[x] /\ (x \in expired' <=> x \in expired)
           \/ /\ code[x] \notin {"none", "fresh"}
              /\ code'[x] \notin {"none", "fresh"}
           \/ code[x] = "fresh" /\ code'[x] = "gone"
           \/ code[x] = "fresh" /\ code'[x] = "fresh" /\ x \in expired'
  PROVE  CodeGrant!Next
<1> DEFINE G == {x \in Codes : CodeStage[x] = "open" /\ CodeStage'[x] # "open"}
<1>1. UNCHANGED CodeYields
  BY DEF CodeYields
<1>2. \A x \in Codes, r \in Requests : Holds(r, x)' <=> Holds(r, x)
  BY DEF Holds
<1>3. ASSUME NEW x \in Codes
      PROVE  CodeStage'[x] = IF x \in G THEN "void" ELSE CodeStage[x]
  <2>1. CASE code'[x] = code[x] /\ (x \in expired' <=> x \in expired)
    BY <1>2, <2>1 DEF CodeStage
  <2>2. CASE code[x] \notin {"none", "fresh"} /\ code'[x] \notin {"none", "fresh"}
    BY <1>2, <2>2 DEF CodeStage
  <2>3. CASE code[x] = "fresh" /\ (code'[x] = "gone" \/ (code'[x] = "fresh" /\ x \in expired'))
    <3>1. yields'[x] = 0 /\ \A r \in Requests : ~Holds(r, x)'
      BY <1>2, <2>3 DEF CodesHeldOnce
    <3>2. CodeStage'[x] = "void"
      BY <2>3, <3>1 DEF CodeStage
    <3>3. CodeStage[x] \in {"open", "void"}
      BY <1>2, <2>3, <3>1 DEF CodeStage
    <3>4. QED
      BY <3>2, <3>3
  <2>4. QED
    BY <2>1, <2>2, <2>3
<1>4. /\ \A x \in G : CodeStage[x] = "open"
      /\ CodeStage' = [x \in Codes |-> IF x \in G THEN "void" ELSE CodeStage[x]]
  <2>1. CodeStage' = [x \in Codes |-> CodeStage'[x]]
    BY DEF CodeStage
  <2>2. QED
    BY <1>3, <2>1
<1>5. G \in SUBSET Codes
  OBVIOUS
<1> HIDE DEF G
<1>6. QED
  BY <1>1, <1>4, <1>5 DEF CodeGrant!Next, CodeGrant!Void

LEMMA CodesStep ==
  TypeOK /\ CodesHeldOnce /\ AuthorizeHoldsNone /\ [Next]_vars
    => [CodeGrant!Next]_<<CodeStage, CodeYields>>
<1> SUFFICES ASSUME TypeOK, CodesHeldOnce, AuthorizeHoldsNone, [Next]_vars
             PROVE  CodeGrant!Next \/ UNCHANGED <<CodeStage, CodeYields>>
  OBVIOUS
<1> USE DEF rowVars, observerVars
<1>1. ASSUME NEW r \in Requests, NEW c \in Clients, NEW u \in Users,
             NEW pkce \in BOOLEAN, Authorize(r, c, u, pkce)
      PROVE  UNCHANGED <<CodeStage, CodeYields>>
  BY <1>1, Stutters, GrantsAssumption DEF Authorize
<1>2. ASSUME NEW r \in Requests, NEW u \in Users, Login(r, u)
      PROVE  UNCHANGED <<CodeStage, CodeYields>>
  BY <1>2, Stutters, GrantsAssumption DEF Login
<1>3. ASSUME NEW r \in Requests, NEW t \in Tokens, ValidateRefreshToken(r, t)
      PROVE  UNCHANGED <<CodeStage, CodeYields>>
  BY <1>3, Stutters, GrantsAssumption DEF ValidateRefreshToken
<1>4. ASSUME NEW r \in Requests,
             CheckRedemption(r) \/ GetUserByID(r) \/ Fail(r) \/ Rotate(r)
      PROVE  CodeGrant!Next \/ UNCHANGED <<CodeStage, CodeYields>>
  <2>1. UNCHANGED <<code, yields, expired>>
    BY <1>4 DEF CheckRedemption, GetUserByID, Fail, Rotate
  <2>2. Answer(r) \/ \E pc : Goto(r, pc)
    BY <1>4 DEF CheckRedemption, GetUserByID, Fail, Rotate
  <2>3. QED
    BY <2>1, <2>2, AnswerAbandons, Stutters
<1>5. CASE \E g \in Grants : Expire(g)
  BY <1>5, Voids DEF Expire, TypeOK
<1>6. CASE DeleteTenant
  BY <1>6, Voids DEF DeleteTenant, TypeOK
<1>7. CASE \/ UNCHANGED vars
           \/ \E t \in Tokens : Revoke(t)
           \/ \E u \in Users : DeleteUser(u)
           \/ \E c \in Clients : DeleteClient(c)
  <2>1. UNCHANGED <<code, yields, expired, request>>
    BY <1>7 DEF vars, Revoke, DeleteUser, DeleteClient
  <2>2. QED
    BY <2>1, StageFrame DEF Holds
<1>8. QED
  BY <1>1, <1>2, <1>3, <1>4, <1>5, <1>6, <1>7, CreateOpens, ConsumeClaims,
     CreateYields DEF Next, CodeStep, TokenStep, OtherStep

\* Whoever presents a code, in whatever order, and wherever a request fails:
\* a code is redeemed once at most (tokenAuthorizationCode).
THEOREM CodesGoodOnce == Spec => CodesAreOneShot
<1>1. Init => CodeGrant!Init /\ AuthorizeHoldsNone
  BY DEF Init, CodeGrant!Init, CodeStage, CodeYields, AuthorizeHoldsNone, Idle,
     Grants
<1>2. Spec => []AuthorizeHoldsNone
  BY <1>1, AuthorizeStep, TypeCorrect, PTL DEF Spec
<1>3. QED
  BY <1>1, <1>2, CodesStep, TypeCorrect, HeldOnce, PTL
     DEF Spec, CodesAreOneShot, CodeGrant!Spec, CodeGrant!oneShotVars
-----------------------------------------------------------------------------
(* Refresh tokens: a used one is refused, and rotation keeps a session to    *)
(* one of them.                                                              *)

\* What refresh requests have in hand is a row, and they are past "idle".
RefreshPath ==
  \A r \in Requests, t \in Tokens : Holds(r, t) =>
    request[r].pc \in {"rotate", "lookup", "issue"} /\ token[t] # "none"

\* Nobody used, revoked or descends from a token there is no row of.
NewIsUntouched ==
  \A t \in Tokens : token[t] = "none" =>
    /\ yields[t] = 0 /\ t \notin revoked
    /\ \A s \in Tokens : token[s] # "none" => root[s] # t

\* Every row descends from a code that was redeemed, or from a login's row.
Rooted ==
  \A t \in Tokens : token[t] # "none" =>
    \/ root[t] \in Codes /\ yields[root[t]] > 0
    \/ root[t] \in Tokens

\* Without a lost revocation a token is no longer valid once it was revoked,
\* was answered, or is about to be.
UsedIsInvalid ==
  faults = 0 =>
    /\ \A t \in Tokens : token[t] = "valid" => yields[t] = 0 /\ t \notin revoked
    /\ \A r \in Requests, t \in Tokens :
         Holds(r, t) /\ request[r].pc \in {"lookup", "issue"} =>
           token[t] # "valid"

\* A session without a token refreshed twice has one end at most.
Rows == {t \in Tokens : token[t] # "none"}
OneEndPerSession ==
  \A t, s \in Rows :
    root[t] = root[s] /\ yields[t] = 0 /\ yields[s] = 0 /\ t # s =>
      \E used \in Rows : root[used] = root[t] /\ yields[used] > 1

Sessions ==
  RefreshPath /\ NewIsUntouched /\ Rooted /\ UsedIsInvalid /\ OneEndPerSession

LEMMA GotoRow ==
  ASSUME TypeOK, NEW r \in Requests, NEW pc, Goto(r, pc)
  PROVE  /\ request'[r].pc = pc
         /\ request'[r].issue = request[r].issue
         /\ request'[r].grant = request[r].grant
         /\ \A q \in Requests : q # r => request'[q] = request[q]
<1>1. request[r] \in Locals /\ request \in [Requests -> Locals]
  BY DEF TypeOK
<1>2. PICK old \in Locals : old = request[r]
  BY <1>1
<1>3. request' = [request EXCEPT ![r] = [old EXCEPT !.pc = pc]]
  BY <1>2 DEF Goto
<1>4. [old EXCEPT !.pc = pc] = [pc |-> pc, grant |-> old.grant, issue |-> old.issue]
  BY DEF Locals, Idle
<1>5. request' = [request EXCEPT
                    ![r] = [pc |-> pc, grant |-> old.grant, issue |-> old.issue]]
  BY <1>3, <1>4
<1>6. QED
  BY <1>1, <1>2, <1>5

LEMMA AnswerRow ==
  ASSUME TypeOK, NEW r \in Requests, Answer(r)
  PROVE  /\ request'[r].pc = "idle"
         /\ request'[r].grant = None
         /\ \A q \in Requests : q # r => request'[q] = request[q]
BY DEF TypeOK, Answer, Idle

LEMMA BecomeRow ==
  ASSUME TypeOK, NEW r \in Requests, NEW pc, NEW g, NEW i, Become(r, pc, g, i)
  PROVE  /\ request'[r].pc = pc
         /\ request'[r].issue = i
         /\ request'[r].grant = g
         /\ \A q \in Requests : q # r => request'[q] = request[q]
BY DEF TypeOK, Become

\* Steps that insert no token, in which whoever holds a token did before, and
\* who passes the rotation left it invalid or a lost revocation behind.
LEMMA SessionsFrame ==
  ASSUME TypeOK, Sessions, UNCHANGED <<yields, root>>, faults' \in Nat,
         faults' = 0 => faults = 0,
         \A t \in Tokens :
           /\ token'[t] # token[t] =>
                token[t] # "none" /\ token'[t] \notin {"none", "valid"}
           /\ t \in revoked' =>
                \/ t \in revoked
                \/ token[t] # "none" /\ (faults' = 0 => token'[t] # "valid"),
         \A r \in Requests, t \in Tokens : Holds(r, t)' =>
           /\ Holds(r, t)
           /\ \/ request'[r].pc = request[r].pc
              \/ request'[r].pc = "issue" /\ request[r].pc = "lookup"
              \/ /\ request'[r].pc = "lookup" /\ request[r].pc = "rotate"
                 /\ faults' = 0 => token'[t] # "valid"
  PROVE  Sessions'
<1> USE DEF Sessions
<1>1. \A t \in Tokens : (token'[t] = "none" <=> token[t] = "none")
  OBVIOUS
<1>2. \A t \in Tokens : token'[t] = "valid" => token[t] = "valid"
  OBVIOUS
<1>3. RefreshPath'
  BY <1>1 DEF RefreshPath
<1>4. NewIsUntouched'
  BY <1>1 DEF NewIsUntouched
<1>5. Rooted'
  BY <1>1 DEF Rooted
<1>6. UsedIsInvalid'
  <2>1. SUFFICES ASSUME faults' = 0 PROVE UsedIsInvalid'
    BY DEF UsedIsInvalid
  <2>2. ASSUME NEW t \in Tokens, token'[t] = "valid"
        PROVE  yields'[t] = 0 /\ t \notin revoked'
    BY <1>2, <2>1, <2>2 DEF UsedIsInvalid
  <2>3. ASSUME NEW r \in Requests, NEW t \in Tokens, Holds(r, t)',
               request'[r].pc \in {"lookup", "issue"}
        PROVE  token'[t] # "valid"
    <3>1. CASE request'[r].pc = "lookup" /\ request[r].pc = "rotate"
      BY <2>1, <2>3, <3>1
    <3>2. CASE Holds(r, t) /\ request[r].pc \in {"lookup", "issue"}
      BY <1>2, <2>1, <3>2 DEF UsedIsInvalid
    <3>3. QED
      BY <2>3, <3>1, <3>2
  <2>4. QED
    BY <2>2, <2>3 DEF UsedIsInvalid
<1>7. OneEndPerSession'
  <2>1. Rows' = Rows
    BY <1>1 DEF Rows
  <2>2. QED
    BY <2>1 DEF OneEndPerSession
<1>8. QED
  BY <1>3, <1>4, <1>5, <1>6, <1>7

\* A request that begins, without a token or with a valid one.
LEMMA BeginSessions ==
  ASSUME TypeOK, Sessions, UNCHANGED <<token, yields, root, revoked, faults>>,
         NEW r \in Requests, NEW pc, NEW g, NEW i, Become(r, pc, g, i),
         g \in Tokens => pc = "rotate" /\ token[g] # "none"
  PROVE  Sessions'
<1> USE DEF Sessions
<1>1. /\ request'[r].pc = pc /\ request'[r].grant = g
      /\ \A q \in Requests : q # r => request'[q] = request[q]
  BY BecomeRow
<1>2. RefreshPath' /\ UsedIsInvalid'
  BY <1>1 DEF RefreshPath, UsedIsInvalid, Holds
<1>3. NewIsUntouched' /\ Rooted'
  BY DEF NewIsUntouched, Rooted
<1>4. OneEndPerSession'
  BY DEF OneEndPerSession, Rows
<1>5. QED
  BY <1>2, <1>3, <1>4

\* A request that goes on or ends, other than past the rotation.
LEMMA GoOnSessions ==
  ASSUME TypeOK, Sessions, UNCHANGED <<token, yields, root, revoked, faults>>,
         NEW r \in Requests,
         \/ Answer(r)
         \/ request[r].pc = "lookup" /\ Goto(r, "issue")
         \/ request[r].pc = "check" /\ Goto(r, "lookup")
  PROVE  Sessions'
<1>1. faults' \in Nat
  BY GrantsAssumption DEF TypeOK
<1>2. ASSUME NEW q \in Requests, NEW t \in Tokens, Holds(q, t)'
      PROVE  /\ Holds(q, t)
             /\ \/ request'[q].pc = request[q].pc
                \/ request'[q].pc = "issue" /\ request[q].pc = "lookup"
  <2>1. CASE Answer(r)
    BY <1>2, <2>1, AnswerRow, GrantsAssumption DEF Holds
  <2>2. CASE request[r].pc = "lookup" /\ Goto(r, "issue")
    BY <1>2, <2>2, GotoRow DEF Holds
  <2>3. CASE request[r].pc = "check" /\ Goto(r, "lookup")
    <3>1. /\ request'[r].grant = request[r].grant
          /\ \A p \in Requests : p # r => request'[p] = request[p]
      BY <2>3, GotoRow
    <3>2. Holds(q, t)
      BY <1>2, <3>1 DEF Holds
    <3>3. q # r
      BY <2>3, <3>2 DEF Sessions, RefreshPath
    <3>4. QED
      BY <3>1, <3>2, <3>3
  <2>4. QED
    BY <2>1, <2>2, <2>3
<1>3. QED
  BY <1>1, <1>2, SessionsFrame

LEMMA RotateSessions ==
  ASSUME TypeOK, Sessions, NEW r \in Requests, Rotate(r)
  PROVE  Sessions'
<1>1. /\ request[r].pc = "rotate" /\ Goto(r, "lookup")
      /\ UNCHANGED <<yields, root, revoked>>
  BY DEF Rotate, observerVars
<1>2. \/ token' = RevokedRow(request[r].grant) /\ faults' = faults
      \/ token' = token /\ faults' = faults + 1
  BY DEF Rotate
<1>3. /\ request'[r].pc = "lookup"
      /\ request'[r].grant = request[r].grant
      /\ \A q \in Requests : q # r => request'[q] = request[q]
  BY <1>1, GotoRow
<1>4. faults \in Nat /\ faults' \in Nat /\ (faults' = 0 => faults = 0)
  BY <1>2, GrantsAssumption DEF TypeOK
<1>5. \A t \in Tokens : token'[t] # token[t] =>
        token[t] # "none" /\ token'[t] \notin {"none", "valid"}
  BY <1>2 DEF RevokedRow, TypeOK
<1>6. \A t \in Tokens : Holds(r, t) /\ faults' = 0 => token'[t] # "valid"
  BY <1>2, <1>4 DEF RevokedRow, TypeOK, Holds
<1>7. ASSUME NEW q \in Requests, NEW t \in Tokens, Holds(q, t)'
      PROVE  /\ Holds(q, t)
             /\ \/ request'[q].pc = request[q].pc
                \/ /\ request'[q].pc = "lookup" /\ request[q].pc = "rotate"
                   /\ faults' = 0 => token'[t] # "valid"
  BY <1>1, <1>3, <1>6, <1>7 DEF Holds
<1>8. QED
  BY <1>1, <1>4, <1>5, <1>7, SessionsFrame

LEMMA RevokeSessions ==
  ASSUME TypeOK, Sessions, NEW s \in Tokens, Revoke(s)
  PROVE  Sessions'
<1>1. /\ token[s] = "valid" /\ revoked' = revoked \cup {s}
      /\ \/ token' = RevokedRow(s) /\ faults' = faults
         \/ token' = token /\ faults' = faults + 1
      /\ UNCHANGED <<yields, root, request>>
  BY DEF Revoke
<1>2. faults \in Nat /\ faults' \in Nat /\ (faults' = 0 => faults = 0)
  BY <1>1, GrantsAssumption DEF TypeOK
<1>3. /\ faults' = 0 => token'[s] = "revoked"
      /\ \A t \in Tokens :
           token'[t] # token[t] => token[t] = "valid" /\ token'[t] = "revoked"
  BY <1>1, <1>2 DEF RevokedRow, TypeOK
<1>4. QED
  BY <1>1, <1>2, <1>3, SessionsFrame DEF Holds

LEMMA OtherSessions ==
  ASSUME TypeOK, Sessions, OtherStep \/ UNCHANGED vars
  PROVE  Sessions'
<1>1. UNCHANGED <<yields, root, request, revoked, faults>>
  BY DEF OtherStep, Expire, DeleteUser, DeleteClient, DeleteTenant, vars,
     observerVars
<1>2. faults' \in Nat
  BY <1>1, GrantsAssumption DEF TypeOK
<1>3. \A t \in Tokens : token'[t] # token[t] =>
        token[t] # "none" /\ token'[t] \notin {"none", "valid"}
  BY DEF OtherStep, Expire, DeleteUser, DeleteClient, DeleteTenant, vars,
     rowVars
<1>4. QED
  BY <1>1, <1>2, <1>3, SessionsFrame DEF Holds

\* A new row is the one end of its session, unless its parent had a child.
LEMMA CreateSessions ==
  ASSUME TypeOK, CodesHeldOnce, Sessions, NEW r \in Requests, NEW n \in Tokens,
         CreateRefreshToken(r, n)
  PROVE  Sessions'
<1> DEFINE g == request[r].grant
<1> USE DEF Sessions
<1>1. /\ request[r].pc = "issue" /\ token[n] = "none" /\ Answer(r)
      /\ UNCHANGED <<revoked, faults>>
  BY DEF CreateRefreshToken
<1>2. /\ token'[n] = "valid"
      /\ \A t \in Tokens : t # n => token'[t] = token[t]
  BY DEF CreateRefreshToken, TypeOK
<1>3. /\ root'[n] = IF g \in Tokens THEN root[g] ELSE IF g \in Codes THEN g ELSE n
      /\ \A t \in Tokens : t # n => root'[t] = root[t]
  BY DEF CreateRefreshToken, TypeOK
<1>4. /\ g \in Grants => yields'[g] = yields[g] + 1
      /\ \A x \in Grants : x # g => yields'[x] = yields[x]
  BY GrantsAssumption DEF CreateRefreshToken, TypeOK, Grants
<1>5. g \in Codes \/ g \in Tokens \/ g = None
  BY LocalsFacts DEF Grants
<1>6. g \in Tokens => token[g] # "none" /\ g # n
  BY <1>1 DEF RefreshPath, Holds
<1>7. yields[n] = 0 /\ yields'[n] = 0
  BY <1>1, <1>4, <1>6 DEF NewIsUntouched, Grants
<1>8. \A q \in Requests, t \in Tokens : Holds(q, t)' =>
         Holds(q, t) /\ q # r /\ request'[q] = request[q]
  BY <1>1, AnswerRow, GrantsAssumption DEF Holds
<1>9. \A x \in Grants : /\ yields[x] \in Nat /\ yields'[x] \in Nat
                       /\ yields'[x] >= yields[x]
  BY <1>4 DEF TypeOK
<1>10. Rows' = Rows \cup {n} /\ n \notin Rows
  BY <1>1, <1>2 DEF Rows
<1>11. RefreshPath'
  BY <1>2, <1>8 DEF RefreshPath
<1>12. NewIsUntouched'
  <2>1. SUFFICES ASSUME NEW t \in Tokens, token'[t] = "none"
                 PROVE  /\ yields'[t] = 0 /\ t \notin revoked'
                        /\ \A s \in Tokens : token'[s] # "none" => root'[s] # t
    BY DEF NewIsUntouched
  <2>2. t # n /\ token[t] = "none" /\ t # g
    BY <1>2, <1>6, <2>1
  <2>3. yields'[t] = 0 /\ t \notin revoked'
    BY <1>1, <1>4, <2>2 DEF NewIsUntouched, Grants
  <2>4. ASSUME NEW s \in Tokens, token'[s] # "none" PROVE root'[s] # t
    BY <1>2, <1>3, <1>6, <2>2, <2>4, GrantsAssumption DEF NewIsUntouched
  <2>5. QED
    BY <2>3, <2>4
<1>13. Rooted'
  <2>1. SUFFICES ASSUME NEW t \in Tokens, token'[t] # "none"
                 PROVE  \/ root'[t] \in Codes /\ yields'[root'[t]] > 0
                        \/ root'[t] \in Tokens
    BY DEF Rooted
  <2>2. \A s \in Rows : \/ root[s] \in Codes /\ yields'[root[s]] > 0
                        \/ root[s] \in Tokens
    BY <1>9 DEF Rooted, Rows, Grants
  <2>3. CASE t # n
    BY <1>2, <1>3, <2>1, <2>2, <2>3 DEF Rows
  <2>4. CASE t = n /\ g \in Tokens
    BY <1>3, <1>6, <2>2, <2>4 DEF Rows
  <2>5. CASE t = n /\ g \in Codes
    BY <1>3, <1>4, <1>9, <2>5, GrantsAssumption DEF Grants
  <2>6. CASE t = n /\ g = None
    BY <1>3, <2>6, GrantsAssumption
  <2>7. QED
    BY <1>5, <2>3, <2>4, <2>5, <2>6
<1>14. UsedIsInvalid'
  <2>1. SUFFICES ASSUME faults' = 0 PROVE UsedIsInvalid'
    BY DEF UsedIsInvalid
  <2>2. \A t \in Tokens : t = g => token[t] # "valid"
    BY <1>1, <2>1 DEF UsedIsInvalid, Holds
  <2>3. ASSUME NEW t \in Tokens, token'[t] = "valid"
        PROVE  yields'[t] = 0 /\ t \notin revoked'
    <3>1. CASE t = n
      BY <1>1, <1>7, <3>1 DEF NewIsUntouched
    <3>2. CASE t # n
      BY <1>1, <1>2, <1>4, <2>1, <2>2, <2>3, <3>2 DEF UsedIsInvalid, Grants
    <3>3. QED
      BY <3>1, <3>2
  <2>4. ASSUME NEW q \in Requests, NEW t \in Tokens, Holds(q, t)',
               request'[q].pc \in {"lookup", "issue"}
        PROVE  token'[t] # "valid"
    <3>1. Holds(q, t) /\ request[q].pc \in {"lookup", "issue"}
      BY <1>8, <2>4
    <3>2. t # n
      BY <1>1, <3>1 DEF RefreshPath
    <3>3. QED
      BY <1>1, <1>2, <2>1, <3>1, <3>2 DEF UsedIsInvalid
  <2>5. QED
    BY <2>3, <2>4 DEF UsedIsInvalid
<1>15. OneEndPerSession'
  <2>1. \A s \in Rows : root'[s] = root[s] /\ s \in Tokens /\ s # n
    BY <1>1, <1>3 DEF Rows
  <2>2. ASSUME NEW used \in Rows, yields[used] > 1
        PROVE  used \in Rows' /\ yields'[used] > 1 /\ root'[used] = root[used]
    BY <1>9, <1>10, <2>1, <2>2 DEF Grants
  <2>3. ASSUME NEW t \in Rows, NEW s \in Rows, root[t] = root[s], t # s,
               yields'[t] = 0, yields'[s] = 0
        PROVE  \E used \in Rows' : root'[used] = root'[t] /\ yields'[used] > 1
    <3>1. yields[t] = 0 /\ yields[s] = 0
      BY <1>9, <2>1, <2>3 DEF Grants
    <3>2. PICK used \in Rows : root[used] = root[t] /\ yields[used] > 1
      BY <2>3, <3>1 DEF OneEndPerSession
    <3>3. QED
      BY <2>1, <2>2, <3>2
  <2>4. ASSUME NEW s \in Rows, root[s] = root'[n], yields'[s] = 0
        PROVE  \E used \in Rows' : root'[used] = root'[n] /\ yields'[used] > 1
    <3>1. CASE g \in Tokens
      <4>1. g \in Rows /\ root'[n] = root[g] /\ yields'[g] = yields[g] + 1
        BY <1>3, <1>4, <1>6, <3>1 DEF Rows, Grants
      <4>2. g # s /\ yields[s] = 0 /\ yields[g] \in Nat
        BY <1>9, <2>1, <2>4, <3>1, <4>1 DEF Grants
      <4>3. CASE yields[g] = 0
        <5>1. PICK used \in Rows : root[used] = root[g] /\ yields[used] > 1
          BY <2>4, <4>1, <4>2, <4>3 DEF OneEndPerSession
        <5>2. QED
          BY <2>2, <4>1, <5>1
      <4>4. CASE yields[g] > 0
        <5>1. g \in Rows' /\ yields'[g] > 1 /\ root'[g] = root'[n]
          BY <1>10, <2>1, <4>1, <4>2, <4>4
        <5>2. QED
          BY <5>1
      <4>5. QED
        BY <4>2, <4>3, <4>4
    <3>2. CASE g \in Codes
      <4>1. yields[g] = 0
        BY <3>2 DEF CodesHeldOnce, Holds
      <4>2. root[s] = g
        BY <1>3, <2>4, <3>2, GrantsAssumption
      <4>3. QED
        BY <2>1, <3>2, <4>1, <4>2, GrantsAssumption DEF Rooted, Rows
    <3>3. CASE g = None
      <4>1. root[s] = n
        BY <1>3, <2>4, <3>3, GrantsAssumption
      <4>2. QED
        BY <1>1, <2>1, <4>1 DEF NewIsUntouched, Rows
    <3>4. QED
      BY <1>5, <3>1, <3>2, <3>3
  <2>5. ASSUME NEW t \in Rows', NEW s \in Rows', root'[t] = root'[s], t # s,
               yields'[t] = 0, yields'[s] = 0
        PROVE  \E used \in Rows' : root'[used] = root'[t] /\ yields'[used] > 1
    <3>1. CASE t \in Rows /\ s \in Rows
      BY <2>1, <2>3, <2>5, <3>1
    <3>2. CASE t = n /\ s \in Rows
      BY <2>1, <2>4, <2>5, <3>2
    <3>3. CASE s = n /\ t \in Rows
      BY <2>1, <2>4, <2>5, <3>3
    <3>4. QED
      BY <1>10, <2>5, <3>1, <3>2, <3>3
  <2>6. QED
    BY <2>5 DEF OneEndPerSession
<1>16. QED
  BY <1>11, <1>12, <1>13, <1>14, <1>15

LEMMA SessionsStep ==
  TypeOK /\ CodesHeldOnce /\ Sessions /\ [Next]_vars => Sessions'
<1> SUFFICES ASSUME TypeOK, CodesHeldOnce, Sessions, [Next]_vars
             PROVE  Sessions'
  OBVIOUS
<1> USE DEF rowVars, observerVars
<1>1. ASSUME NEW r \in Requests, NEW c \in Clients, NEW u \in Users,
             NEW pkce \in BOOLEAN, Authorize(r, c, u, pkce)
      PROVE  Sessions'
  BY <1>1, BeginSessions, GrantsAssumption DEF Authorize
<1>2. ASSUME NEW r \in Requests, NEW x \in Codes,
             CreateAuthCode(r, x) \/ ConsumeAuthCode(r, x)
      PROVE  Sessions'
  <2>1. UNCHANGED <<token, yields, root, revoked, faults>>
    BY <1>2 DEF CreateAuthCode, ConsumeAuthCode
  <2>2. Answer(r) \/ Become(r, "check", x, issue[x])
    BY <1>2 DEF CreateAuthCode, ConsumeAuthCode
  <2>3. x \notin Tokens
    BY GrantsAssumption
  <2>4. QED
    BY <2>1, <2>2, <2>3, BeginSessions, GoOnSessions
<1>3. ASSUME NEW r \in Requests, CheckRedemption(r) \/ GetUserByID(r) \/ Fail(r)
      PROVE  Sessions'
  <2>1. UNCHANGED <<token, yields, root, revoked, faults>>
    BY <1>3 DEF CheckRedemption, GetUserByID, Fail
  <2>2. \/ Answer(r)
        \/ request[r].pc = "lookup" /\ Goto(r, "issue")
        \/ request[r].pc = "check" /\ Goto(r, "lookup")
    BY <1>3 DEF CheckRedemption, GetUserByID, Fail
  <2>3. QED
    BY <2>1, <2>2, GoOnSessions
<1>4. ASSUME NEW r \in Requests, NEW u \in Users, Login(r, u) PROVE Sessions'
  BY <1>4, BeginSessions, GrantsAssumption DEF Login
<1>5. ASSUME NEW r \in Requests, NEW t \in Tokens, ValidateRefreshToken(r, t)
      PROVE  Sessions'
  BY <1>5, BeginSessions DEF ValidateRefreshToken
<1>6. CASE OtherStep \/ UNCHANGED vars
  BY <1>6, OtherSessions
<1>7. QED
  BY <1>1, <1>2, <1>3, <1>4, <1>5, <1>6, CreateSessions, RotateSessions,
     RevokeSessions DEF Next, CodeStep, TokenStep

LEMMA SessionsInvariant == Spec => []Sessions
<1>1. Init => Sessions
  <2>1. SUFFICES ASSUME Init PROVE Sessions
    OBVIOUS
  <2>2. \A r \in Requests, t \in Tokens : ~Holds(r, t)
    <3>1. \A r \in Requests : request[r].grant = None
      BY <2>1 DEF Init, Idle
    <3>2. QED
      BY <3>1, GrantsAssumption DEF Holds
  <2>3. \A t \in Tokens : token[t] = "none" /\ yields[t] = 0 /\ t \notin revoked
    BY <2>1 DEF Init, Grants
  <2>4. QED
    BY <2>2, <2>3
       DEF Sessions, RefreshPath, NewIsUntouched, Rooted, UsedIsInvalid,
           OneEndPerSession, Rows
<1>2. QED
  BY <1>1, SessionsStep, TypeCorrect, HeldOnce, PTL DEF Spec

\* However many requests rotate the tokens of a session at the same time: two
\* of them can be refreshed only if one was refreshed twice before, or a
\* revocation was lost (tokenRefreshToken).
THEOREM OneToken == Spec => []OneTokenPerSession
<1>1. TypeOK /\ Sessions => OneTokenPerSession
  <2>1. SUFFICES ASSUME TypeOK, Sessions, NEW t \in Tokens, NEW s \in Tokens,
                        token[t] = "valid", token[s] = "valid",
                        root[t] = root[s], t # s, ~(faults > 0)
                 PROVE  \E used \in Tokens : root[used] = root[t] /\ yields[used] > 1
    BY DEF OneTokenPerSession
  <2>2. faults = 0
    BY <2>1, GrantsAssumption DEF TypeOK
  <2>3. t \in Rows /\ s \in Rows /\ yields[t] = 0 /\ yields[s] = 0
    BY <2>1, <2>2 DEF Sessions, UsedIsInvalid, Rows
  <2>4. QED
    BY <2>1, <2>3 DEF Sessions, OneEndPerSession, Rows
<1>2. QED
  BY <1>1, TypeCorrect, SessionsInvariant, PTL

LEMMA UsedStep ==
  ASSUME TypeOK, Sessions, [Next]_vars, NEW r \in Requests, faults = 0,
         request[r].pc = "idle", request'[r].pc = "rotate"
  PROVE  yields[request'[r].grant] = 0 /\ request'[r].grant \notin revoked
<1>1. ASSUME NEW q \in Requests, NEW pc, NEW g, NEW i, Become(q, pc, g, i),
             pc # "rotate"
      PROVE  FALSE
  BY <1>1, BecomeRow
<1>2. ASSUME NEW q \in Requests, NEW pc, Goto(q, pc), pc # "rotate"
      PROVE  FALSE
  BY <1>2, GotoRow
<1>3. ASSUME NEW q \in Requests, Answer(q)
      PROVE  FALSE
  BY <1>3, AnswerRow
<1>4. CASE CodeStep
  BY <1>1, <1>2, <1>3, <1>4
     DEF CodeStep, Authorize, CreateAuthCode, ConsumeAuthCode, CheckRedemption
<1>5. CASE OtherStep \/ UNCHANGED vars \/ \E t \in Tokens : Revoke(t)
  BY <1>5 DEF OtherStep, Expire, DeleteUser, DeleteClient, DeleteTenant, vars,
     Revoke
<1>6. ASSUME NEW q \in Requests, NEW t \in Tokens, ValidateRefreshToken(q, t)
      PROVE  yields[request'[r].grant] = 0 /\ request'[r].grant \notin revoked
  <2>1. token[t] = "valid" /\ Become(q, "rotate", t, issue[t])
    BY <1>6 DEF ValidateRefreshToken
  <2>2. request'[r].grant = t
    BY <2>1, BecomeRow
  <2>3. QED
    BY <2>1, <2>2 DEF Sessions, UsedIsInvalid
<1>7. QED
  BY <1>1, <1>2, <1>3, <1>4, <1>5, <1>6
     DEF Next, TokenStep, Login, CreateRefreshToken, Rotate, GetUserByID, Fail

\* A token that was refreshed or revoked starts no other refresh, unless its
\* revocation was lost (ValidateRefreshToken).
THEOREM UsedIsRefused == Spec => UsedTokenIsRefused
<1>1. TypeOK /\ Sessions /\ [Next]_vars =>
        [\A r \in Requests :
           faults = 0 /\ request[r].pc = "idle" /\ request'[r].pc = "rotate" =>
             LET t == request'[r].grant IN yields[t] = 0 /\ t \notin revoked]_vars
  BY UsedStep
<1>2. QED
  BY <1>1, TypeCorrect, SessionsInvariant, PTL DEF Spec, UsedTokenIsRefused

\* Only a request that found the user gets to make tokens for it.
LEMMA ShutOutStep ==
  ASSUME TypeOK, [Next]_vars, NEW u \in Users, ShutOut(u)
  PROVE  /\ ShutOut(u)'
         /\ \A t \in Tokens :
              token[t] = "none" /\ token'[t] = "valid" => issue'[t].user # u
<1> USE DEF rowVars, observerVars
<1>1. u \notin users'
  BY DEF ShutOut, Next, CodeStep, TokenStep, OtherStep, Authorize,
     CreateAuthCode, ConsumeAuthCode, CheckRedemption, Login,
     ValidateRefreshToken, CreateRefreshToken, Rotate, GetUserByID, Fail,
     Revoke, Expire, DeleteUser, DeleteClient, DeleteTenant, vars
<1> DEFINE Others == \A r \in Requests :
             request'[r].pc = "issue" => request'[r].issue.user # u
           Inserts == \A t \in Tokens :
             token[t] = "none" /\ token'[t] = "valid" => issue'[t].user # u
<1>2. ASSUME NEW r \in Requests, NEW pc, NEW g, NEW i, Become(r, pc, g, i),
             pc = "issue" => i.user # u
      PROVE  Others
  BY <1>2, BecomeRow DEF ShutOut
<1>3. ASSUME NEW r \in Requests, NEW pc, Goto(r, pc),
             pc = "issue" => request[r].issue.user # u
      PROVE  Others
  BY <1>3, GotoRow DEF ShutOut
<1>4. ASSUME NEW r \in Requests, Answer(r) PROVE Others
  BY <1>4, AnswerRow DEF ShutOut
<1>5. ASSUME UNCHANGED request PROVE Others
  BY <1>5 DEF ShutOut
<1> HIDE DEF Others
<1>6. CASE CodeStep
  <2>1. Others
    BY <1>2, <1>3, <1>4, <1>6
       DEF CodeStep, Authorize, CreateAuthCode, ConsumeAuthCode, CheckRedemption
  <2>2. UNCHANGED token
    BY <1>6
       DEF CodeStep, Authorize, CreateAuthCode, ConsumeAuthCode, CheckRedemption
  <2>3. QED
    BY <1>1, <2>1, <2>2 DEF ShutOut, Others
<1>7. CASE OtherStep \/ UNCHANGED vars \/ \E t \in Tokens : Revoke(t)
  <2>1. UNCHANGED request
    BY <1>7 DEF OtherStep, Expire, DeleteUser, DeleteClient, DeleteTenant, vars,
       Revoke
  <2>2. Inserts
    BY <1>7 DEF OtherStep, Expire, DeleteUser, DeleteClient, DeleteTenant, vars,
       Revoke, RevokedRow, TypeOK
  <2>3. QED
    BY <1>1, <1>5, <2>1, <2>2 DEF ShutOut, Others
<1>8. ASSUME NEW r \in Requests, NEW v \in Users, Login(r, v)
      PROVE  Others /\ Inserts
  <2>1. v # u /\ Become(r, "issue", None, [Unissued EXCEPT !.user = v])
    BY <1>8 DEF Login, ShutOut
  <2>2. [Unissued EXCEPT !.user = v].user = v
    BY DEF Unissued
  <2>3. UNCHANGED token
    BY <1>8 DEF Login
  <2>4. QED
    BY <1>2, <2>1, <2>2, <2>3
<1>9. ASSUME NEW r \in Requests, NEW t \in Tokens, ValidateRefreshToken(r, t)
      PROVE  Others /\ Inserts
  BY <1>2, <1>9 DEF ValidateRefreshToken
<1>10. ASSUME NEW r \in Requests, Rotate(r) \/ GetUserByID(r) \/ Fail(r)
       PROVE  Others /\ Inserts
  <2>1. Inserts
    BY <1>10 DEF Rotate, GetUserByID, Fail, RevokedRow, TypeOK
  <2>2. Others
    BY <1>3, <1>4, <1>10 DEF Rotate, GetUserByID, Fail, ShutOut
  <2>3. QED
    BY <2>1, <2>2
<1>11. ASSUME NEW r \in Requests, NEW n \in Tokens, CreateRefreshToken(r, n)
       PROVE  Others /\ Inserts
  <2>1. /\ request[r].pc = "issue" /\ Answer(r)
        /\ token' = [token EXCEPT ![n] = "valid"]
        /\ issue' = [issue EXCEPT ![n] = [request[r].issue EXCEPT !.pkce = FALSE]]
    BY <1>11 DEF CreateRefreshToken
  <2>2. PICK i \in Issues : i = request[r].issue
    BY LocalsFacts
  <2>3. [i EXCEPT !.pkce = FALSE].user = i.user
    BY DEF Issues
  <2>4. issue'[n].user = request[r].issue.user
    BY <2>1, <2>2, <2>3 DEF TypeOK, Grants
  <2>5. Inserts
    BY <2>1, <2>4 DEF ShutOut, TypeOK
  <2>6. QED
    BY <1>4, <2>1, <2>5
<1>12. QED
  BY <1>1, <1>6, <1>7, <1>8, <1>9, <1>10, <1>11
     DEF Next, TokenStep, ShutOut, Others

\* A deleted user stays shut out, although its codes and tokens stay valid
\* (GetUserByID before every issue).
THEOREM DeletedIsShutOut == Spec => DeletedUserIsShutOut
<1>1. TypeOK /\ [Next]_vars =>
        [\A u \in Users : ShutOut(u) =>
           /\ ShutOut(u)'
           /\ \A t \in Tokens :
                token[t] = "none" /\ token'[t] = "valid" => issue'[t].user # u]_vars
  BY ShutOutStep
<1>2. QED
  BY <1>1, TypeCorrect, PTL DEF Spec, DeletedUserIsShutOut
=============================================================================
