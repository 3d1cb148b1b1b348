---------------------------- MODULE UserDataProofs ----------------------------
(***************************************************************************)
(* Theorems about Accounts, Goals, RateLimiter and Catalogue, for every    *)
(* value of their constants.                                               *)
(***************************************************************************)
EXTENDS UserData, Lemmas

LEMMA InitAInv == Init => AInv
  <1> SUFFICES ASSUME Init PROVE AInv
    OBVIOUS
  <1> USE AccountsAssumption DEF Init, InFlight
  <1>1. TypeOK
    BY DEF TypeOK, Ids
  <1>2. Shapes /\ Numbers /\ Unborn
    BY DEF Shapes, Numbers, Unborn
  <1>3. Found /\ MadeSince /\ Credentials /\ Holds /\ Spared /\ Newest
    BY DEF Found, MadeSince, Credentials, Holds, Spared, Newest
  <1>4. Broken /\ ServerErrorsExplained /\ CodesFit /\ Superseded
    BY DEF Broken, ServerErrorsExplained, CodesFit, Superseded
  <1> QED BY <1>1, <1>2, <1>3, <1>4 DEF AInv

Ops == {"register", "login", "oauth", "verify", "resend", "change", "deactivate"}

LEMMA CallFields ==
  ASSUME TypeOK, Shapes, NEW r \in Requests, InFlight(r) \/ pc[r] # "idle"
  PROVE  /\ InFlight(r) /\ call[r] \in Call
         /\ call[r].op \in Ops /\ call[r].no \in Ids /\ call[r].address \in Addresses
         /\ call[r].seen \in Account \cup {Null} /\ call[r].hidden \in BOOLEAN
         /\ call[r].codes \subseteq Ids
         /\ Shape(pc[r], call[r])
  <1>1. InFlight(r) /\ Shape(pc[r], call[r])
    BY DEF Shapes
  <1>2. call[r] \in Call
    BY <1>1 DEF TypeOK, InFlight
  <1> QED BY <1>1, <1>2 DEF Call, Ops

LEMMA Busy ==
  ASSUME TypeOK, Shapes, NEW r \in Requests
  PROVE  InFlight(r) <=> pc[r] # "idle"
  <1>1. ASSUME InFlight(r) PROVE pc[r] # "idle"
    <2>1. Shape(pc[r], call[r]) /\ call[r].op \in Ops
      BY <1>1, CallFields
    <2> QED BY <2>1 DEF Shape, Ops
  <1> QED BY <1>1 DEF Shapes

-----------------------------------------------------------------------------
(* Rows.                                                                   *)

\* What is known of an account.
LEMMA AccountFields ==
  ASSUME NEW row \in Account
  PROVE  /\ row = [provider |-> row.provider, password |-> row.password,
                   verified |-> row.verified, status |-> row.status]
         /\ row.verified \in BOOLEAN /\ row # Null
         /\ Own(row) => /\ row.provider = "EMAIL" /\ row.password \in Passwords
                        /\ row.status \in {"ACTIVE", "WITHDRAWN"}
         /\ ~Own(row) => /\ row.provider = "OAUTH" /\ row.password = Null
                         /\ row.verified = TRUE /\ row.status = "ACTIVE"
  BY AccountsAssumption DEF Account, Own

LEMMA WithPassword ==
  ASSUME NEW row \in Account, Own(row), NEW p \in Passwords
  PROVE  LET new == [row EXCEPT !.password = p]
         IN  /\ new \in Account /\ new # Null /\ Own(new)
             /\ new.password = p /\ new.verified = row.verified /\ new.status = row.status
  <1> DEFINE new == [row EXCEPT !.password = p]
  <1>0. row = [provider |-> row.provider, password |-> row.password,
               verified |-> row.verified, status |-> row.status]
    BY AccountFields
  <1>1. new = [provider |-> row.provider, password |-> p, verified |-> row.verified,
               status |-> row.status]
    BY <1>0
  <1> HIDE DEF new
  <1>2. /\ row.provider = "EMAIL" /\ row.verified \in BOOLEAN
        /\ row.status \in {"ACTIVE", "WITHDRAWN"}
    BY AccountFields
  <1>3. new \in Account
    BY <1>1, <1>2 DEF Account
  <1>4. new.password = p /\ new.verified = row.verified /\ new.status = row.status
    BY <1>1
  <1>5. new # Null /\ Own(new)
    BY <1>3, <1>4, AccountsAssumption DEF Own
  <1> QED BY <1>3, <1>4, <1>5 DEF new

LEMMA WithVerified ==
  ASSUME NEW row \in Account
  PROVE  LET new == [row EXCEPT !.verified = TRUE]
         IN  /\ new \in Account /\ new # Null /\ (Own(new) <=> Own(row))
             /\ new.password = row.password /\ new.verified = TRUE /\ new.status = row.status
  <1> DEFINE new == [row EXCEPT !.verified = TRUE]
  <1>0. row = [provider |-> row.provider, password |-> row.password,
               verified |-> row.verified, status |-> row.status]
    BY AccountFields
  <1>1. new = [provider |-> row.provider, password |-> row.password, verified |-> TRUE,
               status |-> row.status]
    <2>1. ASSUME NEW x
          PROVE  [row EXCEPT !.verified = x] =
                     [provider |-> row.provider, password |-> row.password, verified |-> x,
                      status |-> row.status]
      BY <1>0
    <2> QED BY <2>1
  <1> HIDE DEF new
  <1>2. /\ Own(row) => /\ row.provider = "EMAIL" /\ row.password \in Passwords
                       /\ row.status \in {"ACTIVE", "WITHDRAWN"}
        /\ ~Own(row) => row.provider = "OAUTH" /\ row.password = Null /\ row.status = "ACTIVE"
    BY AccountFields
  <1>3. new \in Account
    BY <1>1, <1>2 DEF Account
  <1>4. new.password = row.password /\ new.verified = TRUE /\ new.status = row.status
    BY <1>1
  <1>5. new # Null /\ (Own(new) <=> Own(row))
    BY <1>3, <1>4, AccountsAssumption DEF Own
  <1> QED BY <1>3, <1>4, <1>5 DEF new

LEMMA WithStatus ==
  ASSUME NEW row \in Account, Own(row)
  PROVE  LET new == [row EXCEPT !.status = "WITHDRAWN"]
         IN  /\ new \in Account /\ new # Null /\ Own(new)
             /\ new.password = row.password /\ new.verified = row.verified
  <1> DEFINE new == [row EXCEPT !.status = "WITHDRAWN"]
  <1>0. row = [provider |-> row.provider, password |-> row.password,
               verified |-> row.verified, status |-> row.status]
    BY AccountFields
  <1>1. new = [provider |-> row.provider, password |-> row.password, verified |-> row.verified,
               status |-> "WITHDRAWN"]
    BY <1>0
  <1> HIDE DEF new
  <1>2. row.provider = "EMAIL" /\ row.password \in Passwords /\ row.verified \in BOOLEAN
    BY AccountFields
  <1>3. new \in Account
    BY <1>1, <1>2 DEF Account
  <1>4. new.password = row.password /\ new.verified = row.verified
    BY <1>1
  <1>5. new # Null /\ Own(new)
    BY <1>2, <1>3, <1>4, AccountsAssumption DEF Own
  <1> QED BY <1>3, <1>4, <1>5 DEF new

\* A code keeps its address, whatever else becomes of it.
LEMMA CodeFields ==
  ASSUME NEW x \in Code
  PROVE  /\ x = [address |-> x.address, expired |-> x.expired, valid |-> x.valid,
                 attempts |-> x.attempts]
         /\ x.address \in Addresses /\ x.expired \in BOOLEAN /\ x.valid \in BOOLEAN
         /\ x.attempts \in Nat /\ x # Null
  BY AccountsAssumption DEF Code

-----------------------------------------------------------------------------
(* The end of a request.                                                   *)

LEMMA Symmetric ==
  ASSUME NEW i, NEW j, Overlapped(i, j)
  PROVE  Overlapped(j, i)
  <1>1. {i, j} = {j, i}
    OBVIOUS
  <1> QED BY <1>1 DEF Overlapped

\* q is in flight, and stays as it is.
Stays(q) == InFlight(q) /\ call[q] # Null /\ pc'[q] = pc[q] /\ call'[q] = call[q]

\* Another request, r, was in flight with it.
GoesOn(q, r) == q # r /\ Stays(q) /\ Overlapped(call[q].no, call[r].no)

\* Two requests in flight overlap.
LEMMA Together ==
  ASSUME TypeOK, Shapes, Numbers, NEW q \in Requests, NEW r \in Requests, q # r,
         InFlight(q), InFlight(r)
  PROVE  Overlapped(call[q].no, call[r].no)
  <1>1. /\ call[q].no \in Ids /\ call[r].no \in Ids /\ call[q].no # call[r].no
        /\ call[q].no <= begun /\ call[r].no <= begun
    BY CallFields DEF Numbers
  <1>2. call[q].no \in Int /\ call[r].no \in Int
    BY <1>1 DEF Ids
  <1>3. CASE call[q].no < call[r].no
    BY <1>1, <1>3 DEF Numbers
  <1>4. CASE call[r].no < call[q].no
    <2>1. Overlapped(call[r].no, call[q].no)
      BY <1>1, <1>4 DEF Numbers
    <2> QED BY <2>1, Symmetric
  <1> QED BY <1>1, <1>2, <1>3, <1>4

\* A code sent after a request has begun is of one that overlaps it.
LEMMA Later ==
  ASSUME AInv, NEW r \in Requests, InFlight(r), NEW k \in Ids, codes[k] # Null,
         call[r].no < k
  PROVE  Overlapped(call[r].no, k)
  <1>1. k <= begun
    <2>1. ~(k > begun)
      BY DEF AInv, Unborn, Reserved
    <2>2. k \in Int /\ begun \in Int
      BY AccountsAssumption DEF AInv, TypeOK, Ids
    <2> QED BY <2>1, <2>2
  <1> QED BY <1>1 DEF AInv, Numbers

LEMMA EndFrame ==
  ASSUME AInv, NEW r \in Requests, pc[r] # "idle", End(r)
  PROVE  /\ InFlight(r) /\ UNCHANGED known /\ call[r].no \in Ids
         /\ pc' \in [Requests -> {"idle", "readCode", "snapshot", "commit"}]
         /\ call' \in [Requests -> Call \cup {Null}]
         /\ Shapes' /\ Numbers'
         /\ \A q \in Requests : InFlight(q)' => GoesOn(q, r)
         /\ \A i \in Ids : Reserved(i)' => Reserved(i) /\ i # call[r].no
  <1>1. InFlight(r) /\ call[r].no \in Ids /\ UNCHANGED known
    BY CallFields DEF AInv, End
  <1>2. /\ pc' \in [Requests -> {"idle", "readCode", "snapshot", "commit"}]
        /\ call' \in [Requests -> Call \cup {Null}]
        /\ pc'[r] = "idle" /\ call'[r] = Null
        /\ \A q \in Requests : q # r => pc'[q] = pc[q] /\ call'[q] = call[q]
    BY DEF End, Goto, AInv, TypeOK
  <1>3. \A q \in Requests : InFlight(q)' => GoesOn(q, r)
    <2> SUFFICES ASSUME NEW q \in Requests, InFlight(q)'
                 PROVE  GoesOn(q, r)
      OBVIOUS
    <2>1. q # r /\ Stays(q)
      BY <1>2 DEF InFlight, Stays
    <2> QED BY <1>1, <2>1, Together DEF GoesOn, Stays, AInv
  <1>4. Shapes'
    <2>1. \A q \in Requests : InFlight(q)' => Shape(pc'[q], call'[q])
      BY <1>3 DEF GoesOn, Stays, AInv, Shapes
    <2>2. \A q \in Requests : ~InFlight(q)' => pc'[q] = "idle"
      BY <1>2 DEF AInv, Shapes, InFlight
    <2> QED BY <2>1, <2>2 DEF Shapes, Shape
  <1>5. Numbers'
    <2>1. \A q \in Requests : InFlight(q)' => InFlight(q) /\ call'[q] = call[q]
      BY <1>3 DEF GoesOn, Stays
    <2> QED BY <1>1, <2>1 DEF AInv, Numbers, known, Overlapped
  <1>6. \A i \in Ids : Reserved(i)' => Reserved(i) /\ i # call[r].no
    <2> SUFFICES ASSUME NEW i \in Ids, Reserved(i)'
                 PROVE  Reserved(i) /\ i # call[r].no
      OBVIOUS
    <2>1. CASE i > begun'
      <3>1. call[r].no <= begun /\ begun' = begun /\ i > begun
        BY <1>1, <2>1 DEF AInv, Numbers, known
      <3>2. call[r].no \in Int /\ begun \in Int /\ i \in Int
        BY <1>1, AccountsAssumption DEF AInv, TypeOK, Ids
      <3> QED BY <3>1, <3>2 DEF Reserved
    <2>2. CASE \E q \in Requests : InFlight(q)' /\ call'[q].no = i
      <3>1. PICK q \in Requests : InFlight(q)' /\ call'[q].no = i
        BY <2>2
      <3>2. GoesOn(q, r) /\ call[q].no = i
        BY <1>3, <3>1 DEF GoesOn, Stays
      <3> QED BY <1>1, <3>2 DEF GoesOn, Stays, AInv, Numbers, Reserved
    <2> QED BY <2>1, <2>2 DEF Reserved
  <1> QED BY <1>1, <1>2, <1>3, <1>4, <1>5, <1>6

-----------------------------------------------------------------------------
(* What a request may do to the rows when it commits.                      *)

\* No account is lost, changes hands or ceases to be verified, and what has become of it
\* bears the number of the request.
AccountsAdvance(r) ==
    /\ account' \in [Addresses -> Account \cup {Null}]
    /\ createdBy' \in [Addresses -> Ids \cup {Null}]
    /\ setBy' \in [Addresses -> Ids \cup {Null}]
    /\ withdrawnBy' \in [Addresses -> SUBSET Ids]
    /\ \A a \in Addresses : account[a] # Null =>
          /\ account'[a] # Null /\ (Own(account'[a]) <=> Own(account[a]))
          /\ account[a].verified => account'[a].verified
          /\ createdBy'[a] = createdBy[a]
          /\ \/ account'[a].password = account[a].password /\ setBy'[a] = setBy[a]
             \/ setBy'[a] = call[r].no
          /\ account'[a].status = "WITHDRAWN" =>
                account[a].status = "WITHDRAWN" \/ call[r].no \in withdrawnBy'[a]
    /\ \A a \in Addresses : account[a] = Null /\ account'[a] # Null =>
          createdBy'[a] = call[r].no
    /\ \A a \in Addresses : withdrawnBy[a] \subseteq withdrawnBy'[a]

\* A code may be added, and codes may be used or invalidated.
CodesAdvance(r) ==
    /\ codes' \in [Ids -> Code \cup {Null}]
    /\ \A k \in Ids : codes[k] # Null =>
          /\ codes'[k] # Null /\ codes'[k].address = codes[k].address
          /\ codes'[k].valid => codes[k].valid /\ codes'[k].attempts = codes[k].attempts
    /\ \A k \in Ids : codes[k] = Null /\ codes'[k] # Null =>
          /\ k = call[r].no /\ codes'[k].valid /\ codes'[k].attempts = 0
          /\ account'[codes'[k].address] # Null
    /\ \A k \in Ids : codes[k] # Null /\ codes[k].valid /\ ~codes'[k].valid =>
          \/ account'[codes[k].address].verified
          \/ /\ call[r].op = "resend" /\ pc[r] = "commit" /\ k \in call[r].codes
             /\ \A i \in call[r].codes : ~codes'[i].valid

\* It may meet the index when it has looked for the account in vain.
BrokenAdvance(r) ==
    \/ broken' = broken
    \/ /\ broken' = broken \cup {call[r]}
       /\ call[r].op \in {"register", "oauth"} /\ call[r].seen = Null
       /\ account[call[r].address] # Null

LEMMA AccountsStay ==
  ASSUME AInv, NEW r, UNCHANGED <<account, createdBy, setBy, withdrawnBy>>
  PROVE  AccountsAdvance(r)
  BY DEF AInv, TypeOK, AccountsAdvance

LEMMA CodesStay ==
  ASSUME AInv, NEW r, UNCHANGED codes
  PROVE  CodesAdvance(r)
  BY DEF AInv, TypeOK, CodesAdvance

\* What is said of the other requests stays.
LEMMA OthersKept ==
  ASSUME AInv, NEW r \in Requests, NEW q \in Requests, InFlight(r), GoesOn(q, r),
         UNCHANGED known, AccountsAdvance(r), CodesAdvance(r)
  PROVE  /\ FoundOf(q)' /\ MadeSinceOf(q)' /\ CredentialOf(q)'
         /\ HoldsOf(q)' /\ SparedOf(q)' /\ NewestOf(q)'
  <1> DEFINE a == call[q].address
             n == call[r].no
  <1>1. /\ InFlight(q) /\ a \in Addresses /\ pc'[q] = pc[q] /\ call'[q] = call[q]
        /\ call[q].op \in Ops /\ call[q].codes \subseteq Ids /\ Shape(pc[q], call[q])
        /\ Overlapped(call[q].no, n)
    BY CallFields DEF GoesOn, Stays, AInv
  <1>2. /\ FoundOf(q) /\ MadeSinceOf(q) /\ CredentialOf(q)
        /\ HoldsOf(q) /\ SparedOf(q) /\ NewestOf(q)
    BY <1>1 DEF AInv, Found, MadeSince, Credentials, Holds, Spared, Newest
  <1>3. \A i, j : Overlapped(i, j)' <=> Overlapped(i, j)
    BY DEF Overlapped, known
  <1>4. FoundOf(q)'
    BY <1>1, <1>2 DEF FoundOf, AccountsAdvance
  <1>5. MadeSinceOf(q)'
    <2>1. account[a] # Null => createdBy'[a] = createdBy[a]
      BY <1>1 DEF AccountsAdvance
    <2>2. account[a] = Null /\ account'[a] # Null => createdBy'[a] = n
      BY <1>1 DEF AccountsAdvance
    <2> QED BY <1>1, <1>2, <2>1, <2>2 DEF MadeSinceOf, Overlapped, known
  <1>6. CredentialOf(q)'
    <2> SUFFICES ASSUME pc[q] = "commit", call[q].op \in {"login", "change", "deactivate"}
                 PROVE  /\ call[q].seen.password # account'[a].password =>
                              Overlapped(call[q].no, setBy'[a])
                        /\ call[q].op = "login" /\ account'[a].status = "WITHDRAWN" =>
                              \E i \in withdrawnBy'[a] : Overlapped(call[q].no, i)
      BY <1>1 DEF CredentialOf, Overlapped, known
    <2>1. call[q].seen # Null
      BY <1>1 DEF Shape, Ops
    <2>2. account[a] # Null
      BY <1>2, <2>1 DEF FoundOf
    <2>3. /\ \/ account'[a].password = account[a].password /\ setBy'[a] = setBy[a]
             \/ setBy'[a] = n
          /\ account'[a].status = "WITHDRAWN" =>
                account[a].status = "WITHDRAWN" \/ n \in withdrawnBy'[a]
          /\ withdrawnBy[a] \subseteq withdrawnBy'[a]
      BY <1>1, <2>2 DEF AccountsAdvance
    <2> QED BY <1>1, <1>2, <2>3 DEF CredentialOf
  <1>7. HoldsOf(q)'
    <2>1. \A k \in Ids : CodeOf(k, a) => codes'[k] # Null /\ codes'[k].address = a
      BY DEF CodesAdvance, CodeOf
    <2>2. call[q].op = "verify" => call[q].arg \in Ids
      BY <1>1 DEF Shape
    <2> QED BY <1>1, <1>2, <2>1, <2>2 DEF HoldsOf, CodeOf
  <1>8. SparedOf(q)'
    <2> SUFFICES ASSUME call[q].op = "resend", pc[q] = "commit",
                        NEW k \in call[q].codes, NEW i \in Ids \ call[q].codes,
                        i < k, codes'[i] # Null, codes'[i].address = a, codes'[i].valid
                 PROVE  Overlapped(i, k)
      BY <1>1 DEF SparedOf, CodeOf, Overlapped, known
    <2>1. CASE codes[i] # Null
      <3>1. CodeOf(i, a) /\ codes[i].valid
        BY <2>1 DEF CodesAdvance, CodeOf
      <3> QED BY <1>2, <3>1 DEF SparedOf
    <2>2. CASE codes[i] = Null
      <3>1. i = n
        BY <2>2 DEF CodesAdvance
      <3>2. codes[k] # Null /\ k \in Ids
        BY <1>1, <1>2 DEF HoldsOf, CodeOf
      <3> QED BY <3>1, <3>2, Later
    <2> QED BY <2>1, <2>2
  <1>9. NewestOf(q)'
    <2> SUFFICES ASSUME call[q].op = "verify", pc[q] = "commit", ~account'[a].verified,
                        NEW k \in Ids, codes'[k] # Null, codes'[k].address = a,
                        k > call[q].arg
                 PROVE  Overlapped(k, call[q].no) \/ Overlapped(k, call[q].arg)
      BY <1>1 DEF NewestOf, CodeOf, Overlapped, known
    <2>1. CASE codes[k] # Null
      <3>1. account[a] # Null
        BY <1>1, <1>2 DEF FoundOf, Shape
      <3>2. ~account[a].verified /\ CodeOf(k, a)
        BY <1>1, <2>1, <3>1 DEF AccountsAdvance, CodesAdvance, CodeOf
      <3> QED BY <1>2, <3>2 DEF NewestOf
    <2>2. CASE codes[k] = Null
      <3>1. k = n
        BY <2>2 DEF CodesAdvance
      <3> QED BY <1>1, <3>1, Symmetric
    <2> QED BY <2>1, <2>2
  <1> QED BY <1>4, <1>5, <1>6, <1>7, <1>8, <1>9

LEMMA EndKeepsAInv ==
  ASSUME AInv, NEW r \in Requests, pc[r] # "idle", End(r),
         AccountsAdvance(r), CodesAdvance(r), BrokenAdvance(r)
  PROVE  AInv'
  <1> DEFINE c == call[r]
             n == c.no
  <1>1. /\ InFlight(r) /\ UNCHANGED known /\ n \in Ids
        /\ pc' \in [Requests -> {"idle", "readCode", "snapshot", "commit"}]
        /\ call' \in [Requests -> Call \cup {Null}]
        /\ Shapes' /\ Numbers'
        /\ \A q \in Requests : InFlight(q)' => GoesOn(q, r)
        /\ \A i \in Ids : Reserved(i)' => Reserved(i) /\ i # n
    BY EndFrame
  <1>2. c \in Call /\ c.address \in Addresses
    BY <1>1, CallFields DEF AInv
  <1>3. \A q \in Requests : InFlight(q)' =>
            /\ FoundOf(q)' /\ MadeSinceOf(q)' /\ CredentialOf(q)'
            /\ HoldsOf(q)' /\ SparedOf(q)' /\ NewestOf(q)'
    BY <1>1, OthersKept
  <1>4. broken' \subseteq Call
    BY <1>2 DEF AInv, TypeOK, BrokenAdvance
  <1>5. TypeOK'
    BY <1>1, <1>4 DEF AInv, TypeOK, known, AccountsAdvance, CodesAdvance
  <1>6. Unborn'
    BY <1>1 DEF AInv, Unborn, CodesAdvance
  <1>7. Broken' /\ ServerErrorsExplained'
    <2> SUFFICES ASSUME NEW d \in broken'
                 PROVE  /\ account'[d.address] # Null
                        /\ d.hidden \/ Overlapped(d.no, createdBy'[d.address])
      BY <1>1 DEF Broken, ServerErrorsExplained, Overlapped, known
    <2>1. d \in Call /\ d.address \in Addresses
      BY <1>4 DEF Call
    <2>2. account[d.address] # Null /\ (d.hidden \/ Overlapped(d.no, createdBy[d.address]))
      <3>1. CASE d \in broken
        BY <3>1 DEF AInv, Broken, ServerErrorsExplained
      <3>2. CASE d \notin broken
        <4>1. /\ d = c /\ c.op \in {"register", "oauth"} /\ c.seen = Null
              /\ account[c.address] # Null
          BY <3>2 DEF BrokenAdvance
        <4> QED BY <1>1, <4>1 DEF AInv, MadeSince, MadeSinceOf
      <3> QED BY <3>1, <3>2
    <2> QED BY <2>1, <2>2 DEF AccountsAdvance
  <1>8. CodesFit'
    <2> SUFFICES ASSUME NEW k \in Ids, codes'[k] # Null
                 PROVE  /\ account'[codes'[k].address] # Null
                        /\ codes'[k].valid => codes'[k].attempts = 0
      BY DEF CodesFit
    <2>1. CASE codes[k] = Null
      BY <2>1 DEF CodesAdvance
    <2>2. CASE codes[k] # Null
      <3>1. codes[k].address \in Addresses
        BY <2>2, CodeFields DEF AInv, TypeOK
      <3>2. /\ codes'[k].address = codes[k].address
            /\ codes'[k].valid => codes[k].valid /\ codes'[k].attempts = codes[k].attempts
        BY <2>2 DEF CodesAdvance
      <3>3. /\ account[codes[k].address] # Null
            /\ codes[k].valid => codes[k].attempts = 0
        BY <2>2 DEF AInv, CodesFit
      <3> QED BY <3>1, <3>2, <3>3 DEF AccountsAdvance
    <2> QED BY <2>1, <2>2
  <1>9. Superseded'
    <2> SUFFICES ASSUME NEW i \in Ids, NEW k \in Ids, i < k, codes'[i] # Null,
                        codes'[k] # Null, codes'[k].address = codes'[i].address,
                        ~account'[codes'[i].address].verified,
                        codes'[i].valid, ~codes'[k].valid
                 PROVE  Overlapped(i, k)
      BY <1>1 DEF Superseded, CodeOf, Overlapped, known
    <2> DEFINE a == codes[k].address
    <2>1. codes[k] # Null /\ codes'[k].address = a /\ a \in Addresses
      <3>1. codes[k] # Null
        BY DEF CodesAdvance
      <3> QED BY <3>1, CodeFields DEF CodesAdvance, AInv, TypeOK
    <2>2. CASE codes[i] = Null
      <3>1. i = n
        BY <2>2 DEF CodesAdvance
      <3> QED BY <1>1, <2>1, <3>1, Later
    <2>3. CASE codes[i] # Null
      <3>1. codes[i].valid /\ codes[i].address = a
        BY <2>1, <2>3 DEF CodesAdvance
      <3>2. account[a] # Null
        BY <2>1 DEF AInv, CodesFit
      <3>3. ~account'[a].verified /\ ~account[a].verified
        BY <2>1, <3>2 DEF AccountsAdvance
      <3>4. CASE ~codes[k].valid
        BY <2>1, <2>3, <3>1, <3>3, <3>4 DEF AInv, Superseded, CodeOf
      <3>5. CASE codes[k].valid
        <4>1. /\ c.op = "resend" /\ pc[r] = "commit" /\ k \in c.codes
              /\ \A j \in c.codes : ~codes'[j].valid
          BY <2>1, <3>3, <3>5 DEF CodesAdvance
        <4>2. i \in Ids \ c.codes /\ c.address = a
          BY <1>1, <4>1 DEF AInv, Holds, HoldsOf, CodeOf
        <4>3. CodeOf(i, c.address)
          BY <2>3, <3>1, <4>2 DEF CodeOf
        <4> QED BY <1>1, <3>1, <4>1, <4>2, <4>3 DEF AInv, Spared, SparedOf
      <3> QED BY <3>4, <3>5
    <2> QED BY <2>2, <2>3
  <1> QED BY <1>1, <1>3, <1>5, <1>6, <1>7, <1>8, <1>9
          DEF AInv, Found, MadeSince, Credentials, Holds, Spared, Newest

LEMMA RollbackKeepsAInv ==
  ASSUME AInv, NEW r \in Requests, Rollback(r)
  PROVE  AInv'
  <1>1. pc[r] # "idle" /\ End(r) /\ UNCHANGED <<account, codes, histories>>
    BY DEF Rollback
  <1>2. AccountsAdvance(r) /\ CodesAdvance(r) /\ BrokenAdvance(r)
    BY <1>1, AccountsStay, CodesStay DEF histories, BrokenAdvance
  <1> QED BY <1>1, <1>2, EndKeepsAInv

LEMMA NewCodeFields ==
  ASSUME NEW c, c.address \in Addresses
  PROVE  /\ NewCode(c) \in Code /\ NewCode(c) # Null /\ NewCode(c).address = c.address
         /\ NewCode(c).valid /\ NewCode(c).attempts = 0
  <1>1. NewCode(c) \in Code
    BY DEF NewCode, Code
  <1>2. NewCode(c).address = c.address /\ NewCode(c).valid /\ NewCode(c).attempts = 0
    BY DEF NewCode
  <1> QED BY <1>1, <1>2, AccountsAssumption

\* A row is written for an address that had none.
LEMMA Made ==
  ASSUME AInv, NEW r, NEW a \in Addresses, call[r].no \in Ids, account[a] = Null,
         NEW row \in Account, account' = [account EXCEPT ![a] = row],
         createdBy' = [createdBy EXCEPT ![a] = call[r].no],
         setBy' \in [Addresses -> Ids \cup {Null}],
         \A b \in Addresses : b # a => setBy'[b] = setBy[b],
         UNCHANGED withdrawnBy
  PROVE  AccountsAdvance(r)
  <1>1. /\ account' \in [Addresses -> Account \cup {Null}] /\ row # Null
        /\ createdBy' \in [Addresses -> Ids \cup {Null}]
        /\ withdrawnBy' \in [Addresses -> SUBSET Ids]
    BY AccountsAssumption DEF AInv, TypeOK
  <1>2. \A b \in Addresses : b # a => account'[b] = account[b] /\ createdBy'[b] = createdBy[b]
    BY DEF AInv, TypeOK
  <1>3. account'[a] = row /\ createdBy'[a] = call[r].no
    BY DEF AInv, TypeOK
  <1> QED BY <1>1, <1>2, <1>3 DEF AccountsAdvance

LEMMA CommitRegisterKeepsAInv ==
  ASSUME AInv, NEW r \in Requests, CommitRegister(r)
  PROVE  AInv'
  <1> DEFINE c == call[r]
             row == [provider |-> "EMAIL", password |-> c.arg, verified |-> FALSE,
                     status |-> "ACTIVE"]
  <1>1. /\ pc[r] = "commit" /\ c.op = "register" /\ End(r) /\ account[c.address] = Null
        /\ UNCHANGED <<withdrawnBy, broken>>
    BY DEF CommitRegister, AtCommit
  <1>2. /\ InFlight(r) /\ c.no \in Ids /\ c.address \in Addresses
        /\ c.arg \in Passwords
    <2>1. InFlight(r) /\ c.no \in Ids /\ c.address \in Addresses /\ Shape(pc[r], c)
      BY <1>1, CallFields DEF AInv
    <2> QED BY <1>1, <2>1 DEF Shape
  <1>3. row \in Account
    BY <1>2 DEF Account
  <1>4. AccountsAdvance(r)
    <2>1. account' = [account EXCEPT ![c.address] = row]
      BY DEF CommitRegister
    <2>2. createdBy' = [createdBy EXCEPT ![c.address] = c.no]
      BY DEF CommitRegister
    <2>3. /\ setBy' \in [Addresses -> Ids \cup {Null}]
          /\ \A b \in Addresses : b # c.address => setBy'[b] = setBy[b]
      BY <1>2 DEF CommitRegister, AInv, TypeOK
    <2> HIDE DEF row
    <2> QED BY <1>1, <1>2, <1>3, <2>1, <2>2, <2>3, Made
  <1>5. CodesAdvance(r)
    <2>1. codes[c.no] = Null
      BY <1>2 DEF AInv, Unborn, Reserved
    <2>2. /\ NewCode(c) \in Code /\ NewCode(c).address = c.address
          /\ NewCode(c).valid /\ NewCode(c).attempts = 0
      BY <1>2, NewCodeFields
    <2>3. /\ codes' \in [Ids -> Code \cup {Null}] /\ codes'[c.no] = NewCode(c)
          /\ \A k \in Ids : k # c.no => codes'[k] = codes[k]
      BY <1>2, <2>2 DEF CommitRegister, AInv, TypeOK
    <2>4. account'[c.address] # Null
      BY <1>2, <1>3, AccountsAssumption DEF CommitRegister, AInv, TypeOK
    <2> HIDE DEF row
    <2> QED BY <2>1, <2>2, <2>3, <2>4 DEF CodesAdvance
  <1> QED BY <1>1, <1>4, <1>5, EndKeepsAInv DEF BrokenAdvance

LEMMA CommitLoginKeepsAInv ==
  ASSUME AInv, NEW r \in Requests, CommitLogin(r)
  PROVE  AInv'
  <1>1. pc[r] = "commit" /\ End(r) /\ UNCHANGED <<account, codes, histories>>
    BY DEF CommitLogin, AtCommit
  <1> QED BY <1>1, RollbackKeepsAInv DEF Rollback

LEMMA CommitOAuthKeepsAInv ==
  ASSUME AInv, NEW r \in Requests, CommitOAuth(r)
  PROVE  AInv'
  <1> DEFINE c == call[r]
             row == [provider |-> "OAUTH", password |-> Null, verified |-> TRUE,
                     status |-> "ACTIVE"]
  <1>1. pc[r] = "commit" /\ End(r) /\ UNCHANGED <<codes, setBy, withdrawnBy, broken>>
    BY DEF CommitOAuth, AtCommit
  <1>2. c.no \in Ids /\ c.address \in Addresses
    BY <1>1, CallFields DEF AInv
  <1>3. AccountsAdvance(r)
    <2>1. CASE UNCHANGED <<account, createdBy>>
      BY <1>1, <2>1, AccountsStay
    <2>2. CASE /\ account[c.address] = Null
               /\ account' = [account EXCEPT ![c.address] = row]
               /\ createdBy' = [createdBy EXCEPT ![c.address] = c.no]
      <3>1. row \in Account
        BY DEF Account
      <3>2. setBy' \in [Addresses -> Ids \cup {Null}] /\ setBy' = setBy
        BY <1>1 DEF AInv, TypeOK
      <3> HIDE DEF row
      <3> QED BY <1>1, <1>2, <2>2, <3>1, <3>2, Made
    <2> QED BY <2>1, <2>2 DEF CommitOAuth
  <1> QED BY <1>1, <1>3, CodesStay, EndKeepsAInv DEF BrokenAdvance

LEMMA UniqueViolationKeepsAInv ==
  ASSUME AInv, NEW r \in Requests, UniqueViolation(r)
  PROVE  AInv'
  <1>1. /\ pc[r] = "commit" /\ End(r)
        /\ UNCHANGED <<account, codes, createdBy, setBy, withdrawnBy>>
    BY DEF UniqueViolation, AtCommit
  <1>2. BrokenAdvance(r)
    BY DEF UniqueViolation, AtCommit, BrokenAdvance
  <1> QED BY <1>1, <1>2, AccountsStay, CodesStay, EndKeepsAInv

\* The row of an address is written again.
LEMMA Rewritten ==
  ASSUME AInv, NEW r, NEW a \in Addresses, account[a] # Null, NEW row \in Account,
         Own(row) <=> Own(account[a]), account[a].verified => row.verified,
         account' = [account EXCEPT ![a] = row], UNCHANGED createdBy,
         setBy' \in [Addresses -> Ids \cup {Null}],
         \A b \in Addresses : b # a => setBy'[b] = setBy[b],
         \/ row.password = account[a].password /\ setBy'[a] = setBy[a]
         \/ setBy'[a] = call[r].no,
         withdrawnBy' \in [Addresses -> SUBSET Ids],
         \A b \in Addresses : withdrawnBy[b] \subseteq withdrawnBy'[b],
         row.status = "WITHDRAWN" =>
             account[a].status = "WITHDRAWN" \/ call[r].no \in withdrawnBy'[a]
  PROVE  AccountsAdvance(r)
  <1>1. account' \in [Addresses -> Account \cup {Null}] /\ account'[a] = row /\ row # Null
    BY AccountsAssumption DEF AInv, TypeOK
  <1>2. \A b \in Addresses : b # a => account'[b] = account[b]
    BY DEF AInv, TypeOK
  <1>3. createdBy' \in [Addresses -> Ids \cup {Null}]
    BY DEF AInv, TypeOK
  <1> QED BY <1>1, <1>2, <1>3 DEF AccountsAdvance

\* The account that a request has found.
LEMMA FoundAccount ==
  ASSUME AInv, NEW r \in Requests, InFlight(r),
         call[r].op \in {"login", "verify", "resend", "change", "deactivate"}
  PROVE  /\ call[r].address \in Addresses /\ account[call[r].address] \in Account
         /\ account[call[r].address] # Null
         /\ call[r].op \in {"change", "deactivate"} => Own(account[call[r].address])
  <1>1. call[r].address \in Addresses /\ Shape(pc[r], call[r])
    BY CallFields DEF AInv
  <1>2. /\ call[r].seen # Null
        /\ call[r].op \in {"change", "deactivate"} => Own(call[r].seen)
    BY <1>1 DEF Shape
  <1>3. FoundOf(r)
    BY DEF AInv, Found
  <1> QED BY <1>1, <1>2, <1>3 DEF FoundOf, AInv, TypeOK

LEMMA CommitVerifyKeepsAInv ==
  ASSUME AInv, NEW r \in Requests, CommitVerify(r)
  PROVE  AInv'
  <1> DEFINE c == call[r]
             a == c.address
             k == c.arg
             row == [account[a] EXCEPT !.verified = TRUE]
             more == [codes[k] EXCEPT !.attempts = codes[k].attempts + 1]
             used == [more EXCEPT !.valid = FALSE]
  <1>1. pc[r] = "commit" /\ c.op = "verify" /\ End(r) /\ UNCHANGED histories
    BY DEF CommitVerify, AtCommit
  <1>2. /\ InFlight(r) /\ c.no \in Ids /\ k \in Ids /\ a \in Addresses
        /\ account[a] \in Account /\ account[a] # Null
        /\ codes[k] # Null /\ codes[k].address = a
    <2>1. InFlight(r) /\ c.no \in Ids /\ Shape(pc[r], c)
      BY <1>1, CallFields DEF AInv
    <2> QED BY <1>1, <2>1, FoundAccount DEF Shape, AInv, Holds, HoldsOf, CodeOf
  <1>3. /\ row \in Account /\ (Own(row) <=> Own(account[a])) /\ row # Null
        /\ row.password = account[a].password /\ row.verified = TRUE
        /\ row.status = account[a].status
    BY <1>2, WithVerified
  <1>4. account' = [account EXCEPT ![a] = row]
    BY DEF CommitVerify
  <1> HIDE DEF row
  <1>5. AccountsAdvance(r)
    <2>1. /\ setBy' \in [Addresses -> Ids \cup {Null}] /\ setBy' = setBy
          /\ withdrawnBy' \in [Addresses -> SUBSET Ids] /\ withdrawnBy' = withdrawnBy
          /\ UNCHANGED createdBy
      BY <1>1 DEF AInv, TypeOK, histories
    <2> QED BY <1>2, <1>3, <1>4, <2>1, Rewritten
  <1>6. /\ used \in Code /\ used # Null /\ used.address = a /\ ~used.valid
    <2> DEFINE x == codes[k]
               flat == [address |-> x.address, expired |-> x.expired, valid |-> FALSE,
                        attempts |-> x.attempts + 1]
    <2>1. x \in Code
      BY <1>2 DEF AInv, TypeOK
    <2>2. x = [address |-> x.address, expired |-> x.expired, valid |-> x.valid,
               attempts |-> x.attempts]
      BY <2>1, CodeFields
    <2>3. used = flat
      <3>1. ASSUME NEW v
            PROVE  [more EXCEPT !.valid = v] =
                       [address |-> x.address, expired |-> x.expired, valid |-> v,
                        attempts |-> x.attempts + 1]
        <4>1. more = [address |-> x.address, expired |-> x.expired, valid |-> x.valid,
                      attempts |-> x.attempts + 1]
          <5> HIDE DEF x
          <5>1. more = [x EXCEPT !.attempts = x.attempts + 1]
            BY DEF x
          <5> HIDE DEF more
          <5> QED BY <2>2, <5>1
        <4> HIDE DEF more, x
        <4> QED BY <4>1
      <3> HIDE DEF more, x
      <3> QED BY <3>1
    <2>4. flat \in Code /\ flat # Null /\ flat.address = x.address /\ ~flat.valid
      <3>1. x.address \in Addresses /\ x.expired \in BOOLEAN /\ x.attempts + 1 \in Nat
        BY <2>1, CodeFields
      <3> HIDE DEF x
      <3>2. flat \in Code
        BY <3>1 DEF Code
      <3> QED BY <3>2, AccountsAssumption
    <2> HIDE DEF used, flat
    <2> QED BY <1>2, <2>3, <2>4
  <1>7. codes' = [codes EXCEPT ![k] = used]
    <2>1. codes' = [[codes EXCEPT ![k] = more] EXCEPT ![k].valid = FALSE]
      BY DEF CommitVerify
    <2>2. [codes EXCEPT ![k] = more][k] = more
      BY <1>2 DEF AInv, TypeOK
    <2> HIDE DEF more
    <2> QED BY <1>2, <2>1, <2>2 DEF AInv, TypeOK
  <1> HIDE DEF used, more
  <1>8. CodesAdvance(r)
    <2>1. /\ codes' \in [Ids -> Code \cup {Null}] /\ codes'[k] = used
          /\ \A i \in Ids : i # k => codes'[i] = codes[i]
      BY <1>2, <1>6, <1>7 DEF AInv, TypeOK
    <2>2. account'[a].verified
      BY <1>2, <1>3, <1>4 DEF AInv, TypeOK
    <2> QED BY <1>2, <1>6, <2>1, <2>2 DEF CodesAdvance
  <1> QED BY <1>1, <1>5, <1>8, EndKeepsAInv DEF BrokenAdvance, histories

LEMMA CommitResendKeepsAInv ==
  ASSUME AInv, NEW r \in Requests, CommitResend(r)
  PROVE  AInv'
  <1> DEFINE c == call[r]
             Off(k) == [codes[k] EXCEPT !.valid = FALSE]
  <1>1. /\ pc[r] = "commit" /\ c.op = "resend" /\ End(r) /\ UNCHANGED <<account, histories>>
    BY DEF CommitResend, AtCommit
  <1>2. /\ InFlight(r) /\ c.no \in Ids /\ c.codes \subseteq Ids /\ codes[c.no] = Null
        /\ c.address \in Addresses /\ account[c.address] # Null
        /\ \A k \in c.codes : CodeOf(k, c.address)
    <2>1. InFlight(r) /\ c.no \in Ids /\ c.codes \subseteq Ids
      BY <1>1, CallFields DEF AInv
    <2>2. codes[c.no] = Null
      BY <2>1 DEF AInv, Unborn, Reserved
    <2> QED BY <1>1, <2>1, <2>2, FoundAccount DEF AInv, Holds, HoldsOf
  <1>3. /\ NewCode(c) \in Code /\ NewCode(c) # Null /\ NewCode(c).address = c.address
        /\ NewCode(c).valid /\ NewCode(c).attempts = 0
    BY <1>2, NewCodeFields
  <1>4. ASSUME NEW k \in Ids, codes[k] # Null
        PROVE  Off(k) \in Code /\ Off(k) # Null /\ Off(k).address = codes[k].address
               /\ ~Off(k).valid
    <2> DEFINE x == codes[k]
               flat == [address |-> x.address, expired |-> x.expired, valid |-> FALSE,
                        attempts |-> x.attempts]
    <2>1. x \in Code
      BY <1>4 DEF AInv, TypeOK
    <2>2. x = [address |-> x.address, expired |-> x.expired, valid |-> x.valid,
               attempts |-> x.attempts]
      BY <2>1, CodeFields
    <2>3. Off(k) = flat
      <3>1. ASSUME NEW v
            PROVE  [x EXCEPT !.valid = v] =
                       [address |-> x.address, expired |-> x.expired, valid |-> v,
                        attempts |-> x.attempts]
        <4> HIDE DEF x
        <4> QED BY <2>2
      <3> QED BY <3>1
    <2>4. flat \in Code /\ flat # Null /\ flat.address = x.address /\ ~flat.valid
      <3>1. x.address \in Addresses /\ x.expired \in BOOLEAN /\ x.attempts \in Nat
        BY <2>1, CodeFields
      <3> HIDE DEF x
      <3>2. flat \in Code
        BY <3>1 DEF Code
      <3> QED BY <3>2, AccountsAssumption
    <2> HIDE DEF flat
    <2> QED BY <2>3, <2>4
  <1>5. codes' = [k \in Ids |-> IF k = c.no THEN NewCode(c)
                                ELSE IF k \in c.codes THEN Off(k) ELSE codes[k]]
    BY DEF CommitResend
  <1> HIDE DEF Off
  <1>6. CodesAdvance(r)
    <2>1. /\ codes'[c.no] = NewCode(c)
          /\ \A k \in c.codes : codes'[k] = Off(k) /\ k # c.no
          /\ \A k \in Ids : k # c.no /\ k \notin c.codes => codes'[k] = codes[k]
      BY <1>2, <1>5 DEF CodeOf
    <2>2. \A k \in c.codes : codes[k] # Null
      BY <1>2 DEF CodeOf
    <2>3. codes' \in [Ids -> Code \cup {Null}]
      <3>1. \A k \in Ids : codes'[k] \in Code \cup {Null}
        BY <1>2, <1>3, <1>4, <2>1, <2>2 DEF AInv, TypeOK
      <3> QED BY <1>5, <3>1
    <2>4. account'[c.address] # Null
      BY <1>1, <1>2
    <2> QED BY <1>1, <1>2, <1>3, <1>4, <2>1, <2>2, <2>3, <2>4 DEF CodesAdvance
  <1>7. AccountsAdvance(r)
    BY <1>1, AccountsStay DEF histories
  <1> QED BY <1>1, <1>6, <1>7, EndKeepsAInv DEF BrokenAdvance, histories

LEMMA CommitChangeKeepsAInv ==
  ASSUME AInv, NEW r \in Requests, CommitChange(r)
  PROVE  AInv'
  <1> DEFINE c == call[r]
             a == c.address
             row == [account[a] EXCEPT !.password = c.arg]
  <1>1. /\ pc[r] = "commit" /\ c.op = "change" /\ End(r)
        /\ UNCHANGED <<codes, createdBy, withdrawnBy, broken>>
    BY DEF CommitChange, AtCommit
  <1>2. /\ c.no \in Ids /\ a \in Addresses /\ account[a] \in Account /\ account[a] # Null
        /\ Own(account[a]) /\ c.arg \in Passwords
    <2>1. InFlight(r) /\ c.no \in Ids /\ Shape(pc[r], c)
      BY <1>1, CallFields DEF AInv
    <2> QED BY <1>1, <2>1, FoundAccount DEF Shape
  <1>3. /\ row \in Account /\ Own(row)
        /\ row.verified = account[a].verified /\ row.status = account[a].status
    BY <1>2, WithPassword
  <1>4. account' = [account EXCEPT ![a] = row]
    BY DEF CommitChange
  <1> HIDE DEF row
  <1>5. AccountsAdvance(r)
    <2>1. /\ setBy' \in [Addresses -> Ids \cup {Null}] /\ setBy'[a] = c.no
          /\ \A b \in Addresses : b # a => setBy'[b] = setBy[b]
          /\ withdrawnBy' \in [Addresses -> SUBSET Ids] /\ withdrawnBy' = withdrawnBy
      BY <1>1, <1>2 DEF CommitChange, AInv, TypeOK
    <2> QED BY <1>1, <1>2, <1>3, <1>4, <2>1, Rewritten
  <1> QED BY <1>1, <1>5, CodesStay, EndKeepsAInv DEF BrokenAdvance

LEMMA CommitDeactivateKeepsAInv ==
  ASSUME AInv, NEW r \in Requests, CommitDeactivate(r)
  PROVE  AInv'
  <1> DEFINE c == call[r]
             a == c.address
             row == [account[a] EXCEPT !.status = "WITHDRAWN"]
  <1>1. /\ pc[r] = "commit" /\ c.op = "deactivate" /\ End(r)
        /\ UNCHANGED <<codes, createdBy, setBy, broken>>
    BY DEF CommitDeactivate, AtCommit
  <1>2. /\ c.no \in Ids /\ a \in Addresses /\ account[a] \in Account /\ account[a] # Null
        /\ Own(account[a])
    <2>1. InFlight(r) /\ c.no \in Ids
      BY <1>1, CallFields DEF AInv
    <2> QED BY <1>1, <2>1, FoundAccount
  <1>3. /\ row \in Account /\ Own(row)
        /\ row.verified = account[a].verified /\ row.password = account[a].password
    BY <1>2, WithStatus
  <1>4. account' = [account EXCEPT ![a] = row]
    BY DEF CommitDeactivate
  <1> HIDE DEF row
  <1>5. AccountsAdvance(r)
    <2>1. /\ setBy' \in [Addresses -> Ids \cup {Null}] /\ setBy' = setBy
          /\ withdrawnBy' \in [Addresses -> SUBSET Ids] /\ c.no \in withdrawnBy'[a]
          /\ \A b \in Addresses : withdrawnBy[b] \subseteq withdrawnBy'[b]
      BY <1>1, <1>2 DEF CommitDeactivate, AInv, TypeOK
    <2> QED BY <1>1, <1>2, <1>3, <1>4, <2>1, Rewritten
  <1> QED BY <1>1, <1>5, CodesStay, EndKeepsAInv DEF BrokenAdvance

-----------------------------------------------------------------------------
(* Steps that write nothing.                                               *)

\* The codes are there as before, but for their expiry.
SameCodes ==
    \A k \in Ids :
        /\ codes'[k] = Null <=> codes[k] = Null
        /\ codes[k] # Null => /\ codes'[k].address = codes[k].address
                              /\ codes'[k].valid <=> codes[k].valid
                              /\ codes'[k].attempts = codes[k].attempts

Quiet == UNCHANGED <<account, histories>> /\ SameCodes /\ overlapped \subseteq overlapped'

\* What is said of a request stays.
LEMMA RequestKept ==
  ASSUME AInv, Quiet, NEW q \in Requests, Stays(q)
  PROVE  /\ FoundOf(q)' /\ MadeSinceOf(q)' /\ CredentialOf(q)'
         /\ HoldsOf(q)' /\ SparedOf(q)' /\ NewestOf(q)'
  <1>1. /\ InFlight(q) /\ pc'[q] = pc[q] /\ call'[q] = call[q] /\ call[q].op \in Ops
        /\ call[q].codes \subseteq Ids /\ Shape(pc[q], call[q])
    BY CallFields DEF Stays, AInv
  <1>2. /\ FoundOf(q) /\ MadeSinceOf(q) /\ CredentialOf(q)
        /\ HoldsOf(q) /\ SparedOf(q) /\ NewestOf(q)
    BY <1>1 DEF AInv, Found, MadeSince, Credentials, Holds, Spared, Newest
  <1>3. \A k \in Ids : \A a : CodeOf(k, a)' <=> CodeOf(k, a)
    BY DEF Quiet, SameCodes, CodeOf
  <1>4. /\ FoundOf(q)' /\ MadeSinceOf(q)' /\ CredentialOf(q)'
    BY <1>1, <1>2 DEF FoundOf, MadeSinceOf, CredentialOf, Quiet, histories, Overlapped
  <1>5. HoldsOf(q)'
    <2>1. call[q].op = "verify" => call[q].arg \in Ids
      BY <1>1 DEF Shape
    <2> QED BY <1>1, <1>2, <2>1 DEF HoldsOf, CodeOf, Quiet, SameCodes
  <1>6. SparedOf(q)'
    BY <1>1, <1>2 DEF SparedOf, CodeOf, Quiet, SameCodes, Overlapped
  <1>7. NewestOf(q)'
    BY <1>1, <1>2 DEF NewestOf, CodeOf, Quiet, SameCodes, Overlapped
  <1> QED BY <1>4, <1>5, <1>6, <1>7

RowsInv == Unborn /\ Broken /\ ServerErrorsExplained /\ CodesFit /\ Superseded

LEMMA RowsInvKept ==
  ASSUME AInv, Quiet, \A i \in Ids : Reserved(i)' => Reserved(i)
  PROVE  RowsInv'
  <1>1. Unborn'
    BY DEF AInv, Unborn, Quiet, SameCodes
  <1>2. Broken' /\ ServerErrorsExplained'
    BY DEF AInv, Broken, ServerErrorsExplained, Quiet, histories, Overlapped
  <1>3. CodesFit'
    BY DEF AInv, CodesFit, Quiet, SameCodes
  <1>4. Superseded'
    <2> SUFFICES ASSUME NEW i \in Ids, NEW k \in Ids, i < k, codes'[i] # Null,
                        codes'[k] # Null, codes'[k].address = codes'[i].address,
                        ~account'[codes'[i].address].verified,
                        codes'[i].valid, ~codes'[k].valid
                 PROVE  Overlapped(i, k)'
      BY DEF Superseded, CodeOf
    <2>1. /\ codes[i] # Null /\ codes[k] # Null /\ codes[k].address = codes[i].address
          /\ ~account[codes[i].address].verified /\ codes[i].valid /\ ~codes[k].valid
      BY DEF Quiet, SameCodes
    <2>2. Overlapped(i, k)
      BY <2>1 DEF AInv, Superseded, CodeOf
    <2> QED BY <2>2 DEF Quiet, Overlapped
  <1> QED BY <1>1, <1>2, <1>3, <1>4 DEF RowsInv

\* A call goes on, having found codes.
Continues(c, new, found) ==
    /\ new \in Call /\ new # Null
    /\ new.op = c.op /\ new.no = c.no /\ new.address = c.address /\ new.seen = c.seen
    /\ new.arg = c.arg /\ new.hidden = c.hidden /\ new.codes = found

LEMMA WithCodes ==
  ASSUME NEW c \in Call, NEW found \in SUBSET Ids
  PROVE  Continues(c, [c EXCEPT !.codes = found], found)
  <1> DEFINE new == [c EXCEPT !.codes = found]
  <1>1. c = [op |-> c.op, no |-> c.no, address |-> c.address, seen |-> c.seen, arg |-> c.arg,
             hidden |-> c.hidden, codes |-> c.codes]
    BY DEF Call
  <1>2. new = [op |-> c.op, no |-> c.no, address |-> c.address, seen |-> c.seen,
               arg |-> c.arg, hidden |-> c.hidden, codes |-> found]
    BY <1>1
  <1> HIDE DEF new
  <1>3. new \in Call
    BY <1>2 DEF Call
  <1>4. new # Null
    BY <1>3, AccountsAssumption
  <1>5. /\ new.op = c.op /\ new.no = c.no /\ new.address = c.address /\ new.seen = c.seen
        /\ new.arg = c.arg /\ new.hidden = c.hidden /\ new.codes = found
    BY <1>2
  <1> QED BY <1>3, <1>4, <1>5 DEF Continues, new

LEMMA MoveKeepsAInv ==
  ASSUME AInv, NEW r \in Requests, InFlight(r), NEW found \in SUBSET Ids,
         call' = [call EXCEPT ![r].codes = found], Goto(r, "commit"),
         UNCHANGED <<account, codes, known, histories>>,
         call[r].op \in {"verify", "resend"},
         HoldsOf(r)', SparedOf(r)', NewestOf(r)'
  PROVE  AInv'
  <1> DEFINE c == call[r]
             new == [c EXCEPT !.codes = found]
  <1>1. c \in Call /\ Shape(pc[r], c)
    BY CallFields DEF AInv
  <1>2. Continues(c, new, found)
    BY <1>1, WithCodes
  <1>3. /\ pc' \in [Requests -> {"idle", "readCode", "snapshot", "commit"}]
        /\ pc'[r] = "commit" /\ call'[r] = new
        /\ call' \in [Requests -> Call \cup {Null}]
        /\ \A q \in Requests : q # r => pc'[q] = pc[q] /\ call'[q] = call[q]
    BY <1>2 DEF Goto, AInv, TypeOK, Continues
  <1> HIDE DEF new
  <1>4. Quiet
    BY DEF Quiet, SameCodes, known
  <1>5. \A q \in Requests : InFlight(q)' =>
            /\ InFlight(q) /\ call'[q].no = call[q].no /\ Shape(pc'[q], call'[q])
    <2> SUFFICES ASSUME NEW q \in Requests, InFlight(q)'
                 PROVE  InFlight(q) /\ call'[q].no = call[q].no /\ Shape(pc'[q], call'[q])
      OBVIOUS
    <2>1. CASE q = r
      <3>1. Shape("commit", new)
        BY <1>1, <1>2 DEF Shape, Continues
      <3> QED BY <1>2, <1>3, <2>1, <3>1 DEF Continues
    <2>2. CASE q # r
      BY <1>3, <2>2 DEF InFlight, AInv, Shapes
    <2> QED BY <2>1, <2>2
  <1>6. TypeOK'
    BY <1>3 DEF AInv, TypeOK, known, histories
  <1>7. Shapes'
    <2>1. \A q \in Requests : ~InFlight(q)' => pc'[q] = "idle"
      BY <1>2, <1>3 DEF AInv, Shapes, InFlight, Continues
    <2> QED BY <1>5, <2>1 DEF Shapes, Shape
  <1>8. Numbers'
    BY <1>5 DEF AInv, Numbers, known, Overlapped
  <1>9. RowsInv'
    <2>1. \A i \in Ids : Reserved(i)' => Reserved(i)
      BY <1>5 DEF Reserved, known
    <2> QED BY <1>4, <2>1, RowsInvKept
  <1>10. FoundOf(r)' /\ MadeSinceOf(r)' /\ CredentialOf(r)'
    <2>1. FoundOf(r)
      BY DEF AInv, Found
    <2> QED BY <1>2, <1>3, <2>1 DEF FoundOf, MadeSinceOf, CredentialOf, Continues
  <1>11. \A q \in Requests : InFlight(q)' =>
             /\ FoundOf(q)' /\ MadeSinceOf(q)' /\ CredentialOf(q)'
             /\ HoldsOf(q)' /\ SparedOf(q)' /\ NewestOf(q)'
    <2> SUFFICES ASSUME NEW q \in Requests, InFlight(q)', q # r
                 PROVE  /\ FoundOf(q)' /\ MadeSinceOf(q)' /\ CredentialOf(q)'
                        /\ HoldsOf(q)' /\ SparedOf(q)' /\ NewestOf(q)'
      BY <1>10
    <2>1. Stays(q)
      BY <1>3 DEF Stays, InFlight
    <2> QED BY <1>4, <2>1, RequestKept
  <1> QED BY <1>6, <1>7, <1>8, <1>9, <1>11
          DEF AInv, RowsInv, Found, MadeSince, Credentials, Holds, Spared, Newest

LEMMA ReadCodeKeepsAInv ==
  ASSUME AInv, NEW r \in Requests, ReadCode(r)
  PROVE  AInv'
  <1> DEFINE c == call[r]
             k == c.arg
             a == c.address
             found == {k}
  <1>1. /\ pc[r] = "readCode" /\ InFlight(r) /\ c \in Call /\ c.op = "verify" /\ k \in Ids
    <2>1. pc[r] = "readCode" /\ InFlight(r) /\ c \in Call /\ c.op \in Ops /\ Shape(pc[r], c)
      BY CallFields DEF AInv, ReadCode
    <2> QED BY <2>1 DEF Shape, Ops
  <1>2. found \in SUBSET Ids
    BY <1>1
  <1>3. /\ call' = [call EXCEPT ![r].codes = found] /\ Goto(r, "commit")
        /\ UNCHANGED <<account, codes, known, histories>>
    BY DEF ReadCode
  <1>4. LatestCode(a, k)
    BY DEF ReadCode
  <1>5. Continues(c, call'[r], found) /\ pc'[r] = "commit"
    BY <1>1, <1>2, <1>3, WithCodes DEF AInv, TypeOK, Goto
  <1> HIDE DEF found
  <1>6. HoldsOf(r)' /\ SparedOf(r)'
    BY <1>1, <1>3, <1>4, <1>5 DEF Continues, HoldsOf, SparedOf, LatestCode, ValidCodes, CodeOf
  <1>7. NewestOf(r)'
    <2> SUFFICES ASSUME ~account[a].verified, NEW j \in Ids, codes[j] # Null,
                        codes[j].address = a, j > k
                 PROVE  Overlapped(j, k)
      BY <1>3, <1>5 DEF NewestOf, CodeOf, Continues, Overlapped, known
    <2>1. codes[k] # Null /\ codes[k].address = a /\ codes[k].valid
      BY <1>4 DEF LatestCode, ValidCodes
    <2>2. ~codes[j].valid
      <3>1. j \in Int /\ k \in Int
        BY <1>1 DEF Ids
      <3> QED BY <1>4, <3>1 DEF LatestCode, ValidCodes
    <2>3. Overlapped(k, j)
      BY <1>1, <2>1, <2>2 DEF AInv, Superseded, CodeOf
    <2> QED BY <2>3, Symmetric
  <1> QED BY <1>1, <1>2, <1>3, <1>6, <1>7, MoveKeepsAInv

LEMMA SnapshotKeepsAInv ==
  ASSUME AInv, NEW r \in Requests, Snapshot(r)
  PROVE  AInv'
  <1> DEFINE c == call[r]
             found == ValidCodes(c.address)
  <1>1. /\ pc[r] = "snapshot" /\ InFlight(r) /\ c \in Call /\ c.op = "resend"
    <2>1. pc[r] = "snapshot" /\ InFlight(r) /\ c \in Call /\ c.op \in Ops /\ Shape(pc[r], c)
      BY CallFields DEF AInv, Snapshot
    <2> QED BY <2>1 DEF Shape, Ops
  <1>2. found \in SUBSET Ids
    BY DEF ValidCodes
  <1>3. /\ call' = [call EXCEPT ![r].codes = found] /\ Goto(r, "commit")
        /\ UNCHANGED <<account, codes, known, histories>>
    BY DEF Snapshot
  <1> HIDE DEF found
  <1>4. Continues(c, call'[r], found) /\ pc'[r] = "commit"
    BY <1>1, <1>2, <1>3, WithCodes DEF AInv, TypeOK, Goto
  <1>5. HoldsOf(r)' /\ SparedOf(r)' /\ NewestOf(r)'
    BY <1>1, <1>3, <1>4
       DEF Continues, HoldsOf, SparedOf, NewestOf, ValidCodes, CodeOf, found
  <1> QED BY <1>1, <1>2, <1>3, <1>5, MoveKeepsAInv

\* How a request starts.
Opens(p, op, a, seen, arg, hidden) ==
    \/ /\ op = "register" /\ p = "commit" /\ seen = Null /\ account[a] = Null
       /\ arg \in Passwords /\ hidden = FALSE
    \/ /\ op = "login" /\ p = "commit" /\ seen = account[a] /\ seen # Null /\ Own(seen)
       /\ seen.status # "WITHDRAWN" /\ arg = Null /\ hidden = FALSE
    \/ /\ op = "oauth" /\ p = "commit" /\ arg = Null /\ hidden \in BOOLEAN
       /\ seen = IF hidden THEN Null ELSE account[a]
    \/ /\ op = "verify" /\ p = "readCode" /\ seen = account[a] /\ seen # Null /\ arg \in Ids
       /\ hidden = FALSE
    \/ /\ op = "resend" /\ p = "snapshot" /\ seen = account[a] /\ seen # Null /\ arg = Null
       /\ hidden = FALSE
    \/ /\ op = "change" /\ p = "commit" /\ seen = account[a] /\ seen # Null /\ Own(seen)
       /\ arg \in Passwords /\ hidden = FALSE
    \/ /\ op = "deactivate" /\ p = "commit" /\ seen = account[a] /\ seen # Null /\ Own(seen)
       /\ arg = Null /\ hidden = FALSE

LEMMA BeginKeepsAInv ==
  ASSUME AInv, NEW r \in Requests, NEW p, NEW op, NEW a \in Addresses, NEW seen, NEW arg,
         NEW hidden, Opens(p, op, a, seen, arg, hidden), Begin(r, p, op, a, seen, arg, hidden)
  PROVE  AInv'
  <1> DEFINE new == [op |-> op, no |-> begun + 1, address |-> a, seen |-> seen, arg |-> arg,
                     hidden |-> hidden, codes |-> {}]
  <1>1. /\ begun \in 0 .. MaxRequests /\ MaxRequests \in Nat
        /\ pc \in [Requests -> {"idle", "readCode", "snapshot", "commit"}]
        /\ call \in [Requests -> Call \cup {Null}] /\ account[a] \in Account \cup {Null}
    BY AccountsAssumption DEF AInv, TypeOK
  <1>2. begun + 1 \in Ids /\ begun' = begun + 1 /\ ~InFlight(r)
    BY <1>1, Busy DEF Begin, Ids, AInv
  <1>3. new \in Call /\ new # Null
    <2>1. /\ op \in {"register", "login", "oauth", "verify", "resend", "change", "deactivate"}
          /\ arg \in Passwords \cup Ids \cup {Null} /\ hidden \in BOOLEAN
      BY DEF Opens
    <2>2. seen \in Account \cup {Null}
      BY <1>1 DEF Opens
    <2>3. new \in Call
      BY <1>2, <2>1, <2>2 DEF Call
    <2> QED BY <2>3, AccountsAssumption
  <1>4. p \in {"idle", "readCode", "snapshot", "commit"}
    BY DEF Opens
  <1>5. /\ pc' \in [Requests -> {"idle", "readCode", "snapshot", "commit"}]
        /\ call' \in [Requests -> Call \cup {Null}] /\ pc'[r] = p /\ call'[r] = new
        /\ \A q \in Requests : q # r => pc'[q] = pc[q] /\ call'[q] = call[q]
    BY <1>1, <1>3, <1>4 DEF Begin, Goto
  <1>6. /\ call'[r].op = op /\ call'[r].no = begun + 1 /\ call'[r].address = a
        /\ call'[r].seen = seen /\ call'[r].arg = arg /\ call'[r].codes = {}
        /\ call'[r] # Null
    BY <1>3, <1>5
  <1>7. call'[r].hidden <=> hidden
    BY <1>5
  <1> HIDE DEF new
  <1>8. UNCHANGED <<account, codes, histories>> /\ overlapped \subseteq overlapped'
    BY DEF Begin
  <1>9. Quiet
    BY <1>8 DEF Quiet, SameCodes
  <1>10. \A q \in Requests : InFlight(q)' /\ q # r => Stays(q)
    BY <1>5 DEF InFlight, Stays
  <1>11. FoundOf(r)' /\ MadeSinceOf(r)' /\ CredentialOf(r)'
    <2>1. FoundOf(r)'
      <3>1. seen # Null => seen = account[a]
        BY DEF Opens
      <3> QED BY <1>6, <1>8, <3>1 DEF FoundOf
    <2>2. MadeSinceOf(r)'
      <3>1. op \in {"register", "oauth"} /\ seen = Null /\ ~hidden => account[a] = Null
        BY DEF Opens
      <3> QED BY <1>6, <1>7, <1>8, <3>1 DEF MadeSinceOf
    <2>3. CredentialOf(r)'
      <3>1. op \in {"login", "change", "deactivate"} => seen = account[a]
        BY DEF Opens
      <3>2. op = "login" => account[a].status # "WITHDRAWN"
        BY DEF Opens
      <3> QED BY <1>6, <1>8, <3>1, <3>2 DEF CredentialOf
    <2> QED BY <2>1, <2>2, <2>3
  <1>12. HoldsOf(r)' /\ SparedOf(r)' /\ NewestOf(r)'
    <2>1. op \in {"verify", "resend"} => p # "commit"
      BY DEF Opens
    <2> QED BY <1>5, <1>6, <2>1 DEF HoldsOf, SparedOf, NewestOf
  <1>13. \A q \in Requests : InFlight(q)' =>
             /\ FoundOf(q)' /\ MadeSinceOf(q)' /\ CredentialOf(q)'
             /\ HoldsOf(q)' /\ SparedOf(q)' /\ NewestOf(q)'
    BY <1>9, <1>10, <1>11, <1>12, RequestKept
  <1>14. TypeOK'
    <2>1. overlapped' \subseteq SUBSET Ids
      <3>1. \A q \in Requests : pc[q] # "idle" => {call[q].no, begun + 1} \subseteq Ids
        BY <1>2, CallFields DEF AInv
      <3> QED BY <3>1 DEF Begin, AInv, TypeOK
    <2>2. begun' \in 0 .. MaxRequests
      BY <1>1, <1>2 DEF Ids
    <2> QED BY <1>5, <1>8, <2>1, <2>2 DEF AInv, TypeOK, histories
  <1>15. Shapes'
    <2>1. Shape(pc'[r], call'[r])
      BY <1>5, <1>6, <1>7 DEF Opens, Shape
    <2>2. \A q \in Requests : q # r =>
              IF call'[q] # Null THEN Shape(pc'[q], call'[q]) ELSE pc'[q] = "idle"
      BY <1>5 DEF AInv, Shapes, InFlight
    <2>3. \A q \in Requests :
              IF call'[q] # Null THEN Shape(pc'[q], call'[q]) ELSE pc'[q] = "idle"
      BY <1>6, <2>1, <2>2
    <2> QED BY <2>3 DEF Shapes, Shape, InFlight
  <1>16. Numbers'
    <2>1. \A q \in Requests : InFlight(q)' /\ q # r =>
              /\ InFlight(q) /\ call'[q].no = call[q].no /\ call[q].no <= begun
              /\ call[q].no \in Ids
      BY <1>10, CallFields DEF Stays, AInv, Numbers
    <2>2. \A q \in Requests : InFlight(q)' => call'[q].no <= begun'
      <3>1. \A q \in Requests : InFlight(q)' /\ q # r => call[q].no <= begun + 1
        BY <1>1, <2>1 DEF Ids
      <3> QED BY <1>1, <1>2, <1>6, <2>1, <3>1
    <2>3. ASSUME NEW q \in Requests, InFlight(q)', NEW k \in Ids, call'[q].no < k, k <= begun'
          PROVE  {call'[q].no, k} \in overlapped'
      <3>1. q # r
        BY <1>2, <1>6, <2>3, <1>1 DEF Ids
      <3>2. CASE k <= begun
        <4>1. {call[q].no, k} \in overlapped
          BY <2>1, <2>3, <3>1, <3>2 DEF AInv, Numbers, Overlapped
        <4> QED BY <1>8, <2>1, <2>3, <3>1, <4>1
      <3>3. CASE k = begun + 1
        <4>1. pc[q] # "idle"
          BY <2>1, <2>3, <3>1, Busy DEF AInv
        <4>2. {call[q].no, begun + 1} \in overlapped'
          BY <4>1 DEF Begin
        <4> QED BY <2>1, <2>3, <3>1, <3>3, <4>2
      <3> QED BY <1>1, <1>2, <2>3, <3>2, <3>3 DEF Ids
    <2>4. ASSUME NEW q \in Requests, NEW s \in Requests, q # s, InFlight(q)', InFlight(s)'
          PROVE  call'[q].no # call'[s].no
      <3>1. \A t \in Requests : InFlight(t)' /\ t # r => call'[t].no # begun + 1
        BY <1>1, <2>1 DEF Ids
      <3>2. CASE q # r /\ s # r
        BY <2>1, <2>4, <3>2 DEF AInv, Numbers
      <3> QED BY <1>6, <2>4, <3>1, <3>2
    <2> QED BY <2>2, <2>3, <2>4 DEF Numbers, Overlapped
  <1>17. RowsInv'
    <2>1. \A i \in Ids : Reserved(i)' => Reserved(i)
      <3> SUFFICES ASSUME NEW i \in Ids, Reserved(i)'
                   PROVE  Reserved(i)
        OBVIOUS
      <3>1. i > begun' => i > begun
        BY <1>1, <1>2 DEF Ids
      <3>2. begun + 1 > begun
        BY <1>1
      <3> QED BY <1>6, <1>10, <3>1, <3>2 DEF Reserved, Stays
    <2> QED BY <1>9, <2>1, RowsInvKept
  <1> QED BY <1>13, <1>14, <1>15, <1>16, <1>17
          DEF AInv, RowsInv, Found, MadeSince, Credentials, Holds, Spared, Newest

LEMMA ArriveKeepsAInv ==
  ASSUME AInv, NEW r \in Requests, Arrive(r)
  PROVE  AInv'
  <1>1. PICK a \in Addresses :
            \/ BeginLogin(r, a) \/ BeginResend(r, a) \/ BeginDeactivate(r, a)
            \/ \E hidden \in BOOLEAN : BeginOAuth(r, a, hidden)
            \/ \E password \in Passwords : BeginRegister(r, a, password)
                                           \/ BeginChange(r, a, password)
            \/ \E code \in Ids : BeginVerify(r, a, code)
    BY DEF Arrive
  <1>2. CASE BeginLogin(r, a)
    <2>1. Begin(r, "commit", "login", a, account[a], Null, FALSE)
      BY <1>2 DEF BeginLogin
    <2>2. Opens("commit", "login", a, account[a], Null, FALSE)
      BY <1>2 DEF BeginLogin, MayLogIn, Opens, Own
    <2> QED BY <2>1, <2>2, BeginKeepsAInv
  <1>3. CASE BeginResend(r, a)
    <2>1. Begin(r, "snapshot", "resend", a, account[a], Null, FALSE)
      BY <1>3 DEF BeginResend
    <2>2. Opens("snapshot", "resend", a, account[a], Null, FALSE)
      BY <1>3 DEF BeginResend, Opens
    <2> QED BY <2>1, <2>2, BeginKeepsAInv
  <1>4. CASE BeginDeactivate(r, a)
    <2>1. Begin(r, "commit", "deactivate", a, account[a], Null, FALSE)
      BY <1>4 DEF BeginDeactivate
    <2>2. Opens("commit", "deactivate", a, account[a], Null, FALSE)
      BY <1>4 DEF BeginDeactivate, Opens, Own
    <2> QED BY <2>1, <2>2, BeginKeepsAInv
  <1>5. CASE \E hidden \in BOOLEAN : BeginOAuth(r, a, hidden)
    <2>1. PICK hidden \in BOOLEAN : BeginOAuth(r, a, hidden)
      BY <1>5
    <2> DEFINE seen == IF hidden THEN Null ELSE account[a]
    <2>2. Begin(r, "commit", "oauth", a, seen, Null, hidden)
      BY <2>1 DEF BeginOAuth
    <2>3. Opens("commit", "oauth", a, seen, Null, hidden)
      BY DEF Opens
    <2> HIDE DEF seen
    <2> QED BY <2>2, <2>3, BeginKeepsAInv
  <1>6. CASE \E password \in Passwords : BeginRegister(r, a, password)
    <2>1. PICK password \in Passwords : BeginRegister(r, a, password)
      BY <1>6
    <2>2. Begin(r, "commit", "register", a, Null, password, FALSE)
      BY <2>1 DEF BeginRegister
    <2>3. Opens("commit", "register", a, Null, password, FALSE)
      BY <2>1 DEF BeginRegister, Opens
    <2> QED BY <2>2, <2>3, BeginKeepsAInv
  <1>7. CASE \E password \in Passwords : BeginChange(r, a, password)
    <2>1. PICK password \in Passwords : BeginChange(r, a, password)
      BY <1>7
    <2>2. Begin(r, "commit", "change", a, account[a], password, FALSE)
      BY <2>1 DEF BeginChange
    <2>3. Opens("commit", "change", a, account[a], password, FALSE)
      BY <2>1 DEF BeginChange, Opens, Own
    <2> QED BY <2>2, <2>3, BeginKeepsAInv
  <1>8. CASE \E code \in Ids : BeginVerify(r, a, code)
    <2>1. PICK code \in Ids : BeginVerify(r, a, code)
      BY <1>8
    <2>2. Begin(r, "readCode", "verify", a, account[a], code, FALSE)
      BY <2>1 DEF BeginVerify
    <2>3. Opens("readCode", "verify", a, account[a], code, FALSE)
      BY <2>1 DEF BeginVerify, Opens
    <2> QED BY <2>2, <2>3, BeginKeepsAInv
  <1> QED BY <1>1, <1>2, <1>3, <1>4, <1>5, <1>6, <1>7, <1>8
\* The requests stay where they are.
LEMMA WaitKeepsAInv ==
  ASSUME AInv, UNCHANGED <<account, pc, call, known, histories>>, SameCodes,
         codes' \in [Ids -> Code \cup {Null}]
  PROVE  AInv'
  <1>1. Quiet
    BY DEF Quiet, known
  <1>2. \A q \in Requests : InFlight(q)' => Stays(q)
    BY DEF InFlight, Stays
  <1>3. \A q \in Requests : InFlight(q)' =>
            /\ FoundOf(q)' /\ MadeSinceOf(q)' /\ CredentialOf(q)'
            /\ HoldsOf(q)' /\ SparedOf(q)' /\ NewestOf(q)'
    BY <1>1, <1>2, RequestKept
  <1>4. TypeOK'
    BY DEF AInv, TypeOK, known, histories
  <1>5. Shapes'
    BY DEF AInv, Shapes, Shape, InFlight
  <1>6. Numbers'
    BY DEF AInv, Numbers, InFlight, known, Overlapped
  <1>7. RowsInv'
    <2>1. \A i \in Ids : Reserved(i)' => Reserved(i)
      BY DEF Reserved, InFlight, known
    <2> QED BY <1>1, <2>1, RowsInvKept
  <1> QED BY <1>3, <1>4, <1>5, <1>6, <1>7
          DEF AInv, RowsInv, Found, MadeSince, Credentials, Holds, Spared, Newest

LEMMA ExpireKeepsAInv ==
  ASSUME AInv, NEW k \in Ids, Expire(k)
  PROVE  AInv'
  <1> DEFINE x == codes[k]
             new == [x EXCEPT !.expired = TRUE]
  <1>1. x \in Code /\ codes \in [Ids -> Code \cup {Null}]
    BY DEF Expire, AInv, TypeOK
  <1>2. new = [address |-> x.address, expired |-> TRUE, valid |-> x.valid,
               attempts |-> x.attempts]
    <2>1. ASSUME NEW v
          PROVE  [x EXCEPT !.expired = v] =
                     [address |-> x.address, expired |-> v, valid |-> x.valid,
                      attempts |-> x.attempts]
      BY <1>1, CodeFields
    <2> QED BY <2>1
  <1>3. codes' = [codes EXCEPT ![k] = new]
    BY DEF Expire
  <1> HIDE DEF new
  <1>4. /\ new.address = x.address /\ new.attempts = x.attempts
        /\ new.valid = x.valid
    BY <1>2
  <1>5. new \in Code /\ new # Null
    <2>1. new \in Code
      BY <1>1, <1>2, CodeFields DEF Code
    <2> QED BY <2>1, AccountsAssumption
  <1>6. codes' \in [Ids -> Code \cup {Null}]
    BY <1>1, <1>3, <1>5
  <1>7. SameCodes
    BY <1>1, <1>3, <1>4, <1>5, AccountsAssumption DEF SameCodes
  <1> QED BY <1>6, <1>7, WaitKeepsAInv DEF Expire

LEMMA NextKeepsAInv == AInv /\ [Next]_vars => AInv'
  <1> SUFFICES ASSUME AInv, [Next]_vars PROVE AInv'
    OBVIOUS
  <1>1. CASE \E r \in Requests : Arrive(r) \/ Execute(r) \/ Refuse(r) \/ Crash(r)
    <2>1. PICK r \in Requests : Arrive(r) \/ Execute(r) \/ Refuse(r) \/ Crash(r)
      BY <1>1
    <2>2. CASE Arrive(r)
      BY <2>2, ArriveKeepsAInv
    <2>3. CASE Execute(r)
      BY <2>3, ReadCodeKeepsAInv, SnapshotKeepsAInv, CommitRegisterKeepsAInv,
         CommitLoginKeepsAInv, CommitOAuthKeepsAInv, UniqueViolationKeepsAInv,
         CommitVerifyKeepsAInv, CommitResendKeepsAInv, CommitChangeKeepsAInv,
         CommitDeactivateKeepsAInv DEF Execute
    <2>4. CASE Refuse(r) \/ Crash(r)
      BY <2>4, RollbackKeepsAInv DEF Refuse, Crash
    <2> QED BY <2>1, <2>2, <2>3, <2>4
  <1>2. CASE \E k \in Ids : Expire(k)
    BY <1>2, ExpireKeepsAInv
  <1>3. CASE UNCHANGED vars
    <2>1. UNCHANGED <<account, pc, call, known, histories>> /\ UNCHANGED codes
      BY <1>3 DEF vars, known, histories
    <2>2. SameCodes /\ codes' \in [Ids -> Code \cup {Null}]
      BY <2>1 DEF SameCodes, AInv, TypeOK
    <2> QED BY <2>1, <2>2, WaitKeepsAInv
  <1> QED BY <1>1, <1>2, <1>3 DEF Next

LEMMA Invariance == Spec => []AInv
  <1> QED BY InitAInv, NextKeepsAInv, PTL DEF Spec

-----------------------------------------------------------------------------
(* The theorems.                                                           *)

\* Every row, request and history of the accounts has its type; in particular the accounts
\* made by a provider never get a password, and are never withdrawn.
THEOREM TypeCorrect == Spec => []TypeOK
  <1>1. AInv => TypeOK
    BY DEF AInv
  <1> QED BY <1>1, Invariance, PTL

\* However requests for one address interleave, a registration or a provider's login meets
\* the unique index on users.email only when the account was made while it was in flight,
\* or when the profile hides its address.
THEOREM ServerErrorsAreExplained == Spec => []ServerErrorsExplained
  <1>1. AInv => ServerErrorsExplained
    BY DEF AInv
  <1> QED BY <1>1, Invariance, PTL

\* However registrations, verifications and resends interleave, an address is first
\* verified by the newest code sent to it, those of overlapping requests apart; no
\* attempt is on record for a code still valid.
THEOREM NewestCodeVerifies == Spec => []VerifiedByNewestCode
  <1>1. AInv => VerifiedByNewestCode
    <2> SUFFICES ASSUME AInv PROVE VerifiedByNewestCode
      OBVIOUS
    <2>1. \A k \in Ids : codes[k] # Null /\ codes[k].valid => codes[k].attempts = 0
      BY DEF AInv, CodesFit
    <2>2. ASSUME NEW r \in Requests, AtCommit(r, "verify"),
                 ~account[call[r].address].verified,
                 NEW k \in Ids, codes[k] # Null, codes[k].address = call[r].address,
                 k > call[r].arg
          PROVE  Overlapped(k, call[r].no) \/ Overlapped(k, call[r].arg)
      <3>1. InFlight(r)
        BY <2>2, Busy DEF AInv, AtCommit
      <3> QED BY <2>2, <3>1 DEF AInv, Newest, NewestOf, CodeOf, AtCommit
    <2> QED BY <2>1, <2>2 DEF VerifiedByNewestCode
  <1> QED BY <1>1, Invariance, PTL

\* A login, a password change or a withdrawal commits on the password its request checked,
\* and a login on an account still active, unless the change that overtook it was made by
\* a request in flight at the same time.
THEOREM CredentialsWereInForce == Spec => []CredentialsInForce
  <1>1. AInv => CredentialsInForce
    <2> SUFFICES ASSUME AInv, NEW r \in Requests, pc[r] = "commit"
                 PROVE  call[r].op \in {"login", "change", "deactivate"} =>
                          /\ call[r].seen.password # account[call[r].address].password =>
                                Overlapped(call[r].no, setBy[call[r].address])
                          /\ call[r].op = "login"
                                /\ account[call[r].address].status = "WITHDRAWN" =>
                                \E i \in withdrawnBy[call[r].address] :
                                    Overlapped(call[r].no, i)
      BY DEF CredentialsInForce
    <2>1. InFlight(r)
      BY Busy DEF AInv
    <2> QED BY <2>1 DEF AInv, Credentials, CredentialOf
  <1> QED BY <1>1, Invariance, PTL

-----------------------------------------------------------------------------
(* Goals: what each statement does.  A step begins a request (Arrival), or *)
(* writes one goal at most and ends one request at most.                   *)

\* The steps that change neither a goal nor the histories.
LEMMA BeginIsUpdate ==
  ASSUME goals!GoalsAssumption, goals!TypeOK, NEW r \in Requests, NEW g \in goals!Ids,
         NEW op \in {"update", "delete", "detail"}, NEW body \in goals!Body \cup {Null},
         goals!Begin(r, op, g, body)
  PROVE  /\ goalPc[r] = "idle" /\ goalBegun + 1 \in goals!Ids /\ goalBegun' = goalBegun + 1
         /\ goalCall' = [goalCall EXCEPT ![r] =
                [op |-> op, no |-> goalBegun + 1, goal |-> g, body |-> body, seen |-> Null]]
         /\ goalCall'[r] \in goals!Call
         /\ goalOverlapped' = goalOverlapped \cup
                {{goalCall[q].no, goalBegun + 1} : q \in {q \in Requests : goalPc[q] # "idle"}}
         /\ goalPc' = [goalPc EXCEPT ![r] = "read"]
         /\ UNCHANGED <<goal, goals!histories>>
  <1>1. goalBegun + 1 \in goals!Ids
    BY DEF goals!Begin, goals!TypeOK, goals!Ids, goals!GoalsAssumption
  <1> QED BY <1>1 DEF goals!Begin, goals!Goto, goals!Call, goals!TypeOK

LEMMA RollbackEnds ==
  ASSUME goals!TypeOK, NEW r \in Requests, goals!Refuse(r) \/ goals!Crash(r)
  PROVE  /\ goalPc' = [goalPc EXCEPT ![r] = "idle"]
         /\ goalCall' = [goalCall EXCEPT ![r] = Null]
         /\ UNCHANGED <<goal, goals!known, goals!histories>>
  BY DEF goals!Refuse, goals!Crash, goals!Rollback, goals!End, goals!Goto

\* A partial update leaves a goal, with the status it had.
LEMMA PatchedIsGoal ==
  ASSUME goals!GoalsAssumption, NEW body \in goals!Body, NEW row \in goals!Goal
  PROVE  goals!Patched(body, row) \in goals!Goal /\ goals!Patched(body, row).status = row.status
  <1> DEFINE target == IF body.target = Null THEN row.target ELSE body.target
             current == IF body.current = Null THEN row.current ELSE body.current
             expired == IF body.expired = Null THEN row.expired ELSE body.expired
  <1>1. target \in Amounts \ {0}
    BY DEF goals!Body, goals!Goal
  <1>2. current \in Nat
    BY DEF goals!Body, goals!Goal, goals!GoalsAssumption
  <1>3. expired \in BOOLEAN
    BY DEF goals!Body, goals!Goal
  <1>4. goals!Patched(body, row) =
          [row EXCEPT !.target = target, !.current = current, !.expired = expired]
    BY DEF goals!Patched
  <1> HIDE DEF target, current, expired
  <1> QED BY <1>1, <1>2, <1>3, <1>4 DEF goals!Goal

\* What the commit of an update writes: a goal, completed if it was or if the object in
\* the session has reached its target.  When nobody has changed the row since it was read,
\* that object is the goal itself.
LEMMA CommitWrites ==
  ASSUME goals!GoalsAssumption, goals!TypeOK, goals!Shapes, NEW r \in Requests,
         goals!CommitUpdate(r)
  PROVE  LET c == goalCall[r]
             g == c.goal
         IN  /\ goalPc[r] = "commit" /\ c \in goals!Call /\ g \in goals!Ids
             /\ c.no \in goals!Ids
             /\ goal[g] \in goals!Goal
             /\ \E written \in goals!Goal, reached \in BOOLEAN :
                   /\ goal' = [goal EXCEPT ![g] = written]
                   /\ closedBy' = [closedBy EXCEPT ![g] = IF reached /\ @ = Null THEN c.no ELSE @]
                   /\ written.status = IF reached THEN "COMPLETED" ELSE goal[g].status
                   /\ goal[g] = c.seen =>
                         (written.status = "COMPLETED" <=> written.current >= written.target)
             /\ raced' = IF goal[g] # c.seen THEN raced \cup {g} ELSE raced
             /\ goalPc' = [goalPc EXCEPT ![r] = "idle"]
             /\ goalCall' = [goalCall EXCEPT ![r] = Null]
             /\ UNCHANGED <<goals!known, shown>>
  <1> DEFINE c == goalCall[r]
             g == c.goal
             row == goal[g]
             mine == goals!Patched(c.body, c.seen)
             theirs == goals!Patched(c.body, row)
             reached == goals!Reached(mine)
             written == [theirs EXCEPT !.status = IF reached THEN "COMPLETED" ELSE @]
  <1>1. /\ goalPc[r] = "commit" /\ c \in goals!Call /\ c.body \in goals!Body
        /\ c.seen \in goals!Goal
        /\ c.seen.status = "ACTIVE"
    BY DEF goals!CommitUpdate, goals!AtCommit, goals!Shapes, goals!GoalsAssumption
  <1>2. g \in goals!Ids /\ c.no \in goals!Ids
    BY <1>1 DEF goals!Call
  <1>3. row \in goals!Goal
    BY <1>2 DEF goals!CommitUpdate, goals!TypeOK
  <1>4. /\ mine \in goals!Goal /\ mine.status = "ACTIVE"
        /\ theirs \in goals!Goal /\ theirs.status = row.status
    BY <1>1, <1>3, PatchedIsGoal
  <1>5. reached \in BOOLEAN /\ (reached <=> mine.current >= mine.target)
    BY <1>4 DEF goals!Reached
  <1>6. /\ goal' = [goal EXCEPT ![g] = written]
        /\ closedBy' = [closedBy EXCEPT ![g] = IF reached /\ @ = Null THEN c.no ELSE @]
        /\ raced' = IF row # c.seen THEN raced \cup {g} ELSE raced
        /\ goalPc' = [goalPc EXCEPT ![r] = "idle"]
        /\ goalCall' = [goalCall EXCEPT ![r] = Null]
        /\ UNCHANGED <<goals!known, shown>>
    BY DEF goals!CommitUpdate, goals!End, goals!Goto
  <1>7. row = c.seen => theirs = mine
    OBVIOUS
  <1> HIDE DEF mine, theirs, reached
  <1>8. /\ written \in goals!Goal
        /\ written.status = IF reached THEN "COMPLETED" ELSE row.status
        /\ written.current = theirs.current /\ written.target = theirs.target
    BY <1>4 DEF goals!Goal
  <1>9. row = c.seen => (written.status = "COMPLETED" <=> written.current >= written.target)
    BY <1>1, <1>5, <1>7, <1>8
  <1> HIDE DEF written
  <1> QED BY <1>1, <1>2, <1>3, <1>5, <1>6, <1>8, <1>9

\* The ends of a request that leave every goal but a deleted one as it is.
LEMMA OtherEnds ==
  ASSUME goals!TypeOK, goals!Shapes, NEW r \in Requests,
         goals!CommitDelete(r) \/ goals!AnswerDetail(r) \/ goals!Refuse(r) \/ goals!Crash(r)
  PROVE  /\ goalPc' = [goalPc EXCEPT ![r] = "idle"]
         /\ goalCall' = [goalCall EXCEPT ![r] = Null]
         /\ \/ goal' = goal
            \/ \E g \in goals!Ids : goal' = [goal EXCEPT ![g] = Null]
         /\ shown' \subseteq goals!Ids
         /\ UNCHANGED <<goals!known, raced, closedBy>>
  <1>1. CASE goals!CommitDelete(r)
    <2>1. goalCall[r].goal \in goals!Ids
      BY <1>1 DEF goals!CommitDelete, goals!AtCommit, goals!Shapes, goals!Call
    <2> QED BY <1>1, <2>1 DEF goals!CommitDelete, goals!End, goals!Goto, goals!histories,
                              goals!known, goals!TypeOK
  <1>2. CASE goals!AnswerDetail(r)
    <2>1. goalCall[r].goal \in goals!Ids
      BY <1>2 DEF goals!AnswerDetail, goals!AtCommit, goals!Shapes, goals!Call
    <2> QED BY <1>2, <2>1 DEF goals!AnswerDetail, goals!End, goals!Goto, goals!known,
                              goals!TypeOK
  <1>3. CASE goals!Refuse(r) \/ goals!Crash(r)
    BY <1>3, RollbackEnds DEF goals!known, goals!histories, goals!TypeOK
  <1> QED BY <1>1, <1>2, <1>3

LEMMA ReadSees ==
  ASSUME goals!GoalsAssumption, goals!TypeOK, goals!Shapes, NEW r \in Requests,
         goals!Read(r)
  PROVE  /\ goalPc[r] = "read" /\ goalCall[r] \in goals!Call /\ goalCall[r].goal \in goals!Ids
         /\ goal[goalCall[r].goal] \in goals!Goal
         /\ goalCall' = [goalCall EXCEPT ![r].seen = goal[goalCall[r].goal]]
         /\ goalCall'[r] \in goals!Call
         /\ goalCall'[r].op = goalCall[r].op /\ goalCall'[r].no = goalCall[r].no
         /\ goalCall'[r].goal = goalCall[r].goal /\ goalCall'[r].body = goalCall[r].body
         /\ goalCall'[r].seen = goal[goalCall[r].goal]
         /\ goalCall[r].op = "update" => goal[goalCall[r].goal].status = "ACTIVE"
         /\ goalPc' = [goalPc EXCEPT ![r] = "commit"]
         /\ UNCHANGED <<goal, goals!known, goals!histories>>
  <1>1. goalPc[r] = "read" /\ goalCall[r] \in goals!Call
    BY DEF goals!Read, goals!Shapes
  <1>2. goalCall[r].goal \in goals!Ids
    BY <1>1 DEF goals!Call
  <1>3. goal[goalCall[r].goal] \in goals!Goal
    BY <1>2 DEF goals!Read, goals!TypeOK
  <1>4. /\ goalCall' = [goalCall EXCEPT ![r].seen = goal[goalCall[r].goal]]
        /\ UNCHANGED <<goal, goals!known, goals!histories>>
        /\ goalPc' = [goalPc EXCEPT ![r] = "commit"]
    BY DEF goals!Read, goals!Goto
  <1>5. goalCall'[r] = [goalCall[r] EXCEPT !.seen = goal[goalCall[r].goal]]
    BY <1>4 DEF goals!TypeOK
  <1>6. goalCall[r].op = "update" => goal[goalCall[r].goal].status = "ACTIVE"
    BY <1>3 DEF goals!Read, goals!Open, goals!Goal
  <1> QED BY <1>1, <1>2, <1>3, <1>4, <1>5, <1>6 DEF goals!Call

-----------------------------------------------------------------------------
(* Goals: the invariant is kept by each action.                            *)

LEMMA CreateStep ==
  ASSUME goals!GoalsAssumption, goals!IInv, NEW target \in Amounts, NEW expired \in BOOLEAN,
         goals!Create(target, expired)
  PROVE  goals!IInv'
  <1> DEFINE g == goalBegun + 1
             new == [target |-> target, current |-> 0, expired |-> expired, status |-> "ACTIVE"]
  <1>1. /\ g \in goals!Ids /\ goalBegun' = g /\ goal' = [goal EXCEPT ![g] = new]
        /\ UNCHANGED <<goalPc, goalCall, goalOverlapped, raced, closedBy, shown>>
    BY DEF goals!IInv, goals!TypeOK, goals!Create, goals!Ids, goals!GoalsAssumption,
           goals!histories
  <1>2. new \in goals!Goal /\ new.status # "COMPLETED" /\ ~(new.current >= new.target)
    <2>1. target \in Nat \ {0}
      <3>1. target \in Nat
        BY DEF goals!GoalsAssumption
      <3>2. target > 0
        BY DEF goals!Create
      <3> QED BY <3>1, <3>2
    <2>2. new \in goals!Goal
      BY <2>1 DEF goals!Create, goals!Goal
    <2> QED BY <2>1, <2>2
  <1>3. goal'[g] = new /\ \A h \in goals!Ids \ {g} : goal'[h] = goal[h]
    BY <1>1 DEF goals!IInv, goals!TypeOK
  <1>4. goal[g] = Null /\ closedBy[g] = Null
    BY <1>1 DEF goals!IInv, goals!Identities, goals!TypeOK, goals!Ids
  <1> HIDE DEF new
  <1>5. goals!TypeOK'
    BY <1>1, <1>2 DEF goals!IInv, goals!TypeOK, goals!Ids, goals!GoalsAssumption
  <1>6. goals!Shapes'
    BY <1>1 DEF goals!IInv, goals!Shapes, goals!AtCommit, goals!Call, goals!TypeOK,
                goals!Ids, goals!GoalsAssumption
  <1>7. goals!Identities'
    BY <1>1, <1>3 DEF goals!IInv, goals!Identities, goals!TypeOK, goals!Ids
  <1>8. goals!InFlightTogether'
    BY <1>1 DEF goals!IInv, goals!InFlightTogether
  <1>9. goals!ClosedForGood'
    BY <1>1, <1>2, <1>3, <1>4 DEF goals!IInv, goals!ClosedForGood
  <1>10. goals!CompletedWhenReached'
    <2>1. \A h \in goals!Ids \ raced : goal'[h] # Null =>
             (goal'[h].status = "COMPLETED" <=> goal'[h].current >= goal'[h].target)
      BY <1>1, <1>2, <1>3 DEF goals!IInv, goals!CompletedWhenReached
    <2>2. ASSUME NEW r \in Requests, goals!AtCommit(r, "update"),
                 goal'[goalCall[r].goal] # Null, goal'[goalCall[r].goal].status = "COMPLETED"
          PROVE  {goalCall[r].no, closedBy[goalCall[r].goal]} \in goalOverlapped
      <3>1. goalCall[r].goal \in goals!Ids
        BY <2>2 DEF goals!IInv, goals!Shapes, goals!AtCommit, goals!Call
      <3>2. goalCall[r].goal # g
        BY <1>2, <1>3, <2>2
      <3> QED BY <1>3, <2>2, <3>1, <3>2 DEF goals!IInv, goals!CompletedWhenReached
    <2> QED BY <1>1, <2>1, <2>2 DEF goals!CompletedWhenReached, goals!AtCommit
  <1> QED BY <1>5, <1>6, <1>7, <1>8, <1>9, <1>10 DEF goals!IInv

LEMMA ExpireStep ==
  ASSUME goals!GoalsAssumption, goals!IInv, NEW g \in goals!Ids, goals!Expire(g)
  PROVE  goals!IInv'
  <1> DEFINE new == [goal[g] EXCEPT !.expired = TRUE]
  <1>1. /\ goal[g] \in goals!Goal /\ goal' = [goal EXCEPT ![g] = new]
        /\ UNCHANGED <<goalPc, goalCall, goalBegun, goalOverlapped, raced, closedBy, shown>>
    BY DEF goals!IInv, goals!TypeOK, goals!Expire, goals!known, goals!histories
  <1>2. /\ new \in goals!Goal /\ new.status = goal[g].status
        /\ new.current = goal[g].current /\ new.target = goal[g].target
    BY <1>1 DEF goals!Goal
  <1>3. goal'[g] = new /\ \A h \in goals!Ids \ {g} : goal'[h] = goal[h]
    BY <1>1 DEF goals!IInv, goals!TypeOK
  <1>4. g <= goalBegun /\ goal[g] # Null
    BY DEF goals!IInv, goals!Identities, goals!Expire, goals!TypeOK, goals!Ids
  <1> HIDE DEF new
  <1>5. goals!TypeOK'
    BY <1>1, <1>2 DEF goals!IInv, goals!TypeOK
  <1>6. goals!Shapes'
    BY <1>1 DEF goals!IInv, goals!Shapes, goals!AtCommit
  <1>7. goals!Identities'
    BY <1>1, <1>3, <1>4 DEF goals!IInv, goals!Identities, goals!TypeOK, goals!Ids
  <1>8. goals!InFlightTogether'
    BY <1>1 DEF goals!IInv, goals!InFlightTogether
  <1>9. goals!ClosedForGood'
    BY <1>1, <1>2, <1>3, <1>4 DEF goals!IInv, goals!ClosedForGood
  <1>10. goals!CompletedWhenReached'
    <2>1. \A h \in goals!Ids \ raced : goal'[h] # Null =>
             (goal'[h].status = "COMPLETED" <=> goal'[h].current >= goal'[h].target)
      BY <1>2, <1>3, <1>4 DEF goals!IInv, goals!CompletedWhenReached
    <2>2. ASSUME NEW r \in Requests, goals!AtCommit(r, "update"),
                 goal'[goalCall[r].goal] # Null, goal'[goalCall[r].goal].status = "COMPLETED"
          PROVE  {goalCall[r].no, closedBy[goalCall[r].goal]} \in goalOverlapped
      <3>1. goalCall[r].goal \in goals!Ids
        BY <2>2 DEF goals!IInv, goals!Shapes, goals!AtCommit, goals!Call
      <3>2. goal[goalCall[r].goal] # Null /\ goal[goalCall[r].goal].status = "COMPLETED"
        BY <1>2, <1>3, <1>4, <2>2, <3>1
      <3> QED BY <2>2, <3>2 DEF goals!IInv, goals!CompletedWhenReached
    <2> QED BY <1>1, <2>1, <2>2 DEF goals!CompletedWhenReached, goals!AtCommit
  <1> QED BY <1>5, <1>6, <1>7, <1>8, <1>9, <1>10 DEF goals!IInv

LEMMA BeginStep ==
  ASSUME goals!GoalsAssumption, goals!IInv, NEW r \in Requests, NEW g \in goals!Ids,
         NEW op \in {"update", "delete", "detail"}, NEW body \in goals!Body \cup {Null},
         op = "update" => body \in Edits, goals!Begin(r, op, g, body)
  PROVE  goals!IInv'
  <1> DEFINE no == goalBegun + 1
             c == [op |-> op, no |-> no, goal |-> g, body |-> body, seen |-> Null]
             pairs == {{goalCall[q].no, no} : q \in {q \in Requests : goalPc[q] # "idle"}}
  <1>1. /\ goalPc[r] = "idle" /\ no \in goals!Ids /\ goalBegun' = no
        /\ goalCall' = [goalCall EXCEPT ![r] = c] /\ c \in goals!Call
        /\ goalOverlapped' = goalOverlapped \cup pairs
        /\ goalPc' = [goalPc EXCEPT ![r] = "read"]
        /\ UNCHANGED <<goal, raced, closedBy, shown>>
    <2>1. /\ goalPc[r] = "idle" /\ no \in goals!Ids /\ goalBegun' = no
          /\ goalCall' = [goalCall EXCEPT ![r] = c] /\ goalCall'[r] \in goals!Call
          /\ goalOverlapped' = goalOverlapped \cup pairs
          /\ goalPc' = [goalPc EXCEPT ![r] = "read"]
          /\ UNCHANGED <<goal, goals!histories>>
      BY BeginIsUpdate DEF goals!IInv
    <2>2. goalCall'[r] = c
      BY <2>1 DEF goals!IInv, goals!TypeOK
    <2> HIDE DEF c, pairs
    <2> QED BY <2>1, <2>2 DEF goals!histories
  <1>2. /\ c.op = op /\ c.no = no /\ c.body = body
        /\ goalCall'[r] = c /\ goalPc'[r] = "read"
        /\ \A q \in Requests \ {r} : goalCall'[q] = goalCall[q] /\ goalPc'[q] = goalPc[q]
    BY <1>1 DEF goals!IInv, goals!TypeOK
  <1>3. \A q \in Requests : goalPc[q] # "idle" =>
            goalCall[q].no \in goals!Ids /\ {goalCall[q].no, no} \in pairs
    BY DEF goals!IInv, goals!Shapes, goals!Call
  <1>4. pairs \subseteq SUBSET goals!Ids
    BY <1>1, <1>3
  <1> HIDE DEF c, pairs
  <1>5. goals!TypeOK'
    BY <1>1, <1>4 DEF goals!IInv, goals!TypeOK, goals!Ids, goals!GoalsAssumption
  <1>6. goals!Shapes'
    BY <1>1, <1>2 DEF goals!IInv, goals!Shapes, goals!AtCommit, goals!Call, goals!TypeOK,
                      goals!Ids, goals!GoalsAssumption
  <1>7. goals!Identities'
    BY <1>1 DEF goals!IInv, goals!Identities, goals!TypeOK, goals!Ids
  <1>8. goals!InFlightTogether'
    <2>1. ASSUME NEW q \in Requests, q # r, goalPc[q] # "idle"
          PROVE  {{goalCall[q].no, no}, {no, goalCall[q].no}} \subseteq goalOverlapped'
      <3>1. {goalCall[q].no, no} \in goalOverlapped'
        BY <1>1, <1>3, <2>1
      <3>2. {no, goalCall[q].no} = {goalCall[q].no, no}
        OBVIOUS
      <3> QED BY <3>1, <3>2
    <2>2. ASSUME NEW p \in Requests, NEW q \in Requests, p # q, goalPc'[p] # "idle",
                 goalPc'[q] # "idle"
          PROVE  {goalCall'[p].no, goalCall'[q].no} \in goalOverlapped'
      <3>1. CASE p = r
        BY <1>2, <2>1, <2>2, <3>1
      <3>2. CASE q = r
        BY <1>2, <2>1, <2>2, <3>2
      <3>3. CASE p # r /\ q # r
        BY <1>1, <1>2, <2>2, <3>3 DEF goals!IInv, goals!InFlightTogether
      <3> QED BY <3>1, <3>2, <3>3
    <2> QED BY <2>2 DEF goals!InFlightTogether
  <1>9. goals!ClosedForGood'
    BY <1>1 DEF goals!IInv, goals!ClosedForGood
  <1>10. goals!CompletedWhenReached'
    BY <1>1, <1>2 DEF goals!IInv, goals!CompletedWhenReached, goals!AtCommit
  <1> QED BY <1>5, <1>6, <1>7, <1>8, <1>9, <1>10 DEF goals!IInv

LEMMA ReadStep ==
  ASSUME goals!GoalsAssumption, goals!IInv, NEW r \in Requests, goals!Read(r)
  PROVE  goals!IInv'
  <1> DEFINE g == goalCall[r].goal
  <1>1. /\ goalPc[r] = "read" /\ goalCall[r] \in goals!Call /\ g \in goals!Ids
        /\ goal[g] \in goals!Goal
        /\ goalCall' = [goalCall EXCEPT ![r].seen = goal[g]] /\ goalCall'[r] \in goals!Call
        /\ goalCall'[r].op = goalCall[r].op /\ goalCall'[r].no = goalCall[r].no
        /\ goalCall'[r].goal = g /\ goalCall'[r].body = goalCall[r].body
        /\ goalCall'[r].seen = goal[g]
        /\ goalCall[r].op = "update" => goal[g].status = "ACTIVE"
        /\ goalPc' = [goalPc EXCEPT ![r] = "commit"]
        /\ UNCHANGED <<goal, goalBegun, goalOverlapped, raced, closedBy, shown>>
    BY ReadSees DEF goals!IInv, goals!known, goals!histories
  <1>2. /\ goalPc'[r] = "commit"
        /\ \A q \in Requests \ {r} : goalCall'[q] = goalCall[q] /\ goalPc'[q] = goalPc[q]
    BY <1>1 DEF goals!IInv, goals!TypeOK
  <1>3. goals!TypeOK'
    BY <1>1 DEF goals!IInv, goals!TypeOK
  <1>4. goals!Shapes'
    <2>1. goals!Shapes
      BY DEF goals!IInv
    <2> QED BY <1>1, <1>2, <2>1 DEF goals!Shapes, goals!AtCommit
  <1>5. goals!Identities'
    BY <1>1 DEF goals!IInv, goals!Identities
  <1>6. goals!InFlightTogether'
    BY <1>1, <1>2 DEF goals!IInv, goals!InFlightTogether
  <1>7. goals!ClosedForGood'
    BY <1>1 DEF goals!IInv, goals!ClosedForGood
  <1>8. goals!CompletedWhenReached'
    BY <1>1, <1>2 DEF goals!IInv, goals!CompletedWhenReached, goals!AtCommit
  <1> QED BY <1>3, <1>4, <1>5, <1>6, <1>7, <1>8 DEF goals!IInv

LEMMA CommitUpdateStep ==
  ASSUME goals!GoalsAssumption, goals!IInv, NEW r \in Requests, goals!CommitUpdate(r)
  PROVE  goals!IInv'
  <1> DEFINE c == goalCall[r]
             g == c.goal
             row == goal[g]
  <1>1. PICK written \in goals!Goal, reached \in BOOLEAN :
          /\ goal' = [goal EXCEPT ![g] = written]
          /\ closedBy' = [closedBy EXCEPT ![g] = IF reached /\ @ = Null THEN c.no ELSE @]
          /\ written.status = IF reached THEN "COMPLETED" ELSE row.status
          /\ row = c.seen => (written.status = "COMPLETED" <=> written.current >= written.target)
    BY CommitWrites DEF goals!IInv
  <1>2. /\ goalPc[r] = "commit" /\ c \in goals!Call /\ g \in goals!Ids
        /\ c.no \in goals!Ids /\ row \in goals!Goal
        /\ raced' = IF row # c.seen THEN raced \cup {g} ELSE raced
        /\ goalPc' = [goalPc EXCEPT ![r] = "idle"]
        /\ goalCall' = [goalCall EXCEPT ![r] = Null]
        /\ UNCHANGED <<goalBegun, goalOverlapped, shown>>
    BY CommitWrites DEF goals!IInv, goals!known
  <1>3. /\ goal'[g] = written /\ \A h \in goals!Ids \ {g} : goal'[h] = goal[h]
        /\ closedBy'[g] = (IF reached /\ closedBy[g] = Null THEN c.no ELSE closedBy[g])
        /\ \A h \in goals!Ids \ {g} : closedBy'[h] = closedBy[h]
    BY <1>1, <1>2 DEF goals!IInv, goals!TypeOK
  <1>4. /\ goalPc'[r] = "idle"
        /\ \A q \in Requests \ {r} : goalCall'[q] = goalCall[q] /\ goalPc'[q] = goalPc[q]
    BY <1>2 DEF goals!IInv, goals!TypeOK
  <1>5. written # Null /\ row # Null /\ c.no # Null
    BY <1>2 DEF goals!GoalsAssumption
  <1>6. g <= goalBegun
    BY <1>2, <1>5 DEF goals!IInv, goals!Identities, goals!TypeOK, goals!Ids
  <1>7. goals!TypeOK'
    <2>1. closedBy' \in [goals!Ids -> goals!Ids \cup {Null}]
      BY <1>1, <1>2 DEF goals!IInv, goals!TypeOK
    <2> QED BY <1>1, <1>2, <2>1 DEF goals!IInv, goals!TypeOK
  <1>8. goals!Shapes'
    BY <1>2, <1>4 DEF goals!IInv, goals!Shapes, goals!AtCommit
  <1>9. goals!Identities'
    BY <1>2, <1>3, <1>6 DEF goals!IInv, goals!Identities, goals!TypeOK, goals!Ids
  <1>10. goals!InFlightTogether'
    BY <1>2, <1>4 DEF goals!IInv, goals!InFlightTogether
  <1>11. goals!ClosedForGood'
    <2>1. row.status = "COMPLETED" <=> closedBy[g] # Null
      BY <1>2, <1>5 DEF goals!IInv, goals!ClosedForGood
    <2>2. goal'[g].status = "COMPLETED" <=> closedBy'[g] # Null
      BY <1>1, <1>3, <1>5, <2>1
    <2> QED BY <1>3, <2>2 DEF goals!IInv, goals!ClosedForGood
  <1>12. goals!CompletedWhenReached'
    <2>1. ASSUME NEW h \in goals!Ids \ raced', goal'[h] # Null
          PROVE  goal'[h].status = "COMPLETED" <=> goal'[h].current >= goal'[h].target
      <3>1. CASE h = g
        BY <1>1, <1>2, <1>3, <2>1, <3>1
      <3>2. CASE h # g
        BY <1>2, <1>3, <2>1, <3>2 DEF goals!IInv, goals!CompletedWhenReached
      <3> QED BY <3>1, <3>2
    <2>2. ASSUME NEW q \in Requests, goals!AtCommit(q, "update")',
                 goal'[goalCall'[q].goal] # Null, goal'[goalCall'[q].goal].status = "COMPLETED"
          PROVE  {goalCall'[q].no, closedBy'[goalCall'[q].goal]} \in goalOverlapped
      <3>1. q # r /\ goals!AtCommit(q, "update") /\ goalCall'[q] = goalCall[q] /\ goalPc[q] # "idle"
        BY <1>4, <2>2 DEF goals!AtCommit
      <3>2. {goalCall[q].no, c.no} \in goalOverlapped
        BY <1>2, <3>1 DEF goals!IInv, goals!InFlightTogether
      <3>3. goalCall[q].goal \in goals!Ids
        BY <3>1 DEF goals!IInv, goals!Shapes, goals!Call
      <3>4. CASE goalCall[q].goal = g /\ row.status = "COMPLETED"
        <4>1. closedBy'[g] = closedBy[g]
          BY <1>2, <1>3, <1>5, <3>4 DEF goals!IInv, goals!ClosedForGood
        <4>2. {goalCall[q].no, closedBy[g]} \in goalOverlapped
          BY <1>5, <3>1, <3>4 DEF goals!IInv, goals!CompletedWhenReached
        <4> QED BY <3>1, <3>4, <4>1, <4>2
      <3>5. CASE goalCall[q].goal = g /\ row.status # "COMPLETED"
        <4>1. closedBy[g] = Null
          BY <1>2, <1>5, <3>5 DEF goals!IInv, goals!ClosedForGood
        <4>2. reached
          BY <1>1, <1>3, <2>2, <3>1, <3>5
        <4>3. closedBy'[g] = c.no
          BY <1>3, <4>1, <4>2
        <4> QED BY <3>1, <3>2, <3>5, <4>3
      <3>6. CASE goalCall[q].goal # g
        BY <1>3, <2>2, <3>1, <3>3, <3>6 DEF goals!IInv, goals!CompletedWhenReached
      <3> QED BY <3>4, <3>5, <3>6
    <2> QED BY <1>2, <2>1, <2>2 DEF goals!CompletedWhenReached
  <1> QED BY <1>7, <1>8, <1>9, <1>10, <1>11, <1>12 DEF goals!IInv

LEMMA OtherEndStep ==
  ASSUME goals!GoalsAssumption, goals!IInv, NEW r \in Requests,
         goals!CommitDelete(r) \/ goals!AnswerDetail(r) \/ goals!Refuse(r) \/ goals!Crash(r)
  PROVE  goals!IInv'
  <1>1. /\ goalPc' = [goalPc EXCEPT ![r] = "idle"]
        /\ goalCall' = [goalCall EXCEPT ![r] = Null]
        /\ goal' = goal \/ \E g \in goals!Ids : goal' = [goal EXCEPT ![g] = Null]
        /\ shown' \subseteq goals!Ids
        /\ UNCHANGED <<goalBegun, goalOverlapped, raced, closedBy>>
    BY OtherEnds DEF goals!IInv, goals!known
  <1>2. /\ goalPc'[r] = "idle"
        /\ \A q \in Requests \ {r} : goalCall'[q] = goalCall[q] /\ goalPc'[q] = goalPc[q]
    BY <1>1 DEF goals!IInv, goals!TypeOK
  <1>3. \A g \in goals!Ids : goal'[g] # Null => goal'[g] = goal[g]
    BY <1>1 DEF goals!IInv, goals!TypeOK
  <1>4. \A g \in goals!Ids : goal[g] = Null => goal'[g] = Null
    BY <1>1 DEF goals!IInv, goals!TypeOK
  <1>5. goals!TypeOK'
    BY <1>1 DEF goals!IInv, goals!TypeOK
  <1>6. goals!Shapes'
    BY <1>1, <1>2 DEF goals!IInv, goals!Shapes, goals!AtCommit
  <1>7. goals!Identities'
    BY <1>1, <1>4 DEF goals!IInv, goals!Identities
  <1>8. goals!InFlightTogether'
    BY <1>1, <1>2 DEF goals!IInv, goals!InFlightTogether
  <1>9. goals!ClosedForGood'
    BY <1>1, <1>3 DEF goals!IInv, goals!ClosedForGood
  <1>10. goals!CompletedWhenReached'
    <2>1. \A g \in goals!Ids \ raced : goal'[g] # Null =>
             (goal'[g].status = "COMPLETED" <=> goal'[g].current >= goal'[g].target)
      BY <1>3 DEF goals!IInv, goals!CompletedWhenReached
    <2>2. ASSUME NEW q \in Requests, goals!AtCommit(q, "update")',
                 goal'[goalCall'[q].goal] # Null, goal'[goalCall'[q].goal].status = "COMPLETED"
          PROVE  {goalCall'[q].no, closedBy[goalCall'[q].goal]} \in goalOverlapped
      <3>1. goals!AtCommit(q, "update") /\ goalCall'[q] = goalCall[q] /\ goalPc[q] # "idle"
        BY <1>2, <2>2 DEF goals!AtCommit
      <3>2. goalCall[q].goal \in goals!Ids
        BY <3>1 DEF goals!IInv, goals!Shapes, goals!Call
      <3> QED BY <1>3, <2>2, <3>1, <3>2 DEF goals!IInv, goals!CompletedWhenReached
    <2> QED BY <1>1, <2>1, <2>2 DEF goals!CompletedWhenReached
  <1> QED BY <1>5, <1>6, <1>7, <1>8, <1>9, <1>10 DEF goals!IInv

LEMMA NextKeepsGoals ==
  ASSUME goals!GoalsAssumption, goals!IInv, [goals!Next]_(goals!vars)
  PROVE  goals!IInv'
  <1>1. ASSUME NEW target \in Amounts, NEW expired \in BOOLEAN,
               goals!Create(target, expired)
        PROVE  goals!IInv'
    BY <1>1, CreateStep
  <1>2. ASSUME NEW g \in goals!Ids, goals!Expire(g) PROVE goals!IInv'
    BY <1>2, ExpireStep
  <1>3. ASSUME NEW r \in Requests, NEW g \in goals!Ids, NEW body \in Edits,
               goals!BeginUpdate(r, g, body)
        PROVE  goals!IInv'
    <2>1. body \in goals!Body
      BY DEF goals!GoalsAssumption
    <2> QED BY <1>3, <2>1, BeginStep DEF goals!BeginUpdate
  <1>4. ASSUME NEW r \in Requests, NEW g \in goals!Ids,
               goals!BeginDelete(r, g) \/ goals!BeginDetail(r, g)
        PROVE  goals!IInv'
    BY <1>4, BeginStep DEF goals!BeginDelete, goals!BeginDetail
  <1>5. ASSUME NEW r \in Requests, goals!Read(r) PROVE goals!IInv'
    BY <1>5, ReadStep
  <1>6. ASSUME NEW r \in Requests, goals!CommitUpdate(r) PROVE goals!IInv'
    BY <1>6, CommitUpdateStep
  <1>7. ASSUME NEW r \in Requests,
               goals!CommitDelete(r) \/ goals!AnswerDetail(r) \/ goals!Refuse(r) \/ goals!Crash(r)
        PROVE  goals!IInv'
    BY <1>7, OtherEndStep
  <1>8. CASE UNCHANGED goals!vars
    BY <1>8 DEF goals!IInv, goals!TypeOK, goals!Shapes, goals!Identities,
                goals!InFlightTogether, goals!ClosedForGood,
                goals!CompletedWhenReached, goals!AtCommit, goals!vars
  <1> QED BY <1>1, <1>2, <1>3, <1>4, <1>5, <1>6, <1>7, <1>8 DEF goals!Next

LEMMA InitGoals == ASSUME goals!GoalsAssumption, goals!Init PROVE goals!IInv
  <1>1. goals!TypeOK
    BY DEF goals!Init, goals!TypeOK, goals!GoalsAssumption
  <1> QED BY <1>1 DEF goals!Init, goals!IInv, goals!Shapes, goals!Identities,
                      goals!InFlightTogether, goals!ClosedForGood,
                      goals!CompletedWhenReached, goals!AtCommit

LEMMA GoalsInvariance == goals!Spec => []goals!IInv
  <1> USE GoalsAssumption
  <1>1. goals!Init => goals!IInv
    BY InitGoals
  <1>2. goals!IInv /\ [goals!Next]_(goals!vars) => goals!IInv'
    BY NextKeepsGoals
  <1> QED BY <1>1, <1>2, PTL DEF goals!Spec

\* However updates interleave, a goal is COMPLETED exactly when it has reached its target
\* unless an update was made on the strength of an outdated row, and a completed goal is
\* written only by an update that was in flight when it was completed.
THEOREM ClosedWhenReached == goals!Spec => []CompletedWhenReached
  <1>1. goals!IInv => CompletedWhenReached
    BY DEF goals!IInv, CompletedWhenReached
  <1> QED BY <1>1, GoalsInvariance, PTL

-----------------------------------------------------------------------------
(* RateLimiter: what is kept is what lies in the window.                   *)

LEMMA LimiterSets ==
  /\ \A S : limiter!Cardinality(S) = Cardinality(S)
  /\ \A S : limiter!IsFiniteSet(S) <=> IsFiniteSet(S)
  <1>1. \A S : limiter!Cardinality(S) = Cardinality(S)
    BY DEF limiter!Cardinality, Cardinality
  <1>2. \A S : limiter!IsFiniteSet(S) <=> IsFiniteSet(S)
    BY DEF limiter!IsFiniteSet, IsFiniteSet
  <1> QED BY <1>1, <1>2

LEMMA LimiterNumbers ==
  /\ Limit \in Nat /\ Window \in Nat /\ MaxTime \in Nat
  /\ limiter!Remembered => clock \in Nat /\ clock \in 1 .. clock
  <1>1. Limit \in Nat /\ Window \in Nat /\ MaxTime \in Nat
    BY LimiterAssumption DEF limiter!RateLimiterAssumption
  <1> QED BY <1>1 DEF limiter!Remembered

LEMMA LoadIs ==
  ASSUME NEW k \in Clients, NEW t
  PROVE  limiter!Load(k, t) = Cardinality(limiter!Inside(k, t))
  BY LimiterSets DEF limiter!Load

LEMMA KeptIsInside ==
  ASSUME limiter!Remembered, NEW k \in Clients
  PROVE  limiter!Cleanup(k) = limiter!Inside(k, clock)
  BY DEF limiter!Cleanup, limiter!Inside, limiter!Remembered

LEMMA LoadIsNatural ==
  ASSUME limiter!Remembered, NEW k \in Clients, NEW t
  PROVE  IsFiniteSet(limiter!Inside(k, t)) /\ limiter!Load(k, t) \in Nat
  <1>1. IsFiniteSet(admitted[k])
    BY LimiterSets DEF limiter!Remembered
  <1>2. limiter!Inside(k, t) \subseteq admitted[k]
    BY DEF limiter!Inside
  <1>3. IsFiniteSet(limiter!Inside(k, t))
    BY <1>1, <1>2, FS_Subset
  <1> QED BY <1>3, LoadIs, FS_CardinalityType

LEMMA AllowKeepsLimit ==
  ASSUME limiter!Remembered, limiter!LimitHolds, NEW k \in Clients, limiter!Allow(k)
  PROVE  limiter!Remembered' /\ limiter!LimitHolds'
  <1> DEFINE size == Cardinality(admitted[k])
             new == [no |-> size + 1, time |-> clock]
             kept == limiter!Cleanup(k)
             inside == limiter!Inside(k, clock)
  <1>1. /\ Cardinality(kept) < Limit
        /\ requests' = [requests EXCEPT ![k] = kept \cup {new}]
        /\ admitted' = [admitted EXCEPT ![k] = admitted[k] \cup {new}]
        /\ clock' = clock /\ refused' = refused
    BY LimiterSets DEF limiter!Allow
  <1>2. kept = inside /\ inside \subseteq admitted[k]
    BY KeptIsInside DEF limiter!Inside
  <1>3. IsFiniteSet(admitted[k]) /\ size \in Nat
    BY LimiterSets, FS_CardinalityType DEF limiter!Remembered
  <1>4. new \in limiter!Admission /\ new.time = clock /\ new.no = size + 1
    BY <1>3 DEF limiter!Admission, limiter!Remembered
  <1>5. new \notin admitted[k]
    <2>1. \A e \in admitted[k] : e.no <= size
      BY LimiterSets DEF limiter!Remembered
    <2> QED BY <1>3, <1>4, <2>1
  <1> HIDE DEF new, kept, inside
  <1>6. IsFiniteSet(admitted[k] \cup {new}) /\ Cardinality(admitted[k] \cup {new}) = size + 1
    BY <1>3, <1>5, FS_AddElement
  <1>7. /\ admitted'[k] = admitted[k] \cup {new} /\ requests'[k] = kept \cup {new}
        /\ \A j \in Clients \ {k} : admitted'[j] = admitted[j] /\ requests'[j] = requests[j]
    BY <1>1 DEF limiter!Remembered
  <1>8. limiter!Remembered'
    <2>1. admitted' \in [Clients -> SUBSET limiter!Admission]
      BY <1>1, <1>4 DEF limiter!Remembered
    <2>2. requests' \in [Clients -> SUBSET limiter!Admission]
      BY <1>1, <1>2, <1>4 DEF limiter!Remembered
    <2>3. /\ IsFiniteSet(admitted'[k])
          /\ \A e \in admitted'[k] : e.time <= clock /\ e.no <= Cardinality(admitted'[k])
          /\ requests'[k] \subseteq admitted'[k]
          /\ {e \in admitted'[k] : e.time > clock - Window} \subseteq requests'[k]
      <3>1. \A e \in admitted[k] : e.time <= clock /\ e.no <= size /\ e.no \in Nat
        BY LimiterSets DEF limiter!Remembered, limiter!Admission
      <3>2. \A e \in admitted[k] : e.time > clock - Window => e \in inside
        BY <3>1 DEF limiter!Inside, inside
      <3>3. \A e \in admitted'[k] : e.time <= clock /\ e.no <= size + 1
        BY <1>3, <1>4, <1>7, <3>1, LimiterNumbers
      <3> QED BY <1>2, <1>6, <1>7, <3>2, <3>3
    <2> QED BY <1>1, <1>7, <2>1, <2>2, <2>3, LimiterSets DEF limiter!Remembered
  <1>9. \A j \in Clients \ {k} : \A t : limiter!Inside(j, t)' = limiter!Inside(j, t)
    BY <1>7 DEF limiter!Inside
  <1>10. \A t \in 1 .. clock : t # clock => limiter!Inside(k, t)' = limiter!Inside(k, t)
    BY <1>4, <1>7, LimiterNumbers DEF limiter!Inside
  <1>11. limiter!Load(k, clock) < Limit /\ limiter!Load(k, clock)' <= Limit
    <2>1. limiter!Inside(k, clock)' \subseteq inside \cup {new}
      BY <1>1, <1>7 DEF limiter!Inside, inside
    <2>2. IsFiniteSet(inside) /\ Cardinality(inside) \in Nat
      BY LoadIsNatural, FS_CardinalityType DEF inside
    <2>3. IsFiniteSet(inside \cup {new}) /\ Cardinality(inside \cup {new}) = Cardinality(inside) + 1
      BY <1>2, <1>5, <2>2, FS_AddElement
    <2>4. /\ Cardinality(limiter!Inside(k, clock)') <= Cardinality(inside \cup {new})
          /\ Cardinality(limiter!Inside(k, clock)') \in Nat
      BY <2>1, <2>3, FS_Subset, FS_CardinalityType
    <2>5. limiter!Load(k, clock)' = Cardinality(limiter!Inside(k, clock)')
      BY LimiterSets DEF limiter!Load
    <2>6. limiter!Load(k, clock) = Cardinality(inside)
      BY LoadIs DEF inside
    <2> QED BY <1>1, <1>2, <2>2, <2>3, <2>4, <2>5, <2>6, LimiterNumbers
  <1>12. ASSUME NEW j \in Clients
         PROVE  /\ \A t \in 1 .. clock : limiter!Load(j, t)' <= Limit
                /\ \A t \in refused[j] : limiter!Load(j, t)' = Limit
    <2>1. /\ \A t \in 1 .. clock : limiter!Load(j, t) <= Limit
          /\ \A t \in refused[j] : limiter!Load(j, t) = Limit /\ t \in 1 .. clock
      BY DEF limiter!LimitHolds, limiter!Remembered
    <2>2. CASE j # k
      <3>1. \A t : limiter!Load(j, t)' = limiter!Load(j, t)
        BY <1>9, <2>2 DEF limiter!Load
      <3> QED BY <2>1, <3>1
    <2>3. CASE j = k
      <3>1. clock \notin refused[k]
        BY <1>11, <2>1, <2>3, LimiterNumbers
      <3>2. \A t \in 1 .. clock : t # clock => limiter!Load(k, t)' = limiter!Load(k, t)
        BY <1>10 DEF limiter!Load
      <3>3. ASSUME NEW t \in 1 .. clock PROVE limiter!Load(k, t)' <= Limit
        <4>1. CASE t = clock
          <5>1. limiter!Load(k, t)' = limiter!Load(k, clock)'
            BY <1>1, <4>1 DEF limiter!Load, limiter!Inside
          <5> QED BY <1>11, <5>1
        <4>2. CASE t # clock
          BY <2>1, <2>3, <3>2, <4>2
        <4> QED BY <4>1, <4>2
      <3> QED BY <2>1, <2>3, <3>1, <3>2, <3>3
    <2> QED BY <2>2, <2>3
  <1> QED BY <1>1, <1>8, <1>12 DEF limiter!LimitHolds

LEMMA SameLoad ==
  ASSUME UNCHANGED admitted
  PROVE  \A k \in Clients : \A t : limiter!Load(k, t)' = limiter!Load(k, t)
  BY DEF limiter!Load, limiter!Inside

LEMMA RefuseKeepsLimit ==
  ASSUME limiter!Remembered, limiter!LimitHolds, NEW k \in Clients, limiter!Refuse(k)
  PROVE  limiter!Remembered' /\ limiter!LimitHolds'
  <1> DEFINE kept == limiter!Cleanup(k)
  <1>1. /\ Cardinality(kept) >= Limit
        /\ requests' = [requests EXCEPT ![k] = kept]
        /\ refused' = [refused EXCEPT ![k] = refused[k] \cup {clock}]
        /\ clock' = clock /\ admitted' = admitted
    BY LimiterSets DEF limiter!Refuse
  <1>2. kept = limiter!Inside(k, clock)
    BY KeptIsInside
  <1>3. limiter!Remembered'
    <2>1. /\ kept \subseteq requests[k]
          /\ {e \in admitted[k] : e.time > clock - Window} \subseteq kept
      BY DEF limiter!Cleanup, limiter!Remembered
    <2> HIDE DEF kept
    <2>2. requests' \in [Clients -> SUBSET limiter!Admission]
      BY <1>1, <2>1 DEF limiter!Remembered
    <2>3. refused' \in [Clients -> SUBSET (1 .. clock)]
      BY <1>1, LimiterNumbers DEF limiter!Remembered
    <2> QED BY <1>1, <2>1, <2>2, <2>3 DEF limiter!Remembered
  <1>4. limiter!Load(k, clock) = Limit
    <2>1. limiter!Load(k, clock) \in Nat /\ limiter!Load(k, clock) >= Limit
      BY <1>1, <1>2, LoadIs, LoadIsNatural
    <2> QED BY <2>1, LimiterNumbers DEF limiter!LimitHolds
  <1>5. \A j \in Clients :
           /\ \A t \in 1 .. clock : limiter!Load(j, t) <= Limit
           /\ \A t \in refused'[j] : limiter!Load(j, t) = Limit
    BY <1>1, <1>4 DEF limiter!LimitHolds, limiter!Remembered
  <1> QED BY <1>1, <1>3, <1>5, SameLoad DEF limiter!LimitHolds

LEMMA TickKeepsLimit ==
  ASSUME limiter!Remembered, limiter!LimitHolds, limiter!Tick
  PROVE  limiter!Remembered' /\ limiter!LimitHolds'
  <1>1. clock' = clock + 1 /\ clock < MaxTime /\ UNCHANGED <<requests, admitted, refused>>
    BY DEF limiter!Tick
  <1>2. 1 .. clock \subseteq 1 .. clock'
    BY <1>1, LimiterNumbers
  <1>3. limiter!Remembered'
    <2>1. refused' \in [Clients -> SUBSET (1 .. clock')] /\ clock' \in 1 .. MaxTime
      BY <1>1, <1>2, LimiterNumbers DEF limiter!Remembered
    <2>2. ASSUME NEW k \in Clients, NEW e \in admitted[k]
          PROVE  e.time <= clock' /\ (e.time > clock' - Window => e \in requests[k])
      <3>1. e.time \in Nat
        BY DEF limiter!Remembered, limiter!Admission
      <3> QED BY <1>1, <3>1, LimiterNumbers DEF limiter!Remembered
    <2> QED BY <1>1, <2>1, <2>2 DEF limiter!Remembered
  <1>4. ASSUME NEW k \in Clients PROVE limiter!Load(k, clock + 1) <= Limit
    <2>1. limiter!Inside(k, clock + 1) \subseteq limiter!Inside(k, clock)
      <3>1. \A e \in admitted[k] : e.time \in Nat /\ e.time <= clock
        BY DEF limiter!Remembered, limiter!Admission
      <3> QED BY <3>1, LimiterNumbers DEF limiter!Inside
    <2>2. limiter!Load(k, clock + 1) <= limiter!Load(k, clock)
      BY <2>1, LoadIs, LoadIsNatural, FS_Subset
    <2>3. limiter!Load(k, clock) <= Limit
      BY LimiterNumbers DEF limiter!LimitHolds
    <2> QED BY <2>2, <2>3, LoadIsNatural, LimiterNumbers
  <1>5. \A t \in 1 .. clock + 1 : t \in 1 .. clock \/ t = clock + 1
    BY LimiterNumbers
  <1>6. \A k \in Clients : /\ \A t \in 1 .. clock + 1 : limiter!Load(k, t) <= Limit
                           /\ \A t \in refused[k] : limiter!Load(k, t) = Limit
    BY <1>4, <1>5 DEF limiter!LimitHolds
  <1> QED BY <1>1, <1>3, <1>6, SameLoad DEF limiter!LimitHolds

LEMMA InitLimit == limiter!Init => limiter!Remembered /\ limiter!LimitHolds
  <1> SUFFICES ASSUME limiter!Init PROVE limiter!Remembered /\ limiter!LimitHolds
    OBVIOUS
  <1>1. limiter!Remembered
    BY LimiterAssumption, LimiterSets, FS_EmptySet
       DEF limiter!Init, limiter!Remembered, limiter!RateLimiterAssumption
  <1>2. \A k \in Clients : \A t : limiter!Inside(k, t) = {}
    BY DEF limiter!Init, limiter!Inside
  <1>3. \A k \in Clients : \A t : limiter!Load(k, t) = 0
    BY <1>2, LoadIs, FS_EmptySet
  <1>4. \A k \in Clients : refused[k] = {}
    BY DEF limiter!Init
  <1> QED BY <1>1, <1>3, <1>4, LimiterNumbers DEF limiter!LimitHolds

\* However calls and the passing of time interleave, in no window of a client are more
\* than Limit calls let in, and only those are turned away that would exceed it.
THEOREM LimitAlwaysHolds == limiter!Spec => []LimitHolds
  <1>1. limiter!Init => limiter!Remembered /\ limiter!LimitHolds
    BY InitLimit
  <1>2. limiter!Remembered /\ limiter!LimitHolds /\ [limiter!Next]_(limiter!vars)
          => limiter!Remembered' /\ limiter!LimitHolds'
    <2> SUFFICES ASSUME limiter!Remembered, limiter!LimitHolds, [limiter!Next]_(limiter!vars)
                 PROVE  limiter!Remembered' /\ limiter!LimitHolds'
      OBVIOUS
    <2>1. CASE limiter!Tick
      BY <2>1, TickKeepsLimit
    <2>2. ASSUME NEW k \in Clients, limiter!Allow(k)
          PROVE  limiter!Remembered' /\ limiter!LimitHolds'
      BY <2>2, AllowKeepsLimit
    <2>3. ASSUME NEW k \in Clients, limiter!Refuse(k)
          PROVE  limiter!Remembered' /\ limiter!LimitHolds'
      BY <2>3, RefuseKeepsLimit
    <2>4. CASE UNCHANGED limiter!vars
      <3>1. UNCHANGED <<clock, requests, admitted, refused>>
        BY <2>4 DEF limiter!vars
      <3>2. limiter!Remembered'
        BY <3>1 DEF limiter!Remembered
      <3> QED BY <3>1, <3>2, SameLoad DEF limiter!LimitHolds
    <2> QED BY <2>1, <2>2, <2>3, <2>4 DEF limiter!Next
  <1>3. limiter!LimitHolds => LimitHolds
    BY DEF LimitHolds
  <1> QED BY <1>1, <1>2, <1>3, PTL DEF limiter!Spec

-----------------------------------------------------------------------------
(* Catalogue.                                                              *)


\* The operators of the instance are those of the library modules.
LEMMA SameOperators ==
  \A S : /\ lists!Cardinality(S) = Cardinality(S)
         /\ lists!IsFiniteSet(S) <=> IsFiniteSet(S)
         /\ lists!Max(S) = Max(S)
  BY DEF lists!Cardinality, Cardinality, lists!IsFiniteSet, IsFiniteSet, lists!Max, Max

\* The sets of identifiers are finite.
LEMMA FiniteRows ==
  /\ IsFiniteSet(lists!AssetIds) /\ IsFiniteSet(lists!CategoryIds)
  /\ \A i \in lists!AssetIds : i[1] \in Registered \/ i[1] \in lists!Ids
  /\ Registered \X Sections \subseteq lists!CategoryIds
  /\ \A n \in lists!Ids : /\ <<n, Null>> \in lists!AssetIds
     /\ <<n, Null>> \in lists!CategoryIds
                          /\ <<n, Null>> \notin Registered \X Sections
  <1> USE ListsAssumption DEF lists!CatalogueAssumption
  <1>1. IsFiniteSet(lists!Ids)
    BY FS_Interval DEF lists!Ids
  <1>2. IsFiniteSet({Null})
    BY FS_Singleton
  <1>3. IsFiniteSet(lists!Ids \cup Registered)
    BY <1>1, FS_Union, SameOperators
  <1>4. IsFiniteSet(lists!AssetIds)
    BY <1>2, <1>3, FS_Product DEF lists!AssetIds
  <1>5. IsFiniteSet(lists!Ids \X {Null}) /\ IsFiniteSet(Registered \X Sections)
    BY <1>1, <1>2, FS_Product, SameOperators
  <1>6. IsFiniteSet(lists!CategoryIds)
    BY <1>5, FS_Union DEF lists!CategoryIds
  <1>7. /\ \A i \in lists!AssetIds : i[1] \in Registered \/ i[1] \in lists!Ids
        /\ Registered \X Sections \subseteq lists!CategoryIds
        /\ \A n \in lists!Ids : <<n, Null>> \in lists!AssetIds
           /\ <<n, Null>> \in lists!CategoryIds
    BY DEF lists!AssetIds, lists!CategoryIds
  <1>8. ASSUME NEW n \in lists!Ids PROVE <<n, Null>> \notin Registered \X Sections
    OBVIOUS
  <1> QED BY <1>4, <1>6, <1>7, <1>8

\* Listed and Length in the next state, where their arguments may be of the next state too.
ListedNext(u, group) ==
    {i \in lists!AssetIds : /\ assets'[i] # Null
                            /\ \/ assets'[i].user = u
                               \/ group # Null /\ assets'[i].group = group}

LengthNext(u, group) == lists!Cardinality(ListedNext(u, group))

LEMMA ListedIsFinite ==
  ASSUME NEW u, NEW g
  PROVE  /\ IsFiniteSet(lists!Listed(u, g)) /\ IsFiniteSet(ListedNext(u, g))
         /\ lists!Length(u, g) \in Nat /\ LengthNext(u, g) \in Nat
  <1>1. lists!Listed(u, g) \in SUBSET lists!AssetIds
        /\ ListedNext(u, g) \in SUBSET lists!AssetIds
    BY DEF lists!Listed, ListedNext
  <1>2. IsFiniteSet(lists!Listed(u, g)) /\ IsFiniteSet(ListedNext(u, g))
    BY <1>1, FiniteRows, FS_Subset
  <1> QED BY <1>2, FS_CardinalityType, SameOperators DEF lists!Length, LengthNext

\* A list that has more rows is at least as long, and longer with a row that is new.
LEMMA LengthGrows ==
  ASSUME NEW u, NEW g, NEW h, lists!Listed(u, g) \subseteq ListedNext(u, h)
  PROVE  /\ lists!Length(u, g) <= LengthNext(u, h)
         /\ \A i \in ListedNext(u, h) : i \notin lists!Listed(u, g) =>
            lists!Length(u, g) < LengthNext(u, h)
  <1> DEFINE S == lists!Listed(u, g)  T == ListedNext(u, h)
  <1>1. IsFiniteSet(S) /\ IsFiniteSet(T) /\ Cardinality(S) \in Nat /\ Cardinality(T) \in Nat
    BY ListedIsFinite, SameOperators DEF lists!Length, LengthNext
  <1>2. S \in SUBSET T
    OBVIOUS
  <1> HIDE DEF S, T
  <1>3. Cardinality(S) <= Cardinality(T) /\ (Cardinality(T) = Cardinality(S) => T = S)
    BY <1>1, <1>2, FS_Subset
  <1>4. /\ Cardinality(S) <= Cardinality(T)
        /\ \A i \in T : i \notin S => Cardinality(S) < Cardinality(T)
    BY <1>1, <1>3
  <1> QED BY <1>4, SameOperators DEF S, T, lists!Length, LengthNext

\* A user's own assets are in every list of the user.
LEMMA OwnAreListed ==
  ASSUME NEW u, NEW g
  PROVE  lists!Listed(u, Null) \subseteq lists!Listed(u, g)
         /\ ListedNext(u, Null) \subseteq ListedNext(u, g)
  BY DEF lists!Listed, ListedNext

\* A finite, non-empty set of numbers has a greatest.
LEMMA Greatest ==
  ASSUME NEW S \in SUBSET Nat, IsFiniteSet(S), S # {}
  PROVE  \E x \in S : \A y \in S : x >= y
  <1> DEFINE F == {s \in SUBSET S : s # {} => \E x \in s : \A y \in s : x >= y}
  <1>1. ASSUME NEW s \in SUBSET S, \A t \in SUBSET s : t # s => t \in F
        PROVE  s \in F
    <2> SUFFICES ASSUME s # {} PROVE \E x \in s : \A y \in s : x >= y
      OBVIOUS
    <2>1. PICK z \in s : TRUE
      OBVIOUS
    <2>2. CASE s \ {z} = {}
      <3>1. \A y \in s : y = z
        BY <2>2
      <3>2. \A y \in s : z >= y
        BY <3>1
      <3> QED BY <3>2
    <2>3. CASE s \ {z} # {}
      <3>1. s \ {z} \in F
        BY <1>1
      <3>2. PICK x \in s \ {z} : \A y \in s \ {z} : x >= y
        BY <2>3, <3>1
      <3>3. x \in Nat /\ z \in Nat
        OBVIOUS
      <3>4. CASE x >= z
        <4>1. \A y \in s : x >= y
          BY <3>2, <3>4
        <4> QED BY <4>1
      <3>5. CASE ~(x >= z)
        <4>1. \A y \in s : z >= y
          BY <3>2, <3>3, <3>5
        <4> QED BY <4>1
      <3> QED BY <3>4, <3>5
    <2> QED BY <2>2, <2>3
  <1>2. SUBSET S \subseteq F
    <2> HIDE DEF F
    <2> QED BY <1>1, SetOfSubsets
  <1>3. S \in F
    BY <1>2
  <1> QED BY <1>3

\* The rows of a section and their places.
InSection(u, section) ==
    {i \in lists!CategoryIds : categories[i] # Null /\ categories[i].user = u
                               /\ categories[i].section = section}

PlacesOf(u, section) == {categories[i].place : i \in InSection(u, section)}

LEMMA NextPlaceIs ==
  ASSUME lists!TypeOK, NEW u, NEW section
  PROVE  /\ lists!NextPlace(u, section) \in Nat
         /\ \A i \in InSection(u, section) : categories[i].place < lists!NextPlace(u, section)
  <1> DEFINE T == PlacesOf(u, section)
  <1>1. \A i \in InSection(u, section) : categories[i].place \in Nat
    BY DEF lists!TypeOK, lists!Category, InSection
  <1>2. T \in SUBSET Nat
    BY <1>1 DEF PlacesOf
  <1>3. IsFiniteSet(T)
    <2> DEFINE f == [i \in InSection(u, section) |-> categories[i].place]
    <2>1. f \in Surjection(InSection(u, section), T)
      BY DEF PlacesOf, Surjection
    <2>2. IsFiniteSet(InSection(u, section))
      <3>1. InSection(u, section) \in SUBSET lists!CategoryIds
        BY DEF InSection
      <3> QED BY <3>1, FiniteRows, FS_Subset
    <2> HIDE DEF f, T
    <2> QED BY <2>1, <2>2, FS_Surjection
  <1> DEFINE S == {0} \cup T
  <1>4. S \in SUBSET Nat /\ IsFiniteSet(S) /\ S # {}
    <2>1. IsFiniteSet({0})
      BY FS_Singleton
    <2> HIDE DEF T
    <2>2. IsFiniteSet(S)
      BY <1>3, <2>1, FS_Union
    <2> QED BY <1>2, <2>2
  <1>5. lists!Max(S) \in S /\ \A y \in S : lists!Max(S) >= y
    <2> HIDE DEF S
    <2>1. \E x \in S : \A y \in S : x >= y
      BY <1>4, Greatest
    <2> QED BY <2>1 DEF lists!Max
  <1>6. lists!NextPlace(u, section) = lists!Max(S) + 1
    BY DEF lists!NextPlace, PlacesOf, InSection
  <1>7. \A i \in InSection(u, section) : categories[i].place \in S
    BY DEF PlacesOf
  <1> HIDE DEF S, T
  <1>8. lists!Max(S) \in Nat
    BY <1>4, <1>5
  <1> QED BY <1>1, <1>5, <1>6, <1>7, <1>8

-----------------------------------------------------------------------------
(* What most steps leave as it is.                                         *)

\* The requests in flight were so before, at the same statement.
RequestsStay ==
    /\ listBegun' \in Int /\ listBegun <= listBegun' /\ listOverlapped' = listOverlapped
    /\ moved \subseteq moved' /\ disturbed \subseteq disturbed'
    /\ \A r \in ListRequests : lists!InFlight(r)' => lists!InFlight(r)
       /\ listPc'[r] = listPc[r] /\ listCall'[r] = listCall[r]
    /\ \A u \in Users : u \notin disturbed' => groupOf[u] \in {Null, groupOf'[u]}

\* An asset that is there was there, and is as it was but for its place.
AssetsStay ==
    \A i \in lists!AssetIds : assets'[i] # Null =>
        /\ assets[i] # Null
        /\ assets'[i].user = assets[i].user /\ assets'[i].shared = assets[i].shared
        /\ i \notin moved' => assets'[i].place = assets[i].place

\* And so is a category, and no default category is deleted or renamed.
CategoriesStay ==
    /\ \A i \in lists!CategoryIds : categories'[i] # Null =>
        /\ categories[i] # Null
        /\ categories'[i].user = categories[i].user
        /\ categories'[i].section = categories[i].section
        /\ i \notin moved' => categories'[i].place = categories[i].place
    /\ \A i \in Registered \X Sections :
        /\ categories'[i] # Null
        /\ categories'[i].default = categories[i].default
        /\ categories'[i].renamed = categories[i].renamed

\* The default asset of a user could have been the default before.
FavouritesStay ==
    \A u \in Users : favourite'[u] # Null =>
        favourite'[u] \in lists!AssetIds /\ lists!Usable(favourite'[u], u)

\* The list of an undisturbed user gets no shorter.
ListsGrow ==
    \A u \in Users : u \notin disturbed' =>
        \A g \in {Null, groupOf[u]} : lists!Listed(u, g) \subseteq ListedNext(u, g)

LEMMA RowTypes ==
  ASSUME lists!TypeOK
  PROVE  /\ \A i \in lists!AssetIds : assets[i] # Null =>
               /\ assets[i] \in lists!Asset /\ assets[i].user \in Users
                  /\ assets[i].place \in Nat
         /\ \A i \in lists!CategoryIds : categories[i] # Null =>
               /\ categories[i] \in lists!Category /\ categories[i].user \in Users
               /\ categories[i].place \in Nat
  BY DEF lists!TypeOK, lists!Asset, lists!Category

LEMMA CallTypes ==
  ASSUME lists!Shapes, NEW r \in ListRequests, lists!InFlight(r)
  PROVE  /\ listCall[r] \in lists!Call /\ listCall[r].op \in lists!Ops
         /\ listCall[r].no \in lists!Ids
         /\ listCall[r].user \in Users /\ listCall[r].place \in Nat
            /\ listCall[r].no <= listBegun
         /\ listCall[r].group \in Groups \cup {Null} /\ listCall[r].shared \in BOOLEAN
         /\ listCall[r].sent \in Groups \cup {Null}
         /\ listCall[r].section \in Sections \cup {Null}
         /\ listCall[r].op \in {"dropAsset", "favour"} => listCall[r].row \in lists!AssetIds
         /\ listCall[r].op \in {"rename", "dropCategory"} =>
            listCall[r].row \in lists!CategoryIds
         /\ listCall[r].op = "addCategory" => listCall[r].section \in Sections
  BY DEF lists!Shapes, lists!Call

LEMMA RequestsKept ==
  ASSUME RequestsStay, lists!TypeOK, lists!Shapes, lists!Numbers, lists!GroupKept
  PROVE  lists!Shapes' /\ lists!Numbers' /\ lists!GroupKept'
  <1>1. listBegun \in Int /\ listBegun' \in Int
    BY ListsAssumption DEF lists!TypeOK, RequestsStay, lists!CatalogueAssumption
  <1>2. ASSUME NEW r \in ListRequests, lists!InFlight(r)'
        PROVE  lists!InFlight(r) /\ listCall'[r] = listCall[r] /\ listCall[r].no \in Int
    BY <1>2, CallTypes DEF RequestsStay, lists!Ids
  <1>3. lists!Shapes'
    <2> SUFFICES ASSUME NEW r \in ListRequests, lists!InFlight(r)'
                 PROVE  /\ listCall'[r] \in lists!Call /\ listCall'[r].no <= listBegun'
                        /\ listCall'[r].op \in {"dropAsset", "favour"} =>
                           listCall'[r].row \in lists!AssetIds
                        /\ listCall'[r].op \in {"rename", "dropCategory"} =>
                              listCall'[r].row \in lists!CategoryIds
                        /\ listCall'[r].op = "addCategory" =>
                           listCall'[r].section \in Sections
      BY DEF lists!Shapes
    <2>1. lists!InFlight(r) /\ listCall'[r] = listCall[r] /\ listCall[r].no \in Int
      BY <1>2
    <2>2. listCall[r].no <= listBegun'
      BY <1>1, <2>1, CallTypes DEF RequestsStay
    <2> QED BY <2>1, <2>2, CallTypes
  <1>4. lists!Numbers'
    BY <1>2 DEF lists!Numbers, RequestsStay
  <1>5. lists!GroupKept'
    <2> SUFFICES ASSUME NEW r \in ListRequests, lists!InFlight(r)',
                        listCall'[r].user \notin disturbed'
                 PROVE  listCall'[r].group \in {Null, groupOf'[listCall'[r].user]}
      BY DEF lists!GroupKept
    <2>1. lists!InFlight(r) /\ listCall'[r] = listCall[r] /\ listCall[r].user \in Users
      BY <1>2, CallTypes
    <2>2. listCall[r].user \notin disturbed
      BY <2>1 DEF RequestsStay
    <2>3. listCall[r].group \in {Null, groupOf[listCall[r].user]}
      BY <2>1, <2>2 DEF lists!GroupKept
    <2>4. groupOf[listCall[r].user] \in {Null, groupOf'[listCall[r].user]}
      BY <2>1 DEF RequestsStay
    <2> QED BY <2>1, <2>3, <2>4
  <1> QED BY <1>3, <1>4, <1>5

LEMMA TakenStays ==
  ASSUME RequestsStay, lists!TypeOK, NEW i, lists!Taken(i)
  PROVE  lists!Taken(i)'
  <1>1. listBegun \in Int /\ listBegun' \in Int /\ listBegun <= listBegun'
    BY ListsAssumption DEF lists!TypeOK, RequestsStay, lists!CatalogueAssumption
  <1>2. ASSUME i[1] \in lists!Ids PROVE i[1] <= listBegun'
    BY <1>1, <1>2 DEF lists!Taken, lists!Ids
  <1>3. ASSUME i[1] \in lists!Ids, NEW r \in ListRequests, lists!InFlight(r)'
        PROVE listCall'[r].no # i[1]
    BY <1>3 DEF lists!Taken, RequestsStay
  <1> QED BY <1>2, <1>3 DEF lists!Taken

\* And so could the one that a request is about to set.
CandidatesStay ==
    \A r \in ListRequests : lists!AtCommit(r, "favour")' =>
        listCall'[r].row \in lists!AssetIds
            /\ lists!Usable(listCall'[r].row, listCall'[r].user)

LEMMA CandidatesSame ==
  ASSUME lists!Favourites, lists!Shapes,
         \A r \in ListRequests : listPc'[r] = "commit" =>
             lists!InFlight(r) /\ listPc[r] = "commit" /\ listCall'[r] = listCall[r]
  PROVE  CandidatesStay
  <1> SUFFICES ASSUME NEW r \in ListRequests, lists!AtCommit(r, "favour")'
               PROVE  listCall'[r].row \in lists!AssetIds
                      /\ lists!Usable(listCall'[r].row, listCall'[r].user)
    BY DEF CandidatesStay
  <1>1. lists!InFlight(r) /\ lists!AtCommit(r, "favour") /\ listCall'[r] = listCall[r]
    BY DEF lists!AtCommit
  <1>2. listCall[r].row \in lists!AssetIds /\ lists!Usable(listCall[r].row, listCall[r].user)
    BY <1>1, CallTypes DEF lists!Favourites, lists!AtCommit
  <1> QED BY <1>1, <1>2

LEMMA FavouritesKept ==
  ASSUME FavouritesStay, CandidatesStay, \A i : lists!Taken(i) => lists!Taken(i)',
         \A i \in lists!AssetIds : lists!Taken(i) /\ assets'[i] # Null =>
             /\ assets[i] # Null
             /\ assets'[i].user = assets[i].user /\ assets'[i].shared = assets[i].shared
  PROVE  lists!Favourites'
  <1> DEFINE UsableNext(i, u) ==
        /\ i[1] \in lists!Ids => /\ i[1] <= listBegun'
                                 /\ \A r \in ListRequests : lists!InFlight(r)' =>
                                    listCall'[r].no # i[1]
        /\ assets'[i] # Null => assets'[i].user = u \/ assets'[i].shared
  <1>1. ASSUME NEW i \in lists!AssetIds, NEW u, lists!Usable(i, u) PROVE UsableNext(i, u)
    <2>1. lists!Taken(i) /\ lists!Taken(i)'
      BY <1>1 DEF lists!Usable
    <2> QED BY <1>1, <2>1 DEF lists!Usable, lists!Taken
  <1> HIDE DEF UsableNext
  <1>2. ASSUME NEW u \in Users, favourite'[u] # Null PROVE UsableNext(favourite'[u], u)
    BY <1>1, <1>2 DEF FavouritesStay
  <1>3. ASSUME NEW r \in ListRequests, lists!AtCommit(r, "favour")'
        PROVE  UsableNext(listCall'[r].row, listCall'[r].user)
    BY <1>1, <1>3 DEF CandidatesStay
  <1> QED BY <1>2, <1>3 DEF lists!Favourites, lists!Usable, lists!Taken, UsableNext

LEMMA AssetsKept ==
  ASSUME RequestsStay, AssetsStay, FavouritesStay, lists!TypeOK, lists!Shapes, lists!Unborn,
         lists!Favourites
  PROVE  (\A i \in lists!AssetIds : assets'[i] # Null => lists!Taken(i)') /\ lists!Favourites'
  <1>1. \A i \in lists!AssetIds : assets'[i] # Null => lists!Taken(i)'
    BY TakenStays DEF AssetsStay, lists!Unborn
  <1>2. \A r \in ListRequests : listPc'[r] = "commit" =>
            lists!InFlight(r) /\ listPc[r] = "commit" /\ listCall'[r] = listCall[r]
    BY DEF RequestsStay, lists!InFlight
  <1>3. CandidatesStay /\ \A i : lists!Taken(i) => lists!Taken(i)'
    BY <1>2, CandidatesSame, TakenStays
  <1>4. lists!Favourites'
    BY <1>3, FavouritesKept DEF AssetsStay
  <1> QED BY <1>1, <1>4

LEMMA CategoriesKept ==
  ASSUME RequestsStay, CategoriesStay, lists!TypeOK, lists!TypeOK', lists!Shapes,
         lists!Unborn, lists!Defaults,
         lists!CategoriesBehind, lists!ListsInOrder
  PROVE  /\ \A i \in lists!CategoryIds : categories'[i] # Null => lists!Taken(i)'
         /\ lists!Defaults' /\ lists!CategoriesBehind'
         /\ \A i, j \in lists!CategoryIds :
               /\ i # j /\ lists!Settled(i, j)'
               /\ categories'[i] # Null /\ categories'[j] # Null
               /\ categories'[i].user = categories'[j].user
               /\ categories'[i].section = categories'[j].section
               => categories'[i].place # categories'[j].place
         /\ \A i \in Registered \X Sections : categories'[i] # Null /\ ~categories'[i].renamed
  <1>1. \A i \in lists!CategoryIds : categories'[i] # Null => lists!Taken(i)'
    BY TakenStays DEF CategoriesStay, lists!Unborn
  <1>2. ASSUME NEW r \in ListRequests, listPc'[r] = "commit"
        PROVE  lists!InFlight(r) /\ listPc[r] = "commit" /\ listCall'[r] = listCall[r]
    BY <1>2 DEF RequestsStay, lists!InFlight
  <1>3. lists!Defaults'
    <2>1. ASSUME NEW i \in Registered \X Sections
          PROVE  /\ categories'[i] \in lists!Category
                 /\ categories'[i].user = i[1] /\ categories'[i].section = i[2]
                 /\ categories'[i].default /\ ~categories'[i].renamed
      <3>1. i \in lists!CategoryIds /\ categories'[i] # Null
        BY FiniteRows DEF CategoriesStay
      <3>2. categories'[i] \in lists!Category
        BY <3>1 DEF lists!TypeOK
      <3> QED BY <3>1, <3>2 DEF CategoriesStay, lists!Defaults
    <2> QED BY <2>1, <1>2 DEF lists!Defaults
  <1>4. lists!CategoriesBehind'
    <2> SUFFICES ASSUME NEW r \in ListRequests, lists!AtCommit(r, "addCategory")',
                        NEW i \in lists!CategoryIds,
                        categories'[i] # Null, {i[1], listCall'[r].no} \notin listOverlapped',
                        i \notin moved',
                        categories'[i].user = listCall'[r].user,
                        categories'[i].section = listCall'[r].section
                 PROVE  categories'[i].place < listCall'[r].place
      BY DEF lists!CategoriesBehind, lists!Before
    <2>1. lists!InFlight(r) /\ listPc[r] = "commit" /\ listCall'[r] = listCall[r]
          /\ lists!AtCommit(r, "addCategory")
      BY <1>2 DEF lists!AtCommit
    <2>2. /\ categories[i] # Null /\ lists!Before(i, r)
          /\ categories[i].user = listCall[r].user
             /\ categories[i].section = listCall[r].section
          /\ categories'[i].place = categories[i].place
      BY <2>1 DEF CategoriesStay, RequestsStay, lists!Before
    <2> QED BY <2>1, <2>2 DEF lists!CategoriesBehind
  <1>5. ASSUME NEW i \in lists!CategoryIds, NEW j \in lists!CategoryIds, i # j,
               lists!Settled(i, j)',
               categories'[i] # Null, categories'[j] # Null,
               categories'[i].user = categories'[j].user,
               categories'[i].section = categories'[j].section
        PROVE  categories'[i].place # categories'[j].place
    <2>1. /\ categories[i] # Null /\ categories[j] # Null
          /\ categories[i].user = categories[j].user
          /\ categories[i].section = categories[j].section
      BY <1>5 DEF CategoriesStay
    <2>2. i \notin moved' /\ j \notin moved' /\ lists!Settled(i, j)
      BY <1>5 DEF lists!Settled, RequestsStay
    <2>3. categories[i].place # categories[j].place
      BY <1>5, <2>1, <2>2 DEF lists!ListsInOrder
    <2> QED BY <1>5, <2>2, <2>3 DEF CategoriesStay
  <1>6. \A i \in Registered \X Sections : categories'[i] # Null /\ ~categories'[i].renamed
    BY DEF CategoriesStay, lists!Defaults
  <1> QED BY <1>1, <1>3, <1>4, <1>5, <1>6

\* AssetsBehind in the next state.
AssetsBehindNext ==
    /\ \A i \in lists!AssetIds :
          assets'[i] # Null /\ i \notin moved' /\ assets'[i].user \notin disturbed' =>
              assets'[i].place < LengthNext(assets'[i].user, groupOf'[assets'[i].user])
    /\ \A r \in ListRequests : lists!AddsAsset(r)' /\ listCall'[r].user \notin disturbed' =>
          LET list == LengthNext(listCall'[r].user, listCall'[r].group)
              place == IF listPc'[r] = "read" THEN list ELSE listCall'[r].place
          IN  /\ place <= list
              /\ \A i \in lists!AssetIds :
                    assets'[i] # Null /\ lists!Before(i, r)'
                        /\ assets'[i].user = listCall'[r].user =>
                        assets'[i].place < place

LEMMA AssetsBehindPrimed == AssetsBehindNext => lists!AssetsBehind'
  BY DEF AssetsBehindNext, lists!AssetsBehind, lists!Length, LengthNext, lists!Listed,
     ListedNext

\* The list of a user that has not been disturbed, before and after.
LEMMA ListsLonger ==
  ASSUME ListsGrow, lists!TypeOK, \A u \in Users : u \notin disturbed' =>
                                       groupOf[u] \in {Null, groupOf'[u]},
         NEW u \in Users, u \notin disturbed'
  PROVE  /\ \A g \in {Null, groupOf[u]} : 
               /\ lists!Length(u, g) \in Nat /\ LengthNext(u, g) \in Nat
               /\ lists!Length(u, g) <= LengthNext(u, g)
         /\ LET g == groupOf[u]  h == groupOf'[u]
            IN  /\ lists!Length(u, g) \in Nat /\ LengthNext(u, h) \in Nat
                /\ lists!Length(u, g) <= LengthNext(u, h)
  <1>1. ASSUME NEW g \in {Null, groupOf[u]}
        PROVE  /\ lists!Length(u, g) \in Nat /\ LengthNext(u, g) \in Nat
               /\ lists!Length(u, g) <= LengthNext(u, g)
    <2>1. lists!Listed(u, g) \subseteq ListedNext(u, g)
      BY <1>1 DEF ListsGrow
    <2> QED BY <2>1, ListedIsFinite, LengthGrows
  <1> DEFINE g == groupOf[u]  h == groupOf'[u]
  <1>2. lists!Listed(u, g) \subseteq ListedNext(u, h)
    <2>1. g \in {Null, h}
      OBVIOUS
    <2>2. lists!Listed(u, g) \subseteq ListedNext(u, g)
      BY DEF ListsGrow
    <2> QED BY <2>1, <2>2, OwnAreListed
  <1>3. lists!Length(u, g) \in Nat /\ LengthNext(u, h) \in Nat
    BY ListedIsFinite
  <1> HIDE DEF g, h
  <1>4. lists!Length(u, g) <= LengthNext(u, h)
    BY <1>2, LengthGrows
  <1> QED BY <1>1, <1>3, <1>4 DEF g, h

LEMMA RowStaysBelow ==
  ASSUME RequestsStay, ListsGrow, lists!TypeOK, lists!AssetsBehind, NEW i \in lists!AssetIds,
         assets[i] # Null, assets'[i].user = assets[i].user,
             assets'[i].place = assets[i].place,
         i \notin moved', assets'[i].user \notin disturbed'
  PROVE  assets'[i].place < LengthNext(assets'[i].user, groupOf'[assets'[i].user])
  <1> DEFINE u == assets[i].user  a == lists!Length(u, groupOf[u])  b == LengthNext(u, groupOf'[u])
  <1>1. u \in Users /\ assets[i].place \in Nat /\ i \notin moved
        /\ u \notin disturbed' /\ u \notin disturbed
    BY RowTypes DEF RequestsStay
  <1>2. a \in Nat /\ b \in Nat /\ a <= b
    BY <1>1, ListsLonger DEF RequestsStay
  <1>3. assets[i].place < a
    BY <1>1 DEF lists!AssetsBehind
  <1>4. assets[i].place < b
    <2> HIDE DEF a, b
    <2> QED BY <1>1, <1>2, <1>3
  <1> QED BY <1>1, <1>4

LEMMA RequestStaysBehind ==
  ASSUME RequestsStay, ListsGrow, lists!TypeOK, lists!Shapes, lists!GroupKept,
         lists!AssetsBehind,
         NEW r \in ListRequests, lists!AddsAsset(r)', listCall'[r].user \notin disturbed',
         \A i \in lists!AssetIds :
             assets'[i] # Null /\ lists!Before(i, r)'
                 /\ assets'[i].user = listCall'[r].user =>
                 /\ assets[i] # Null /\ assets[i].user = listCall[r].user
                 /\ assets'[i].place = assets[i].place
  PROVE  LET list == LengthNext(listCall'[r].user, listCall'[r].group)
             place == IF listPc'[r] = "read" THEN list ELSE listCall'[r].place
         IN  /\ place <= list
             /\ \A i \in lists!AssetIds :
                   assets'[i] # Null /\ lists!Before(i, r)'
                       /\ assets'[i].user = listCall'[r].user =>
                       assets'[i].place < place
  <1> DEFINE u == listCall[r].user  g == listCall[r].group  list == lists!Length(u, g)
             place == IF listPc[r] = "read" THEN list ELSE listCall[r].place
             listNext == LengthNext(u, g)
             placeNext == IF listPc[r] = "read" THEN listNext ELSE listCall[r].place
  <1>1. lists!InFlight(r) /\ lists!AddsAsset(r) /\ listPc'[r] = listPc[r]
        /\ listCall'[r] = listCall[r]
        /\ u \in Users /\ listCall[r].place \in Nat
    BY CallTypes DEF RequestsStay, lists!AddsAsset
  <1>2. u \notin disturbed' /\ u \notin disturbed
    BY <1>1 DEF RequestsStay
  <1>3. list \in Nat /\ listNext \in Nat /\ list <= listNext
    <2>1. g \in {Null, groupOf[u]}
      BY <1>1, <1>2 DEF lists!GroupKept
    <2> QED BY <1>1, <1>2, <2>1, ListsLonger DEF RequestsStay
  <1>4. /\ place <= list
        /\ \A i \in lists!AssetIds :
              assets[i] # Null /\ lists!Before(i, r) /\ assets[i].user = u =>
                  assets[i].place < place
    BY <1>1, <1>2 DEF lists!AssetsBehind
  <1>5. placeNext <= listNext /\ place <= placeNext /\ place \in Nat /\ placeNext \in Nat
    <2> HIDE DEF list, listNext
    <2> QED BY <1>1, <1>3, <1>4
  <1>6. ASSUME NEW i \in lists!AssetIds, assets'[i] # Null, lists!Before(i, r)',
               assets'[i].user = u
        PROVE  assets'[i].place < placeNext
    <2>1. lists!Before(i, r)
      BY <1>1, <1>6 DEF lists!Before, RequestsStay
    <2>2. assets[i] # Null /\ assets[i].user = u /\ assets'[i].place = assets[i].place
          /\ assets[i].place \in Nat
      BY <1>1, <1>6, RowTypes
    <2> HIDE DEF place, placeNext
    <2>3. assets[i].place < place
      BY <1>4, <2>1, <2>2
    <2> QED BY <1>5, <2>2, <2>3
  <1> HIDE DEF list, listNext
  <1>7. placeNext <= listNext /\
        \A i \in lists!AssetIds :
            assets'[i] # Null /\ lists!Before(i, r)' /\ assets'[i].user = u =>
                assets'[i].place < placeNext
    BY <1>5, <1>6
  <1> QED BY <1>1, <1>7 DEF listNext

LEMMA ListsKept ==
  ASSUME RequestsStay, AssetsStay, ListsGrow, lists!TypeOK, lists!Shapes, lists!GroupKept,
         lists!AssetsBehind, lists!ListsInOrder
  PROVE  /\ lists!AssetsBehind'
         /\ \A i, j \in lists!AssetIds :
               /\ i # j /\ lists!Settled(i, j)'
               /\ assets'[i] # Null /\ assets'[j] # Null
               /\ assets'[i].user = assets'[j].user /\ assets'[i].user \notin disturbed'
               => assets'[i].place # assets'[j].place
  <1>1. lists!AssetsBehind'
    <2>1. ASSUME NEW i \in lists!AssetIds, assets'[i] # Null, i \notin moved',
                 assets'[i].user \notin disturbed'
          PROVE  assets'[i].place < LengthNext(assets'[i].user, groupOf'[assets'[i].user])
      BY <2>1, RowStaysBelow DEF AssetsStay
    <2>2. ASSUME NEW r \in ListRequests, lists!AddsAsset(r)',
                 listCall'[r].user \notin disturbed'
          PROVE  LET list == LengthNext(listCall'[r].user, listCall'[r].group)
                     place == IF listPc'[r] = "read" THEN list ELSE listCall'[r].place
                 IN  /\ place <= list
                     /\ \A i \in lists!AssetIds :
                           assets'[i] # Null /\ lists!Before(i, r)'
                           /\ assets'[i].user = listCall'[r].user => assets'[i].place < place
      <3>1. listCall'[r] = listCall[r]
        BY <2>2 DEF RequestsStay, lists!AddsAsset
      <3>2. \A i \in lists!AssetIds :
               assets'[i] # Null /\ lists!Before(i, r)'
                   /\ assets'[i].user = listCall'[r].user =>
                   /\ assets[i] # Null /\ assets[i].user = listCall[r].user
                   /\ assets'[i].place = assets[i].place
        BY <3>1 DEF AssetsStay, lists!Before
      <3> QED BY <2>2, <3>2, RequestStaysBehind
    <2>3. AssetsBehindNext
      BY <2>1, <2>2 DEF AssetsBehindNext
    <2> QED BY <2>3, AssetsBehindPrimed
  <1>2. ASSUME NEW i \in lists!AssetIds, NEW j \in lists!AssetIds, i # j,
               lists!Settled(i, j)',
               assets'[i] # Null, assets'[j] # Null,
               assets'[i].user = assets'[j].user, assets'[i].user \notin disturbed'
        PROVE  assets'[i].place # assets'[j].place
    <2>1. i \notin moved' /\ j \notin moved' /\ lists!Settled(i, j)
      BY <1>2 DEF lists!Settled, RequestsStay
    <2>2. /\ assets[i] # Null /\ assets[j] # Null /\ assets[i].user = assets[j].user
          /\ assets'[i].user = assets[i].user
          /\ assets'[i].place = assets[i].place /\ assets'[j].place = assets[j].place
      BY <1>2, <2>1 DEF AssetsStay
    <2>3. assets[i].user \notin disturbed
      BY <1>2, <2>2 DEF RequestsStay
    <2> QED BY <1>2, <2>1, <2>2, <2>3 DEF lists!ListsInOrder
  <1> QED BY <1>1, <1>2

LEMMA OrderKept ==
  ASSUME RequestsStay, AssetsStay, CategoriesStay, FavouritesStay, ListsGrow, lists!CInv,
         lists!TypeOK'
  PROVE  lists!CInv'
  <1>1. lists!TypeOK /\ lists!Shapes /\ lists!Numbers /\ lists!Unborn /\ lists!Defaults
        /\ lists!Favourites /\ lists!CategoriesBehind
        /\ lists!GroupKept /\ lists!AssetsBehind /\ lists!ListsInOrder
    BY DEF lists!CInv
  <1>2. lists!Shapes' /\ lists!Numbers' /\ lists!GroupKept'
    BY <1>1, RequestsKept
  <1>3. (\A i \in lists!AssetIds : assets'[i] # Null => lists!Taken(i)') /\ lists!Favourites'
    BY <1>1, AssetsKept
  <1>4. /\ \A i \in lists!CategoryIds : categories'[i] # Null => lists!Taken(i)'
        /\ lists!Defaults' /\ lists!CategoriesBehind'
        /\ \A i, j \in lists!CategoryIds :
              /\ i # j /\ lists!Settled(i, j)'
              /\ categories'[i] # Null /\ categories'[j] # Null
              /\ categories'[i].user = categories'[j].user
              /\ categories'[i].section = categories'[j].section
              => categories'[i].place # categories'[j].place
        /\ \A i \in Registered \X Sections : categories'[i] # Null /\ ~categories'[i].renamed
    BY <1>1, CategoriesKept
  <1>5. /\ lists!AssetsBehind'
        /\ \A i, j \in lists!AssetIds :
              /\ i # j /\ lists!Settled(i, j)'
              /\ assets'[i] # Null /\ assets'[j] # Null
              /\ assets'[i].user = assets'[j].user /\ assets'[i].user \notin disturbed'
              => assets'[i].place # assets'[j].place
    BY <1>1, ListsKept
  <1>6. lists!Unborn'
    BY <1>3, <1>4 DEF lists!Unborn
  <1>7. lists!ListsInOrder'
    BY <1>3, <1>4, <1>5 DEF lists!ListsInOrder, lists!Favourites, lists!Usable
  <1> QED BY <1>2, <1>3, <1>4, <1>5, <1>6, <1>7 DEF lists!CInv

-----------------------------------------------------------------------------
(* The steps that change no list, or only shorten one.                     *)

LEMMA AssetsSame ==
  ASSUME assets' = assets
  PROVE  AssetsStay /\ ListsGrow /\ \A u, g : ListedNext(u, g) = lists!Listed(u, g)
  <1>1. \A u, g : ListedNext(u, g) = lists!Listed(u, g)
    BY DEF lists!Listed, ListedNext
  <1>2. AssetsStay
    BY DEF AssetsStay
  <1> QED BY <1>1, <1>2 DEF ListsGrow

LEMMA CategoriesSame ==
  ASSUME categories' = categories, lists!Defaults, lists!TypeOK, lists!TypeOK'
  PROVE  CategoriesStay
  <1>1. \A i \in Registered \X Sections : categories[i] # Null
    BY ListsAssumption DEF lists!Defaults, lists!CatalogueAssumption
  <1> QED BY <1>1 DEF CategoriesStay

LEMMA FavouritesSame ==
  ASSUME favourite' = favourite, lists!Favourites, lists!TypeOK
  PROVE  FavouritesStay
  BY DEF lists!Favourites, FavouritesStay, lists!TypeOK

LEMMA EndsAre ==
  ASSUME lists!TypeOK, NEW r \in ListRequests, lists!End(r),
         moved \subseteq moved', disturbed \subseteq disturbed'
  PROVE  /\ RequestsStay
         /\ listPc' \in [ListRequests -> {"idle", "read", "commit"}]
         /\ listCall' \in [ListRequests -> lists!Call \cup {Null}]
         /\ groupOf' = groupOf /\ listBegun' = listBegun /\ listOverlapped' = listOverlapped
         /\ ~lists!InFlight(r)'
         /\ \A q \in ListRequests : q # r => listPc'[q] = listPc[q]
            /\ listCall'[q] = listCall[q]
  <1>1. /\ listPc' = [listPc EXCEPT ![r] = "idle"]
        /\ listCall' = [listCall EXCEPT ![r] = Null]
        /\ groupOf' = groupOf /\ listBegun' = listBegun /\ listOverlapped' = listOverlapped
    BY DEF lists!End, lists!Goto, lists!known
  <1>2. /\ listPc' \in [ListRequests -> {"idle", "read", "commit"}]
        /\ listCall' \in [ListRequests -> lists!Call \cup {Null}]
    BY <1>1 DEF lists!TypeOK
  <1>3. listPc'[r] = "idle" /\ \A q \in ListRequests : q # r => listPc'[q] = listPc[q]
        /\ listCall'[q] = listCall[q]
    BY <1>1 DEF lists!TypeOK
  <1>4. RequestsStay
    <2>1. listBegun \in Int
      BY ListsAssumption DEF lists!TypeOK, lists!CatalogueAssumption
    <2> QED BY <1>1, <1>3, <2>1 DEF RequestsStay, lists!InFlight
  <1> QED BY <1>1, <1>2, <1>3, <1>4 DEF lists!InFlight

LEMMA RollbackKeepsOrder ==
  ASSUME lists!CInv, NEW r \in ListRequests, lists!Rollback(r)
  PROVE  lists!CInv'
  <1> USE DEF lists!CInv
  <1>1. /\ assets' = assets /\ favourite' = favourite /\ categories' = categories
        /\ moved' = moved /\ disturbed' = disturbed /\ lists!End(r)
    BY DEF lists!Rollback, lists!rows, lists!histories
  <1>2. /\ RequestsStay /\ groupOf' = groupOf /\ listBegun' = listBegun
        /\ listOverlapped' = listOverlapped
        /\ listPc' \in [ListRequests -> {"idle", "read", "commit"}]
        /\ listCall' \in [ListRequests -> lists!Call \cup {Null}]
    BY <1>1, EndsAre
  <1>3. lists!TypeOK'
    BY <1>1, <1>2 DEF lists!TypeOK
  <1> QED BY <1>1, <1>2, <1>3, AssetsSame, CategoriesSame, FavouritesSame, OrderKept

LEMMA StutterKeepsOrder ==
  ASSUME lists!CInv, UNCHANGED lists!vars
  PROVE  lists!CInv'
  <1> USE DEF lists!CInv
  <1>1. /\ assets' = assets /\ favourite' = favourite /\ categories' = categories
        /\ groupOf' = groupOf /\ listPc' = listPc /\ listCall' = listCall
           /\ listBegun' = listBegun
        /\ listOverlapped' = listOverlapped /\ moved' = moved /\ disturbed' = disturbed
    BY DEF lists!vars
  <1>2. lists!TypeOK'
    BY <1>1 DEF lists!TypeOK
  <1>3. RequestsStay
    <2>1. listBegun \in Int
      BY ListsAssumption DEF lists!TypeOK, lists!CatalogueAssumption
    <2> QED BY <1>1, <2>1 DEF RequestsStay, lists!InFlight
  <1> QED BY <1>1, <1>2, <1>3, AssetsSame, CategoriesSame, FavouritesSame, OrderKept

LEMMA SingleStays ==
  ASSUME lists!TypeOK, lists!Single, groupOf' = groupOf, moved \subseteq moved',
         disturbed' = disturbed
  PROVE  /\ RequestsStay /\ listBegun' \in 0 .. MaxListRequests
         /\ listPc' = listPc /\ listCall' = listCall /\ listOverlapped' = listOverlapped
  <1>1. listBegun \in 0 .. MaxListRequests /\ MaxListRequests \in Nat
    BY ListsAssumption DEF lists!TypeOK, lists!CatalogueAssumption
  <1>2. /\ listBegun < MaxListRequests /\ listBegun' = listBegun + 1
        /\ listPc' = listPc /\ listCall' = listCall /\ listOverlapped' = listOverlapped
    BY DEF lists!Single
  <1> QED BY <1>1, <1>2 DEF RequestsStay, lists!InFlight

LEMMA MoveKeepsOrder ==
  ASSUME lists!CInv, NEW u \in Users, NEW group \in Groups \cup {Null}, lists!Move(u, group)
  PROVE  lists!CInv'
  <1> USE DEF lists!CInv
  <1>1. listBegun \in 0 .. MaxListRequests /\ MaxListRequests \in Nat
    BY ListsAssumption DEF lists!TypeOK, lists!CatalogueAssumption
  <1>2. /\ listBegun < MaxListRequests /\ listBegun' = listBegun + 1
        /\ listPc' = listPc /\ listCall' = listCall /\ listOverlapped' = listOverlapped
        /\ groupOf' = [groupOf EXCEPT ![u] = group]
        /\ disturbed' = IF groupOf[u] = Null THEN disturbed ELSE disturbed \cup {u}
        /\ assets' = assets /\ favourite' = favourite /\ categories' = categories
        /\ moved' = moved
    BY DEF lists!Move, lists!Single, lists!rows
  <1>3. lists!TypeOK'
    <2>1. listBegun' \in 0 .. MaxListRequests
      BY <1>1, <1>2
    <2>2. groupOf' \in [Users -> Groups \cup {Null}] /\ disturbed' \subseteq Users
      BY <1>2 DEF lists!TypeOK
    <2> QED BY <1>2, <2>1, <2>2 DEF lists!TypeOK
  <1>4. RequestsStay
    <2>1. listBegun' \in Int /\ listBegun <= listBegun' /\ disturbed \subseteq disturbed'
      BY <1>1, <1>2
    <2>2. ASSUME NEW v \in Users, v \notin disturbed'
          PROVE  groupOf[v] \in {Null, groupOf'[v]}
      <3>1. CASE v = u
        BY <1>2, <2>2, <3>1
      <3>2. CASE v # u
        <4>1. groupOf'[v] = groupOf[v]
          BY <1>2, <3>2 DEF lists!TypeOK
        <4> QED BY <4>1
      <3> QED BY <3>1, <3>2
    <2> QED BY <1>2, <2>1, <2>2 DEF RequestsStay, lists!InFlight
  <1> QED BY <1>2, <1>3, <1>4, AssetsSame, CategoriesSame, FavouritesSame, OrderKept

\* A record of assets or categories with another place.
LEMMA Replaced ==
  ASSUME lists!TypeOK, NEW place \in Nat
  PROVE  /\ \A i \in lists!AssetIds : assets[i] # Null =>
               LET a == [assets[i] EXCEPT !.place = place]
               IN  /\ a \in lists!Asset /\ a # Null /\ a.user = assets[i].user
                   /\ a.shared = assets[i].shared /\ a.group = assets[i].group
         /\ \A i \in lists!CategoryIds : categories[i] # Null =>
               LET c == [categories[i] EXCEPT !.place = place]
               IN  /\ c \in lists!Category /\ c # Null /\ c.user = categories[i].user
                   /\ c.section = categories[i].section /\ c.default = categories[i].default
                   /\ c.renamed = categories[i].renamed
  <1>1. Null \notin lists!Asset /\ Null \notin lists!Category
    BY ListsAssumption DEF lists!CatalogueAssumption
  <1> QED BY <1>1, RowTypes DEF lists!Asset, lists!Category

LEMMA ReorderAssetKeepsOrder ==
  ASSUME lists!CInv, NEW i \in lists!AssetIds, NEW place \in Places,
         lists!ReorderAsset(i, place)
  PROVE  lists!CInv'
  <1> USE DEF lists!CInv
  <1> DEFINE a == [assets[i] EXCEPT !.place = place]
  <1>1. /\ lists!Single /\ assets[i] # Null /\ assets' = [assets EXCEPT ![i] = a]
        /\ moved' = moved \cup {i} /\ favourite' = favourite /\ categories' = categories
        /\ groupOf' = groupOf /\ disturbed' = disturbed
    BY DEF lists!ReorderAsset
  <1>2. a \in lists!Asset /\ a # Null /\ a.user = assets[i].user
        /\ a.shared = assets[i].shared /\ a.group = assets[i].group
    BY <1>1, Replaced, ListsAssumption DEF lists!CatalogueAssumption
  <1> HIDE DEF a
  <1>3. /\ RequestsStay /\ listBegun' \in 0 .. MaxListRequests
        /\ listPc' = listPc /\ listCall' = listCall /\ listOverlapped' = listOverlapped
    BY <1>1, SingleStays
  <1>4. assets' \in [lists!AssetIds -> lists!Asset \cup {Null}]
    BY <1>1, <1>2 DEF lists!TypeOK
  <1>5. assets'[i] = a /\ \A j \in lists!AssetIds : j # i => assets'[j] = assets[j]
    BY <1>1 DEF lists!TypeOK
  <1>6. lists!TypeOK'
    <2>1. moved' \subseteq lists!AssetIds \cup lists!CategoryIds
      BY <1>1 DEF lists!TypeOK
    <2> QED BY <1>1, <1>3, <1>4, <2>1 DEF lists!TypeOK
  <1>7. AssetsStay
    BY <1>1, <1>2, <1>5 DEF AssetsStay
  <1>8. ListsGrow
    <2>1. ASSUME NEW u, NEW g, NEW j \in lists!Listed(u, g) PROVE j \in ListedNext(u, g)
      BY <1>1, <1>2, <1>5, <2>1 DEF lists!Listed, ListedNext
    <2> QED BY <2>1 DEF ListsGrow
  <1> QED BY <1>1, <1>3, <1>6, <1>7, <1>8, CategoriesSame, FavouritesSame, OrderKept

LEMMA ReorderCategoryKeepsOrder ==
  ASSUME lists!CInv, NEW i \in lists!CategoryIds, NEW place \in Places,
         lists!ReorderCategory(i, place)
  PROVE  lists!CInv'
  <1> USE DEF lists!CInv
  <1> DEFINE c == [categories[i] EXCEPT !.place = place]
  <1>1. /\ lists!Single /\ categories[i] # Null /\ categories' = [categories EXCEPT ![i] = c]
        /\ moved' = moved \cup {i} /\ favourite' = favourite /\ assets' = assets
        /\ groupOf' = groupOf /\ disturbed' = disturbed
    BY DEF lists!ReorderCategory
  <1>2. /\ c \in lists!Category /\ c # Null /\ c.user = categories[i].user
        /\ c.section = categories[i].section /\ c.default = categories[i].default
        /\ c.renamed = categories[i].renamed
    BY <1>1, Replaced, ListsAssumption DEF lists!CatalogueAssumption
  <1> HIDE DEF c
  <1>3. /\ RequestsStay /\ listBegun' \in 0 .. MaxListRequests
        /\ listPc' = listPc /\ listCall' = listCall /\ listOverlapped' = listOverlapped
    BY <1>1, SingleStays
  <1>4. categories' \in [lists!CategoryIds -> lists!Category \cup {Null}]
    BY <1>1, <1>2 DEF lists!TypeOK
  <1>5. categories'[i] = c /\ \A j \in lists!CategoryIds : j # i =>
        categories'[j] = categories[j]
    BY <1>1 DEF lists!TypeOK
  <1>6. lists!TypeOK'
    <2>1. moved' \subseteq lists!AssetIds \cup lists!CategoryIds
      BY <1>1 DEF lists!TypeOK
    <2> QED BY <1>1, <1>3, <1>4, <2>1 DEF lists!TypeOK
  <1>7. CategoriesStay
    <2>1. \A j \in Registered \X Sections : j \in lists!CategoryIds /\ categories[j] # Null
      BY FiniteRows, ListsAssumption DEF lists!Defaults, lists!CatalogueAssumption
    <2> QED BY <1>1, <1>2, <1>5, <2>1 DEF CategoriesStay
  <1> QED BY <1>1, <1>3, <1>6, <1>7, AssetsSame, FavouritesSame, OrderKept

LEMMA FavourKeepsOrder ==
  ASSUME lists!CInv, NEW r \in ListRequests, lists!CommitFavour(r)
  PROVE  lists!CInv'
  <1> USE DEF lists!CInv
  <1> DEFINE c == listCall[r]
  <1>1. /\ lists!AtCommit(r, "favour") /\ favourite' = [favourite EXCEPT ![c.user] = c.row]
        /\ assets' = assets /\ categories' = categories
        /\ moved' = moved /\ disturbed' = disturbed /\ lists!End(r)
    BY DEF lists!CommitFavour, lists!histories
  <1>2. /\ RequestsStay /\ groupOf' = groupOf /\ listBegun' = listBegun
        /\ listOverlapped' = listOverlapped
        /\ listPc' \in [ListRequests -> {"idle", "read", "commit"}]
        /\ listCall' \in [ListRequests -> lists!Call \cup {Null}]
    BY <1>1, EndsAre
  <1>3. c.row \in lists!AssetIds /\ c.user \in Users /\ lists!Usable(c.row, c.user)
    BY <1>1, CallTypes DEF lists!AtCommit, lists!InFlight, lists!Favourites
  <1>4. favourite' \in [Users -> lists!AssetIds \cup {Null}]
    BY <1>1, <1>3 DEF lists!TypeOK
  <1>5. lists!TypeOK'
    BY <1>1, <1>2, <1>4 DEF lists!TypeOK
  <1>6. FavouritesStay
    <2> SUFFICES ASSUME NEW u \in Users, favourite'[u] # Null
                 PROVE  favourite'[u] \in lists!AssetIds /\ lists!Usable(favourite'[u], u)
      BY DEF FavouritesStay
    <2>1. CASE u = c.user
      <3>1. favourite'[u] = c.row
        BY <1>1, <2>1 DEF lists!TypeOK
      <3> QED BY <1>3, <2>1, <3>1
    <2>2. CASE u # c.user
      <3>1. favourite'[u] = favourite[u]
        BY <1>1, <2>2 DEF lists!TypeOK
      <3> QED BY <3>1 DEF lists!TypeOK, lists!Favourites
    <2> QED BY <2>1, <2>2
  <1> QED BY <1>1, <1>2, <1>5, <1>6, AssetsSame, CategoriesSame, OrderKept

LEMMA DropAssetKeepsOrder ==
  ASSUME lists!CInv, NEW r \in ListRequests, lists!CommitDropAsset(r)
  PROVE  lists!CInv'
  <1> USE DEF lists!CInv
  <1> DEFINE c == listCall[r]
  <1>1. /\ lists!AtCommit(r, "dropAsset") /\ assets' = [assets EXCEPT ![c.row] = Null]
        /\ disturbed' = disturbed \cup {u \in Users : c.row \in lists!Listed(u, groupOf[u])}
        /\ favourite' = favourite /\ categories' = categories /\ moved' = moved
           /\ lists!End(r)
    BY DEF lists!CommitDropAsset
  <1>2. /\ RequestsStay /\ groupOf' = groupOf /\ listBegun' = listBegun
        /\ listOverlapped' = listOverlapped
        /\ listPc' \in [ListRequests -> {"idle", "read", "commit"}]
        /\ listCall' \in [ListRequests -> lists!Call \cup {Null}]
    BY <1>1, EndsAre
  <1>3. c.row \in lists!AssetIds
    BY <1>1, CallTypes DEF lists!AtCommit, lists!InFlight
  <1>4. assets' \in [lists!AssetIds -> lists!Asset \cup {Null}] /\ disturbed' \subseteq Users
    BY <1>1 DEF lists!TypeOK
  <1>5. lists!TypeOK'
    BY <1>1, <1>2, <1>4 DEF lists!TypeOK
  <1>6. assets'[c.row] = Null /\ \A j \in lists!AssetIds : j # c.row => assets'[j] = assets[j]
    BY <1>1, <1>3 DEF lists!TypeOK
  <1>7. AssetsStay
    BY <1>6 DEF AssetsStay
  <1>8. ListsGrow
    <2> SUFFICES ASSUME NEW u \in Users, u \notin disturbed', NEW g \in {Null, groupOf[u]}
                 PROVE  lists!Listed(u, g) \subseteq ListedNext(u, g)
      BY DEF ListsGrow
    <2>1. c.row \notin lists!Listed(u, groupOf[u])
      BY <1>1
    <2>2. c.row \notin lists!Listed(u, g)
      BY <2>1, OwnAreListed
    <2>3. ASSUME NEW j \in lists!Listed(u, g) PROVE j \in ListedNext(u, g)
      <3>1. j \in lists!AssetIds /\ j # c.row
        BY <2>2, <2>3 DEF lists!Listed
      <3>2. assets'[j] = assets[j]
        BY <1>6, <3>1
      <3> QED BY <2>3, <3>1, <3>2 DEF lists!Listed, ListedNext
    <2> QED BY <2>3
  <1> QED BY <1>1, <1>2, <1>5, <1>7, <1>8, CategoriesSame, FavouritesSame, OrderKept

\* A renamed category.
LEMMA Renamed ==
  ASSUME NEW x \in lists!Category
  PROVE  LET c == [x EXCEPT !.renamed = TRUE]
         IN  /\ c \in lists!Category /\ c # Null /\ c.user = x.user /\ c.section = x.section
             /\ c.default = x.default /\ c.place = x.place
  <1>1. Null \notin lists!Category
    BY ListsAssumption DEF lists!CatalogueAssumption
  <1> QED BY <1>1 DEF lists!Category

LEMMA RenameKeepsOrder ==
  ASSUME lists!CInv, NEW r \in ListRequests, lists!CommitRename(r)
  PROVE  lists!CInv'
  <1> USE DEF lists!CInv
  <1> DEFINE c == listCall[r]  n == [categories[c.row] EXCEPT !.renamed = TRUE]
  <1>1. /\ lists!AtCommit(r, "rename") /\ categories[c.row] # Null
        /\ categories' = [categories EXCEPT ![c.row] = n]
        /\ assets' = assets /\ favourite' = favourite
        /\ moved' = moved /\ disturbed' = disturbed /\ lists!End(r)
    BY DEF lists!CommitRename, lists!histories
  <1>2. /\ RequestsStay /\ groupOf' = groupOf /\ listBegun' = listBegun
        /\ listOverlapped' = listOverlapped
        /\ listPc' \in [ListRequests -> {"idle", "read", "commit"}]
        /\ listCall' \in [ListRequests -> lists!Call \cup {Null}]
    BY <1>1, EndsAre
  <1>3. c.row \in lists!CategoryIds /\ c.row \notin Registered \X Sections
    BY <1>1, CallTypes DEF lists!AtCommit, lists!InFlight, lists!Defaults
  <1>4. /\ n \in lists!Category /\ n # Null /\ n.user = categories[c.row].user
        /\ n.section = categories[c.row].section /\ n.place = categories[c.row].place
    BY <1>1, <1>3, RowTypes, Renamed
  <1> HIDE DEF n
  <1>5. categories' \in [lists!CategoryIds -> lists!Category \cup {Null}]
    BY <1>1, <1>4 DEF lists!TypeOK
  <1>6. lists!TypeOK'
    BY <1>1, <1>2, <1>5 DEF lists!TypeOK
  <1>7. categories'[c.row] = n
        /\ \A j \in lists!CategoryIds : j # c.row => categories'[j] = categories[j]
    BY <1>1, <1>3 DEF lists!TypeOK
  <1>8. CategoriesStay
    <2>1. \A j \in Registered \X Sections : j \in lists!CategoryIds /\ categories[j] # Null
      BY FiniteRows, ListsAssumption DEF lists!Defaults, lists!CatalogueAssumption
    <2> QED BY <1>1, <1>3, <1>4, <1>7, <2>1 DEF CategoriesStay
  <1> QED BY <1>1, <1>2, <1>6, <1>8, AssetsSame, FavouritesSame, OrderKept

LEMMA DropCategoryKeepsOrder ==
  ASSUME lists!CInv, NEW r \in ListRequests, lists!CommitDropCategory(r)
  PROVE  lists!CInv'
  <1> USE DEF lists!CInv
  <1> DEFINE c == listCall[r]
  <1>1. /\ lists!AtCommit(r, "dropCategory")
        /\ categories' = [categories EXCEPT ![c.row] = Null]
        /\ assets' = assets /\ favourite' = favourite
        /\ moved' = moved /\ disturbed' = disturbed /\ lists!End(r)
    BY DEF lists!CommitDropCategory, lists!histories
  <1>2. /\ RequestsStay /\ groupOf' = groupOf /\ listBegun' = listBegun
        /\ listOverlapped' = listOverlapped
        /\ listPc' \in [ListRequests -> {"idle", "read", "commit"}]
        /\ listCall' \in [ListRequests -> lists!Call \cup {Null}]
    BY <1>1, EndsAre
  <1>3. c.row \in lists!CategoryIds /\ c.row \notin Registered \X Sections
    BY <1>1, CallTypes DEF lists!AtCommit, lists!InFlight, lists!Defaults
  <1>4. categories' \in [lists!CategoryIds -> lists!Category \cup {Null}]
    BY <1>1 DEF lists!TypeOK
  <1>5. lists!TypeOK'
    BY <1>1, <1>2, <1>4 DEF lists!TypeOK
  <1>6. categories'[c.row] = Null
        /\ \A j \in lists!CategoryIds : j # c.row => categories'[j] = categories[j]
    BY <1>1, <1>3 DEF lists!TypeOK
  <1>7. CategoriesStay
    <2>1. \A j \in Registered \X Sections : j \in lists!CategoryIds /\ categories[j] # Null
      BY FiniteRows, ListsAssumption DEF lists!Defaults, lists!CatalogueAssumption
    <2> QED BY <1>3, <1>6, <2>1 DEF CategoriesStay
  <1> QED BY <1>1, <1>2, <1>5, <1>7, AssetsSame, FavouritesSame, OrderKept

-----------------------------------------------------------------------------
(* The steps that put something in a list.                                 *)

\* The number of a request in flight is no row's yet.
LEMMA NotTaken ==
  ASSUME lists!Shapes, NEW r \in ListRequests, lists!InFlight(r)
  PROVE  ~lists!Taken(<<listCall[r].no, Null>>)
  BY CallTypes DEF lists!Taken

\* A request that ends has given its number away.
LEMMA NowTaken ==
  ASSUME lists!TypeOK, lists!Shapes, lists!Numbers, NEW r \in ListRequests, lists!InFlight(r),
         lists!End(r),
         moved \subseteq moved', disturbed \subseteq disturbed', NEW i, i[1] = listCall[r].no
  PROVE  lists!Taken(i)'
  <1>1. /\ ~lists!InFlight(r)' /\ listBegun' = listBegun
        /\ \A q \in ListRequests : q # r => listPc'[q] = listPc[q]
           /\ listCall'[q] = listCall[q]
    BY EndsAre
  <1>2. listCall[r].no <= listBegun
    BY CallTypes
  <1>3. ASSUME NEW q \in ListRequests, lists!InFlight(q)'
        PROVE listCall'[q].no # listCall[r].no
    <2>1. q # r /\ listCall'[q] = listCall[q] /\ lists!InFlight(q)
      BY <1>1, <1>3 DEF lists!InFlight
    <2> QED BY <2>1 DEF lists!Numbers
  <1> QED BY <1>1, <1>2, <1>3 DEF lists!Taken

LEMMA AddAssetKeepsOrder ==
  ASSUME lists!CInv, NEW r \in ListRequests, lists!CommitAddAsset(r)
  PROVE  lists!CInv'
  <1> USE DEF lists!CInv
  <1> DEFINE c == listCall[r]
             a == [user |-> c.user,
                   group |-> IF c.sent # Null THEN c.sent
                             ELSE IF c.shared THEN c.group ELSE Null,
                   shared |-> c.shared, place |-> c.place]
  <1>0. PICK k : k = <<c.no, Null>>
    OBVIOUS
  <1>1. /\ lists!AtCommit(r, "addAsset") /\ assets' = [assets EXCEPT ![k] = a]
        /\ favourite' = favourite /\ categories' = categories
        /\ moved' = moved /\ disturbed' = disturbed /\ lists!End(r)
    BY <1>0 DEF lists!CommitAddAsset, lists!histories
  <1>2. lists!InFlight(r) /\ listPc[r] = "commit" /\ c.op = "addAsset" /\ lists!AddsAsset(r)
    BY <1>1 DEF lists!AtCommit, lists!InFlight, lists!AddsAsset
  <1>3. /\ RequestsStay /\ groupOf' = groupOf /\ listBegun' = listBegun
        /\ listOverlapped' = listOverlapped
        /\ listPc' \in [ListRequests -> {"idle", "read", "commit"}]
        /\ listCall' \in [ListRequests -> lists!Call \cup {Null}]
        /\ ~lists!InFlight(r)'
        /\ \A q \in ListRequests : q # r => listPc'[q] = listPc[q]
           /\ listCall'[q] = listCall[q]
    BY <1>1, EndsAre
  <1>4. /\ c.no \in lists!Ids /\ c.user \in Users /\ c.place \in Nat /\ c.shared \in BOOLEAN
        /\ c.group \in Groups \cup {Null} /\ c.sent \in Groups \cup {Null}
    BY <1>2, CallTypes
  <1>5. k \in lists!AssetIds /\ ~lists!Taken(k) /\ assets[k] = Null
    <2>1. k \in lists!AssetIds
      BY <1>0, <1>4, FiniteRows
    <2> QED BY <1>0, <1>2, <2>1, NotTaken DEF lists!Unborn
  <1>6. a \in lists!Asset /\ a # Null /\ a.user = c.user /\ a.place = c.place
    <2>1. a \in lists!Asset
      BY <1>4 DEF lists!Asset
    <2> QED BY <2>1, ListsAssumption DEF lists!CatalogueAssumption
  <1> HIDE DEF a
  <1>7. assets' \in [lists!AssetIds -> lists!Asset \cup {Null}]
    BY <1>1, <1>6 DEF lists!TypeOK
  <1>8. assets'[k] = a /\ \A i \in lists!AssetIds : i # k => assets'[i] = assets[i]
    BY <1>1, <1>5 DEF lists!TypeOK
  <1>9. lists!TypeOK'
    BY <1>1, <1>3, <1>7 DEF lists!TypeOK
  <1>10. lists!Shapes' /\ lists!Numbers' /\ lists!GroupKept'
    BY <1>3, RequestsKept
  <1>11. lists!Favourites'
    <2>1. FavouritesStay
      BY <1>1, FavouritesSame
    <2>2. \A q \in ListRequests : listPc'[q] = "commit" =>
              lists!InFlight(q) /\ listPc[q] = "commit" /\ listCall'[q] = listCall[q]
      BY <1>3 DEF lists!InFlight
    <2>3. CandidatesStay /\ \A i : lists!Taken(i) => lists!Taken(i)'
      BY <1>3, <2>2, CandidatesSame, TakenStays
    <2> QED BY <1>5, <1>8, <2>1, <2>3, FavouritesKept
  <1>12. /\ \A i \in lists!CategoryIds : categories'[i] # Null => lists!Taken(i)'
         /\ lists!Defaults' /\ lists!CategoriesBehind'
         /\ \A i, j \in lists!CategoryIds :
               /\ i # j /\ lists!Settled(i, j)'
               /\ categories'[i] # Null /\ categories'[j] # Null
               /\ categories'[i].user = categories'[j].user
               /\ categories'[i].section = categories'[j].section
               => categories'[i].place # categories'[j].place
         /\ \A i \in Registered \X Sections : categories'[i] # Null /\ ~categories'[i].renamed
    <2>1. CategoriesStay
      BY <1>1, <1>9, CategoriesSame
    <2> QED BY <1>3, <1>9, <2>1, CategoriesKept
  <1>13. lists!Unborn'
    <2>1. lists!Taken(k)'
      BY <1>0, <1>1, <1>2, NowTaken
    <2>2. ASSUME NEW i \in lists!AssetIds, assets'[i] # Null PROVE lists!Taken(i)'
      <3>1. CASE i = k
        BY <2>1, <3>1
      <3>2. CASE i # k
        BY <1>3, <1>8, <2>2, <3>2, TakenStays DEF lists!Unborn
      <3> QED BY <3>1, <3>2
    <2> QED BY <1>12, <2>2 DEF lists!Unborn
  <1>14. ASSUME NEW u, NEW g PROVE lists!Listed(u, g) \subseteq ListedNext(u, g)
    <2>1. ASSUME NEW i \in lists!Listed(u, g) PROVE i \in ListedNext(u, g)
      <3>1. i \in lists!AssetIds /\ i # k
        BY <1>5, <2>1 DEF lists!Listed
      <3> QED BY <1>8, <2>1, <3>1 DEF lists!Listed, ListedNext
    <2> QED BY <2>1
  <1>15. ListsGrow
    BY <1>14 DEF ListsGrow
  <1>16. ASSUME c.user \notin disturbed
         PROVE  a.place < LengthNext(c.user, groupOf[c.user])
    <2> DEFINE x == lists!Length(c.user, c.group)  y == LengthNext(c.user, groupOf[c.user])
    <2>1. c.place <= x
      BY <1>2, <1>16 DEF lists!AssetsBehind
    <2>2. c.group \in {Null, groupOf[c.user]}
      BY <1>2, <1>16 DEF lists!GroupKept
    <2>3. lists!Listed(c.user, c.group) \subseteq ListedNext(c.user, groupOf[c.user])
      BY <1>14, <2>2, OwnAreListed
    <2>4. k \in ListedNext(c.user, groupOf[c.user]) /\ k \notin lists!Listed(c.user, c.group)
      BY <1>5, <1>6, <1>8 DEF lists!Listed, ListedNext
    <2>5. x < y
      BY <2>3, <2>4, LengthGrows
    <2>6. x \in Nat /\ y \in Nat
      BY ListedIsFinite
    <2> HIDE DEF x, y
    <2>7. a.place < y
      BY <1>4, <1>6, <2>1, <2>5, <2>6
    <2> QED BY <2>7 DEF y
  <1>17. lists!AssetsBehind'
    <2>1. ASSUME NEW i \in lists!AssetIds, assets'[i] # Null, i \notin moved',
                 assets'[i].user \notin disturbed'
          PROVE  assets'[i].place < LengthNext(assets'[i].user, groupOf'[assets'[i].user])
      <3>1. CASE i = k
        BY <1>1, <1>3, <1>6, <1>8, <1>16, <2>1, <3>1
      <3>2. CASE i # k
        BY <1>3, <1>8, <1>15, <2>1, <3>2, RowStaysBelow
      <3> QED BY <3>1, <3>2
    <2>2. ASSUME NEW q \in ListRequests, lists!AddsAsset(q)',
                 listCall'[q].user \notin disturbed'
          PROVE  LET list == LengthNext(listCall'[q].user, listCall'[q].group)
                     place == IF listPc'[q] = "read" THEN list ELSE listCall'[q].place
                 IN  /\ place <= list
                     /\ \A i \in lists!AssetIds :
                           assets'[i] # Null /\ lists!Before(i, q)'
                           /\ assets'[i].user = listCall'[q].user => assets'[i].place < place
      <3>1. q # r /\ listCall'[q] = listCall[q] /\ lists!InFlight(q)
        BY <1>3, <2>2 DEF lists!AddsAsset, lists!InFlight
      <3>2. ~lists!Before(k, q)'
        <4>1. {c.no, listCall[q].no} \in listOverlapped
          BY <1>2, <3>1 DEF lists!Numbers
        <4> QED BY <1>0, <1>3, <3>1, <4>1 DEF lists!Before
      <3>3. \A i \in lists!AssetIds :
               assets'[i] # Null /\ lists!Before(i, q)'
                   /\ assets'[i].user = listCall'[q].user =>
                   /\ assets[i] # Null /\ assets[i].user = listCall[q].user
                   /\ assets'[i].place = assets[i].place
        BY <1>8, <3>1, <3>2
      <3> QED BY <1>3, <1>15, <2>2, <3>3, RequestStaysBehind
    <2>3. AssetsBehindNext
      BY <2>1, <2>2 DEF AssetsBehindNext
    <2> QED BY <2>3, AssetsBehindPrimed
  <1>18. ASSUME NEW i \in lists!AssetIds, NEW j \in lists!AssetIds, i # j,
                lists!Settled(i, j)',
                assets'[i] # Null, assets'[j] # Null,
                assets'[i].user = assets'[j].user, assets'[i].user \notin disturbed'
         PROVE  assets'[i].place # assets'[j].place
    <2>1. ASSUME NEW l \in lists!AssetIds, l # k, assets'[l] # Null, assets'[l].user = c.user,
                 c.user \notin disturbed, {l[1], c.no} \notin listOverlapped, l \notin moved
          PROVE  assets'[l].place < a.place /\ assets'[l].place \in Nat
      <3>1. assets[l] # Null /\ assets[l].user = c.user /\ assets'[l] = assets[l]
            /\ assets[l].place \in Nat
        BY <1>8, <2>1, RowTypes
      <3>2. lists!Before(l, r)
        BY <2>1 DEF lists!Before
      <3>3. assets[l].place < c.place
        BY <1>2, <2>1, <3>1, <3>2 DEF lists!AssetsBehind
      <3> QED BY <1>6, <3>1, <3>3
    <2>2. i \notin moved /\ j \notin moved /\ lists!Settled(i, j)
          /\ {i[1], j[1]} \notin listOverlapped
          /\ assets'[i].user \notin disturbed
      BY <1>1, <1>3, <1>18 DEF lists!Settled
    <2>3. CASE i = k
      <3>1. {j[1], c.no} \notin listOverlapped
        <4>1. {j[1], c.no} = {i[1], j[1]}
          BY <1>0, <2>3
        <4> QED BY <2>2, <4>1
      <3>2. assets'[j].place < a.place /\ assets'[j].place \in Nat
        BY <1>6, <1>8, <1>18, <2>1, <2>2, <2>3, <3>1
      <3> QED BY <1>4, <1>6, <1>8, <2>3, <3>2
    <2>4. CASE j = k
      <3>1. {i[1], c.no} \notin listOverlapped
        BY <1>0, <2>2, <2>4
      <3>2. assets'[i].place < a.place /\ assets'[i].place \in Nat
        BY <1>6, <1>8, <1>18, <2>1, <2>2, <2>4, <3>1
      <3> QED BY <1>4, <1>6, <1>8, <2>4, <3>2
    <2>5. CASE i # k /\ j # k
      <3>1. assets'[i] = assets[i] /\ assets'[j] = assets[j]
        BY <1>8, <2>5
      <3> QED BY <1>18, <2>2, <3>1 DEF lists!ListsInOrder
    <2> QED BY <2>3, <2>4, <2>5
  <1>19. lists!ListsInOrder'
    BY <1>11, <1>12, <1>18 DEF lists!ListsInOrder, lists!Favourites, lists!Usable
  <1> QED BY <1>9, <1>10, <1>11, <1>12, <1>13, <1>17, <1>19

LEMMA AddCategoryKeepsOrder ==
  ASSUME lists!CInv, NEW r \in ListRequests, lists!CommitAddCategory(r)
  PROVE  lists!CInv'
  <1> USE DEF lists!CInv
  <1> DEFINE c == listCall[r]
             a == [user |-> c.user, section |-> c.section, default |-> FALSE,
                   renamed |-> FALSE, place |-> c.place]
  <1>0. PICK k : k = <<c.no, Null>>
    OBVIOUS
  <1>1. /\ lists!AtCommit(r, "addCategory") /\ categories' = [categories EXCEPT ![k] = a]
        /\ favourite' = favourite /\ assets' = assets
        /\ moved' = moved /\ disturbed' = disturbed /\ lists!End(r)
    BY <1>0 DEF lists!CommitAddCategory, lists!histories
  <1>2. lists!InFlight(r) /\ listPc[r] = "commit" /\ c.op = "addCategory"
    BY <1>1 DEF lists!AtCommit, lists!InFlight
  <1>3. /\ RequestsStay /\ groupOf' = groupOf /\ listBegun' = listBegun
        /\ listOverlapped' = listOverlapped
        /\ listPc' \in [ListRequests -> {"idle", "read", "commit"}]
        /\ listCall' \in [ListRequests -> lists!Call \cup {Null}]
        /\ ~lists!InFlight(r)'
        /\ \A q \in ListRequests : q # r => listPc'[q] = listPc[q]
           /\ listCall'[q] = listCall[q]
    BY <1>1, EndsAre
  <1>4. c.no \in lists!Ids /\ c.user \in Users /\ c.place \in Nat /\ c.section \in Sections
    BY <1>2, CallTypes
  <1>5. /\ k \in lists!CategoryIds /\ k \notin Registered \X Sections
        /\ ~lists!Taken(k) /\ categories[k] = Null
    <2>1. k \in lists!CategoryIds /\ k \notin Registered \X Sections
      BY <1>0, <1>4, FiniteRows
    <2> QED BY <1>0, <1>2, <2>1, NotTaken DEF lists!Unborn
  <1>6. a \in lists!Category /\ a # Null /\ a.user = c.user /\ a.section = c.section
        /\ a.place = c.place
    <2>1. a \in lists!Category
      BY <1>4 DEF lists!Category
    <2> QED BY <2>1, ListsAssumption DEF lists!CatalogueAssumption
  <1> HIDE DEF a
  <1>7. categories' \in [lists!CategoryIds -> lists!Category \cup {Null}]
    BY <1>1, <1>6 DEF lists!TypeOK
  <1>8. categories'[k] = a /\ \A i \in lists!CategoryIds : i # k =>
        categories'[i] = categories[i]
    BY <1>1, <1>5 DEF lists!TypeOK
  <1>9. lists!TypeOK'
    BY <1>1, <1>3, <1>7 DEF lists!TypeOK
  <1>10. lists!Shapes' /\ lists!Numbers' /\ lists!GroupKept'
    BY <1>3, RequestsKept
  <1>11. /\ \A i \in lists!AssetIds : assets'[i] # Null => lists!Taken(i)'
         /\ lists!Favourites' /\ lists!AssetsBehind'
         /\ \A i, j \in lists!AssetIds :
               /\ i # j /\ lists!Settled(i, j)'
               /\ assets'[i] # Null /\ assets'[j] # Null
               /\ assets'[i].user = assets'[j].user /\ assets'[i].user \notin disturbed'
               => assets'[i].place # assets'[j].place
    <2>1. AssetsStay /\ ListsGrow /\ FavouritesStay
      BY <1>1, AssetsSame, FavouritesSame
    <2> QED BY <1>3, <2>1, AssetsKept, ListsKept
  <1>12. lists!Unborn'
    <2>1. lists!Taken(k)'
      BY <1>0, <1>1, <1>2, NowTaken
    <2>2. ASSUME NEW i \in lists!CategoryIds, categories'[i] # Null PROVE lists!Taken(i)'
      <3>1. CASE i = k
        BY <2>1, <3>1
      <3>2. CASE i # k
        BY <1>3, <1>8, <2>2, <3>2, TakenStays DEF lists!Unborn
      <3> QED BY <3>1, <3>2
    <2> QED BY <1>11, <2>2 DEF lists!Unborn
  <1>13. ASSUME NEW q \in ListRequests, listPc'[q] = "commit"
         PROVE  q # r /\ lists!InFlight(q) /\ listPc[q] = "commit"
                /\ listCall'[q] = listCall[q]
    BY <1>3, <1>13 DEF lists!InFlight
  <1>14. lists!Defaults'
    <2>1. \A i \in Registered \X Sections : i \in lists!CategoryIds
          /\ categories'[i] = categories[i]
      BY <1>5, <1>8, FiniteRows
    <2> QED BY <1>13, <2>1 DEF lists!Defaults
  <1>15. lists!CategoriesBehind'
    <2> SUFFICES ASSUME NEW q \in ListRequests, lists!AtCommit(q, "addCategory")',
                        NEW i \in lists!CategoryIds,
                        categories'[i] # Null, {i[1], listCall'[q].no} \notin listOverlapped',
                        i \notin moved',
                        categories'[i].user = listCall'[q].user,
                        categories'[i].section = listCall'[q].section
                 PROVE  categories'[i].place < listCall'[q].place
      BY DEF lists!CategoriesBehind, lists!Before
    <2>1. q # r /\ lists!InFlight(q) /\ listCall'[q] = listCall[q]
          /\ lists!AtCommit(q, "addCategory")
      BY <1>13 DEF lists!AtCommit
    <2>2. i # k
      <3>1. {c.no, listCall[q].no} \in listOverlapped
        BY <1>2, <2>1 DEF lists!Numbers
      <3> QED BY <1>0, <1>3, <2>1, <3>1
    <2>3. categories'[i] = categories[i] /\ lists!Before(i, q)
      BY <1>1, <1>3, <1>8, <2>1, <2>2 DEF lists!Before
    <2> QED BY <2>1, <2>3 DEF lists!CategoriesBehind
  <1>16. ASSUME NEW i \in lists!CategoryIds, NEW j \in lists!CategoryIds, i # j,
                lists!Settled(i, j)',
                categories'[i] # Null, categories'[j] # Null,
                categories'[i].user = categories'[j].user,
                categories'[i].section = categories'[j].section
         PROVE  categories'[i].place # categories'[j].place
    <2>1. ASSUME NEW l \in lists!CategoryIds, l # k, categories'[l] # Null,
                 categories'[l].user = c.user, categories'[l].section = c.section,
                 {l[1], c.no} \notin listOverlapped, l \notin moved
          PROVE  categories'[l].place < a.place /\ categories'[l].place \in Nat
      <3>1. /\ categories[l] # Null /\ categories[l].user = c.user
            /\ categories[l].section = c.section /\ categories'[l] = categories[l]
            /\ categories[l].place \in Nat
        BY <1>8, <2>1, RowTypes
      <3>2. lists!Before(l, r)
        BY <2>1 DEF lists!Before
      <3>3. categories[l].place < c.place
        BY <1>1, <3>1, <3>2 DEF lists!CategoriesBehind
      <3> QED BY <1>6, <3>1, <3>3
    <2>2. /\ i \notin moved /\ j \notin moved /\ lists!Settled(i, j)
          /\ {i[1], j[1]} \notin listOverlapped
      BY <1>1, <1>3, <1>16 DEF lists!Settled
    <2>3. CASE i = k
      <3>1. {j[1], c.no} \notin listOverlapped
        <4>1. {j[1], c.no} = {i[1], j[1]}
          BY <1>0, <2>3
        <4> QED BY <2>2, <4>1
      <3>2. categories'[j].place < a.place /\ categories'[j].place \in Nat
        BY <1>6, <1>8, <1>16, <2>1, <2>2, <2>3, <3>1
      <3> QED BY <1>4, <1>6, <1>8, <2>3, <3>2
    <2>4. CASE j = k
      <3>1. {i[1], c.no} \notin listOverlapped
        BY <1>0, <2>2, <2>4
      <3>2. categories'[i].place < a.place /\ categories'[i].place \in Nat
        BY <1>6, <1>8, <1>16, <2>1, <2>2, <2>4, <3>1
      <3> QED BY <1>4, <1>6, <1>8, <2>4, <3>2
    <2>5. CASE i # k /\ j # k
      <3>1. categories'[i] = categories[i] /\ categories'[j] = categories[j]
        BY <1>8, <2>5
      <3> QED BY <1>16, <2>2, <3>1 DEF lists!ListsInOrder
    <2> QED BY <2>3, <2>4, <2>5
  <1>17. \A i \in Registered \X Sections : categories'[i] # Null /\ ~categories'[i].renamed
    <2>1. \A i \in Registered \X Sections : i \in lists!CategoryIds
          /\ categories'[i] = categories[i]
      BY <1>5, <1>8, FiniteRows
    <2> QED BY <2>1 DEF lists!ListsInOrder
  <1>18. lists!ListsInOrder'
    BY <1>11, <1>16, <1>17 DEF lists!ListsInOrder, lists!Favourites, lists!Usable
  <1> QED BY <1>9, <1>10, <1>11, <1>12, <1>14, <1>15, <1>18

-----------------------------------------------------------------------------
(* Requests begin, and read.                                               *)

LEMMA RowsSame ==
  ASSUME UNCHANGED <<assets, categories, groupOf, moved, disturbed>>,
         listOverlapped \subseteq listOverlapped', lists!ListsInOrder, lists!Favourites',
             lists!TypeOK
  PROVE  lists!ListsInOrder'
  <1>1. \A i, j : lists!Settled(i, j)' => lists!Settled(i, j)
    BY DEF lists!Settled
  <1>2. \A u \in Users : favourite'[u] # Null /\ assets'[favourite'[u]] # Null =>
            assets'[favourite'[u]].user = u \/ assets'[favourite'[u]].shared
    BY DEF lists!Favourites, lists!Usable
  <1>3. /\ \A i, j \in lists!CategoryIds :
              /\ i # j /\ lists!Settled(i, j)'
              /\ categories'[i] # Null /\ categories'[j] # Null
              /\ categories'[i].user = categories'[j].user
              /\ categories'[i].section = categories'[j].section
              => categories'[i].place # categories'[j].place
        /\ \A i, j \in lists!AssetIds :
              /\ i # j /\ lists!Settled(i, j)'
              /\ assets'[i] # Null /\ assets'[j] # Null
              /\ assets'[i].user = assets'[j].user /\ assets'[i].user \notin disturbed'
              => assets'[i].place # assets'[j].place
        /\ \A i \in Registered \X Sections : categories'[i] # Null /\ ~categories'[i].renamed
    BY <1>1 DEF lists!ListsInOrder
  <1> QED BY <1>2, <1>3 DEF lists!ListsInOrder

LEMMA BeginKeepsOrder ==
  ASSUME lists!CInv, NEW r \in ListRequests, NEW op \in lists!Ops, NEW u \in Users,
         NEW row \in lists!AssetIds \cup lists!CategoryIds \cup {Null},
             NEW section \in Sections \cup {Null},
         NEW shared \in BOOLEAN, NEW sent \in Groups \cup {Null},
         op \in {"dropAsset", "favour"} => row \in lists!AssetIds,
         op \in {"rename", "dropCategory"} => row \in lists!CategoryIds,
         op = "addCategory" => section \in Sections,
         lists!Begin(r, op, u, row, section, shared, sent)
  PROVE  lists!CInv'
  <1> USE DEF lists!CInv
  <1> DEFINE c == [op |-> op, no |-> listBegun + 1, user |-> u, row |-> row, group |-> groupOf[u],
                   section |-> section, shared |-> shared, sent |-> sent, place |-> 0]
             o == {{listCall[q].no, listBegun + 1} :
                      q \in {q \in ListRequests : listPc[q] # "idle"}}
  <1>1. /\ listPc[r] = "idle" /\ listBegun < MaxListRequests /\ listBegun' = listBegun + 1
        /\ listCall' = [listCall EXCEPT ![r] = c] /\ listOverlapped' = listOverlapped \cup o
        /\ listPc' = [listPc EXCEPT ![r] = "read"]
        /\ assets' = assets /\ favourite' = favourite /\ categories' = categories
        /\ groupOf' = groupOf /\ moved' = moved /\ disturbed' = disturbed
    BY DEF lists!Begin, lists!Goto, lists!rows, lists!histories
  <1>2. /\ listBegun \in Nat /\ MaxListRequests \in Nat /\ listBegun' \in 0 .. MaxListRequests
        /\ listBegun + 1 \in lists!Ids
    <2>1. listBegun \in 0 .. MaxListRequests /\ MaxListRequests \in Nat
      BY ListsAssumption DEF lists!TypeOK, lists!CatalogueAssumption
    <2> QED BY <1>1, <2>1 DEF lists!Ids
  <1>3. c \in lists!Call
    <2>1. groupOf[u] \in Groups \cup {Null}
      BY DEF lists!TypeOK
    <2> QED BY <1>2, <2>1 DEF lists!Call
  <1>4. c.op = op /\ c.no = listBegun + 1 /\ c.user = u /\ c.row = row /\ c.group = groupOf[u]
        /\ c.section = section
    OBVIOUS
  <1> HIDE DEF c
  <1>5. /\ listCall' \in [ListRequests -> lists!Call \cup {Null}]
        /\ listPc' \in [ListRequests -> {"idle", "read", "commit"}]
        /\ listCall'[r] = c /\ listPc'[r] = "read"
        /\ \A q \in ListRequests : q # r => listCall'[q] = listCall[q]
           /\ listPc'[q] = listPc[q]
    BY <1>1, <1>3 DEF lists!TypeOK
  <1>6. ASSUME NEW q \in ListRequests, lists!InFlight(q)
        PROVE  /\ q # r /\ listCall[q].no \in lists!Ids /\ listCall[q].no <= listBegun
               /\ listCall[q].no # listBegun + 1
               /\ {listCall[q].no, listBegun + 1} \in listOverlapped'
    <2>1. q # r /\ listCall[q].no \in lists!Ids /\ listCall[q].no <= listBegun
      BY <1>1, <1>6, CallTypes DEF lists!InFlight
    <2>2. {listCall[q].no, listBegun + 1} \in o
      BY <1>6 DEF lists!InFlight
    <2> HIDE DEF o
    <2>3. listCall[q].no # listBegun + 1
      BY <1>2, <2>1 DEF lists!Ids
    <2> QED BY <1>1, <2>1, <2>2, <2>3
  <1>7. listOverlapped \subseteq listOverlapped' /\ listOverlapped' \subseteq SUBSET lists!Ids
    <2>1. o \subseteq SUBSET lists!Ids
      BY <1>2, <1>6 DEF lists!InFlight
    <2> HIDE DEF o
    <2> QED BY <1>1, <2>1 DEF lists!TypeOK
  <1> HIDE DEF o
  <1>8. lists!TypeOK'
    BY <1>1, <1>2, <1>5, <1>7 DEF lists!TypeOK
  <1>9. ASSUME NEW q \in ListRequests, lists!InFlight(q)', q # r
        PROVE  lists!InFlight(q) /\ listCall'[q] = listCall[q] /\ listPc'[q] = listPc[q]
    BY <1>5, <1>9 DEF lists!InFlight
  <1>10. lists!Shapes'
    <2> SUFFICES ASSUME NEW q \in ListRequests, lists!InFlight(q)'
                 PROVE  /\ listCall'[q] \in lists!Call /\ listCall'[q].no <= listBegun'
                        /\ listCall'[q].op \in {"dropAsset", "favour"} =>
                           listCall'[q].row \in lists!AssetIds
                        /\ listCall'[q].op \in {"rename", "dropCategory"} =>
                              listCall'[q].row \in lists!CategoryIds
                        /\ listCall'[q].op = "addCategory" =>
                           listCall'[q].section \in Sections
      BY DEF lists!Shapes
    <2>1. CASE q = r
      BY <1>1, <1>2, <1>3, <1>4, <1>5, <2>1
    <2>2. CASE q # r
      <3>1. lists!InFlight(q) /\ listCall'[q] = listCall[q] /\ listCall[q].no \in lists!Ids
            /\ listCall[q].no <= listBegun
        BY <1>6, <1>9, <2>2
      <3>2. listCall[q].no <= listBegun'
        BY <1>1, <1>2, <3>1 DEF lists!Ids
      <3> QED BY <3>1, <3>2, CallTypes
    <2> QED BY <2>1, <2>2
  <1>11. lists!Numbers'
    <2> SUFFICES ASSUME NEW p \in ListRequests, NEW q \in ListRequests, p # q,
                        lists!InFlight(p)', lists!InFlight(q)'
                 PROVE  /\ listCall'[p].no # listCall'[q].no
                        /\ {listCall'[p].no, listCall'[q].no} \in listOverlapped'
      BY DEF lists!Numbers
    <2>1. CASE p = r
      <3>1. lists!InFlight(q) /\ listCall'[q] = listCall[q] /\ listCall'[p].no = listBegun + 1
        BY <1>4, <1>5, <1>9, <2>1
      <3>2. {listBegun + 1, listCall[q].no} = {listCall[q].no, listBegun + 1}
        OBVIOUS
      <3> QED BY <1>6, <3>1, <3>2
    <2>2. CASE q = r
      <3>1. lists!InFlight(p) /\ listCall'[p] = listCall[p] /\ listCall'[q].no = listBegun + 1
        BY <1>4, <1>5, <1>9, <2>2
      <3> QED BY <1>6, <3>1
    <2>3. CASE p # r /\ q # r
      <3>1. lists!InFlight(p) /\ listCall'[p] = listCall[p] /\ lists!InFlight(q)
            /\ listCall'[q] = listCall[q]
        BY <1>9, <2>3
      <3> QED BY <1>7, <3>1 DEF lists!Numbers
    <2> QED BY <2>1, <2>2, <2>3
  <1>12. ASSUME NEW i, lists!Taken(i) PROVE lists!Taken(i)'
    <2> SUFFICES ASSUME i[1] \in lists!Ids
                 PROVE  /\ i[1] <= listBegun'
                        /\ \A q \in ListRequests : lists!InFlight(q)' =>
                           listCall'[q].no # i[1]
      BY DEF lists!Taken
    <2>1. i[1] <= listBegun /\ i[1] \in Int
      BY <1>12 DEF lists!Taken, lists!Ids
    <2>2. i[1] <= listBegun' /\ listBegun + 1 # i[1]
      BY <1>1, <1>2, <2>1
    <2>3. ASSUME NEW q \in ListRequests, lists!InFlight(q)' PROVE listCall'[q].no # i[1]
      <3>1. CASE q = r
        BY <1>4, <1>5, <2>2, <3>1
      <3>2. CASE q # r
        BY <1>9, <1>12, <2>3, <3>2 DEF lists!Taken
      <3> QED BY <3>1, <3>2
    <2> QED BY <2>2, <2>3
  <1>13. lists!Unborn'
    BY <1>1, <1>12 DEF lists!Unborn
  <1>14. ASSUME NEW q \in ListRequests, listPc'[q] = "commit"
         PROVE  lists!InFlight(q) /\ listPc[q] = "commit" /\ listCall'[q] = listCall[q]
    BY <1>5, <1>14 DEF lists!InFlight
  <1>15. lists!Defaults'
    BY <1>1, <1>14 DEF lists!Defaults
  <1>16. lists!Favourites'
    <2>1. FavouritesStay /\ CandidatesStay
      BY <1>1, <1>14, FavouritesSame, CandidatesSame
    <2> QED BY <1>1, <1>12, <2>1, FavouritesKept
  <1>17. lists!CategoriesBehind'
    <2> SUFFICES ASSUME NEW q \in ListRequests, lists!AtCommit(q, "addCategory")',
                        NEW i \in lists!CategoryIds,
                        categories'[i] # Null, {i[1], listCall'[q].no} \notin listOverlapped',
                        i \notin moved',
                        categories'[i].user = listCall'[q].user,
                        categories'[i].section = listCall'[q].section
                 PROVE  categories'[i].place < listCall'[q].place
      BY DEF lists!CategoriesBehind, lists!Before
    <2>1. lists!InFlight(q) /\ listCall'[q] = listCall[q] /\ lists!AtCommit(q, "addCategory")
      BY <1>14 DEF lists!AtCommit
    <2>2. lists!Before(i, q)
      BY <1>1, <1>7, <2>1 DEF lists!Before
    <2> QED BY <1>1, <2>1, <2>2 DEF lists!CategoriesBehind
  <1>18. lists!GroupKept'
    <2> SUFFICES ASSUME NEW q \in ListRequests, lists!InFlight(q)',
                        listCall'[q].user \notin disturbed'
                 PROVE  listCall'[q].group \in {Null, groupOf'[listCall'[q].user]}
      BY DEF lists!GroupKept
    <2>1. CASE q = r
      BY <1>1, <1>4, <1>5, <2>1
    <2>2. CASE q # r
      <3>1. lists!InFlight(q) /\ listCall'[q] = listCall[q]
        BY <1>9, <2>2
      <3> QED BY <1>1, <3>1 DEF lists!GroupKept
    <2> QED BY <2>1, <2>2
  <1>19. lists!AssetsBehind'
    <2>0. \A v, g : LengthNext(v, g) = lists!Length(v, g) /\ lists!Length(v, g) \in Nat
      BY <1>1, AssetsSame, ListedIsFinite DEF lists!Length, LengthNext
    <2>1. ASSUME NEW i \in lists!AssetIds, assets'[i] # Null, i \notin moved',
                 assets'[i].user \notin disturbed'
          PROVE  assets'[i].place < LengthNext(assets'[i].user, groupOf'[assets'[i].user])
      BY <1>1, <2>0, <2>1 DEF lists!AssetsBehind
    <2>2. ASSUME NEW q \in ListRequests, lists!AddsAsset(q)',
                 listCall'[q].user \notin disturbed'
          PROVE  LET list == LengthNext(listCall'[q].user, listCall'[q].group)
                     place == IF listPc'[q] = "read" THEN list ELSE listCall'[q].place
                 IN  /\ place <= list
                     /\ \A i \in lists!AssetIds :
                           assets'[i] # Null /\ lists!Before(i, q)'
                           /\ assets'[i].user = listCall'[q].user => assets'[i].place < place
      <3>1. CASE q = r
        <4>1. /\ listCall'[q].user = u /\ listCall'[q].group = groupOf[u]
              /\ listPc'[q] = "read"
              /\ u \notin disturbed
          BY <1>1, <1>4, <1>5, <2>2, <3>1
        <4>2. \A i \in lists!AssetIds :
                 assets[i] # Null /\ i \notin moved /\ assets[i].user = u =>
                     assets[i].place < lists!Length(u, groupOf[u])
          BY <4>1 DEF lists!AssetsBehind
        <4>3. \A i \in lists!AssetIds :
                 assets'[i] # Null /\ lists!Before(i, q)'
                     /\ assets'[i].user = listCall'[q].user =>
                     assets'[i].place < LengthNext(listCall'[q].user, listCall'[q].group)
          BY <1>1, <2>0, <4>1, <4>2 DEF lists!Before
        <4>4. LengthNext(listCall'[q].user, listCall'[q].group) \in Nat
          BY <2>0
        <4> QED BY <4>1, <4>3, <4>4
      <3>2. CASE q # r
        <4>1. lists!InFlight(q) /\ lists!AddsAsset(q) /\ listCall'[q] = listCall[q]
              /\ listPc'[q] = listPc[q]
          BY <1>9, <2>2, <3>2 DEF lists!AddsAsset
        <4>2. \A i : lists!Before(i, q)' => lists!Before(i, q)
          BY <1>1, <1>7, <4>1 DEF lists!Before
        <4> DEFINE list == lists!Length(listCall[q].user, listCall[q].group)
                   place == IF listPc[q] = "read" THEN list ELSE listCall[q].place
        <4>3. /\ place <= list
              /\ \A i \in lists!AssetIds :
                    assets[i] # Null /\ lists!Before(i, q)
                        /\ assets[i].user = listCall[q].user =>
                        assets[i].place < place
          BY <1>1, <2>2, <4>1 DEF lists!AssetsBehind
        <4>4. LengthNext(listCall'[q].user, listCall'[q].group) = list
          BY <2>0, <4>1
        <4> HIDE DEF list
        <4> QED BY <1>1, <4>1, <4>2, <4>3, <4>4
      <3> QED BY <3>1, <3>2
    <2>3. AssetsBehindNext
      BY <2>1, <2>2 DEF AssetsBehindNext
    <2> QED BY <2>3, AssetsBehindPrimed
  <1>20. lists!ListsInOrder'
    BY <1>1, <1>7, <1>16, RowsSame
  <1> QED BY <1>8, <1>10, <1>11, <1>13, <1>15, <1>16, <1>17, <1>18, <1>19, <1>20

\* A read: the request goes on with what it has found.
LEMMA ReadKeepsOrder ==
  ASSUME lists!CInv, NEW r \in ListRequests, listPc[r] = "read",
         listPc' = [listPc EXCEPT ![r] = "commit"],
         NEW n \in Nat, NEW c \in lists!Call, listCall' = [listCall EXCEPT ![r] = c],
         c.op = listCall[r].op, c.no = listCall[r].no, c.user = listCall[r].user,
             c.row = listCall[r].row,
         c.group = listCall[r].group, c.section = listCall[r].section, c.place = n,
         c.op = "addAsset" => n = lists!Length(c.user, c.group),
         c.op = "addCategory" =>
             \A i \in InSection(c.user, c.section) : categories[i].place < n,
         c.op = "favour" => lists!Usable(c.row, c.user),
         c.op \in {"rename", "dropCategory"} => c.row \notin Registered \X Sections,
         UNCHANGED <<lists!rows, groupOf, lists!known, lists!histories>>
  PROVE  lists!CInv'
  <1> USE DEF lists!CInv
  <1>1. /\ assets' = assets /\ favourite' = favourite /\ categories' = categories
        /\ groupOf' = groupOf /\ moved' = moved /\ disturbed' = disturbed
        /\ listBegun' = listBegun /\ listOverlapped' = listOverlapped
    BY DEF lists!rows, lists!histories, lists!known
  <1>2. /\ listCall' \in [ListRequests -> lists!Call \cup {Null}]
        /\ listPc' \in [ListRequests -> {"idle", "read", "commit"}]
        /\ listCall'[r] = c /\ listPc'[r] = "commit" /\ lists!InFlight(r)
        /\ \A q \in ListRequests : q # r => listCall'[q] = listCall[q]
           /\ listPc'[q] = listPc[q]
    BY DEF lists!TypeOK, lists!InFlight
  <1>3. lists!TypeOK'
    BY <1>1, <1>2 DEF lists!TypeOK
  <1>4. ASSUME NEW q \in ListRequests, lists!InFlight(q)'
        PROVE  /\ lists!InFlight(q) /\ listCall'[q].op = listCall[q].op
               /\ listCall'[q].no = listCall[q].no
               /\ listCall'[q].user = listCall[q].user /\ listCall'[q].row = listCall[q].row
               /\ listCall'[q].group = listCall[q].group
                  /\ listCall'[q].section = listCall[q].section
               /\ listCall'[q] \in lists!Call
    <2>1. lists!InFlight(q)
      BY <1>2, <1>4 DEF lists!InFlight
    <2>2. listCall[q] \in lists!Call
      BY <2>1, CallTypes
    <2> QED BY <1>2, <2>1, <2>2
  <1>5. lists!Shapes' /\ lists!Numbers' /\ lists!GroupKept'
    <2>1. lists!Shapes'
      BY <1>1, <1>4 DEF lists!Shapes
    <2>2. lists!Numbers'
      BY <1>1, <1>4 DEF lists!Numbers
    <2>3. lists!GroupKept'
      BY <1>1, <1>4 DEF lists!GroupKept
    <2> QED BY <2>1, <2>2, <2>3
  <1>6. ASSUME NEW i, lists!Taken(i) PROVE lists!Taken(i)'
    BY <1>1, <1>4, <1>6 DEF lists!Taken
  <1>7. lists!Unborn'
    BY <1>1, <1>6 DEF lists!Unborn
  <1>8. lists!Defaults'
    <2>1. ASSUME NEW q \in ListRequests, listPc'[q] = "commit",
                 listCall'[q].op \in {"rename", "dropCategory"}
          PROVE  listCall'[q].row \notin Registered \X Sections
      <3>1. CASE q = r
        BY <1>2, <2>1, <3>1
      <3>2. CASE q # r
        BY <1>2, <2>1, <3>2 DEF lists!Defaults
      <3> QED BY <3>1, <3>2
    <2> QED BY <1>1, <2>1 DEF lists!Defaults
  <1>9. lists!Favourites'
    <2>1. CandidatesStay
      <3> SUFFICES ASSUME NEW q \in ListRequests, lists!AtCommit(q, "favour")'
                   PROVE  listCall'[q].row \in lists!AssetIds
                          /\ lists!Usable(listCall'[q].row, listCall'[q].user)
        BY DEF CandidatesStay
      <3>1. CASE q = r
        <4>1. c.op = "favour"
          BY <1>2, <3>1 DEF lists!AtCommit
        <4>2. c.row \in lists!AssetIds
          <5>1. lists!Shapes /\ lists!InFlight(r) /\ listCall[r].op = "favour"
            BY <1>2, <4>1
          <5>2. listCall[r].row \in lists!AssetIds
            BY ONLY <5>1, CallTypes
          <5> QED BY <5>2
        <4>3. lists!Usable(c.row, c.user)
          BY <4>1
        <4>4. listCall'[q] = c
          BY <1>2, <3>1
        <4> QED BY ONLY <4>2, <4>3, <4>4
      <3>2. CASE q # r
        <4>1. lists!InFlight(q) /\ lists!AtCommit(q, "favour") /\ listCall'[q] = listCall[q]
          BY <1>2, <3>2 DEF lists!AtCommit, lists!InFlight
        <4>2. listCall[q].row \in lists!AssetIds
              /\ lists!Usable(listCall[q].row, listCall[q].user)
          BY <4>1, CallTypes DEF lists!Favourites, lists!AtCommit
        <4> QED BY <4>1, <4>2
      <3> QED BY <3>1, <3>2
    <2>2. FavouritesStay
      BY <1>1, FavouritesSame
    <2> QED BY <1>1, <1>6, <2>1, <2>2, FavouritesKept
  <1>10. lists!CategoriesBehind'
    <2> SUFFICES ASSUME NEW q \in ListRequests, lists!AtCommit(q, "addCategory")',
                        NEW i \in lists!CategoryIds,
                        categories'[i] # Null, {i[1], listCall'[q].no} \notin listOverlapped',
                        i \notin moved',
                        categories'[i].user = listCall'[q].user,
                        categories'[i].section = listCall'[q].section
                 PROVE  categories'[i].place < listCall'[q].place
      BY DEF lists!CategoriesBehind, lists!Before
    <2>1. CASE q = r
      <3>1. c.op = "addCategory" /\ i \in InSection(c.user, c.section)
        BY <1>1, <1>2, <2>1 DEF lists!AtCommit, InSection
      <3> QED BY <1>1, <1>2, <2>1, <3>1
    <2>2. CASE q # r
      <3>1. listCall'[q] = listCall[q] /\ lists!AtCommit(q, "addCategory")
        BY <1>2, <2>2 DEF lists!AtCommit
      <3>2. lists!Before(i, q)
        <4>0. {i[1], listCall'[q].no} \notin listOverlapped' /\ i \notin moved'
          OBVIOUS
        <4>1. {i[1], listCall[q].no} \notin listOverlapped /\ i \notin moved
          BY ONLY <1>1, <3>1, <4>0
        <4> QED BY <4>1 DEF lists!Before
      <3> QED BY <1>1, <3>1, <3>2 DEF lists!CategoriesBehind
    <2> QED BY <2>1, <2>2
  <1>11. lists!AssetsBehind'
    <2>0. \A v, g : LengthNext(v, g) = lists!Length(v, g) /\ lists!Length(v, g) \in Nat
      BY <1>1, AssetsSame, ListedIsFinite DEF lists!Length, LengthNext
    <2>1. ASSUME NEW i \in lists!AssetIds, assets'[i] # Null, i \notin moved',
                 assets'[i].user \notin disturbed'
          PROVE  assets'[i].place < LengthNext(assets'[i].user, groupOf'[assets'[i].user])
      BY <1>1, <2>0, <2>1 DEF lists!AssetsBehind
    <2>2. ASSUME NEW q \in ListRequests, lists!AddsAsset(q)',
                 listCall'[q].user \notin disturbed'
          PROVE  LET list == LengthNext(listCall'[q].user, listCall'[q].group)
                     place == IF listPc'[q] = "read" THEN list ELSE listCall'[q].place
                 IN  /\ place <= list
                     /\ \A i \in lists!AssetIds :
                           assets'[i] # Null /\ lists!Before(i, q)'
                           /\ assets'[i].user = listCall'[q].user => assets'[i].place < place
      <3> DEFINE list == lists!Length(listCall[q].user, listCall[q].group)
                 place == IF listPc[q] = "read" THEN list ELSE listCall[q].place
                 placeNext == IF listPc'[q] = "read" THEN list ELSE listCall'[q].place
      <3>1. /\ lists!InFlight(q) /\ lists!AddsAsset(q) /\ listCall'[q].user = listCall[q].user
            /\ listCall'[q].group = listCall[q].group /\ listCall'[q].no = listCall[q].no
        BY <1>4, <2>2 DEF lists!AddsAsset
      <3>2. \A i : lists!Before(i, q)' => lists!Before(i, q)
        BY ONLY <1>1, <3>1 DEF lists!Before
      <3>3. /\ place <= list
            /\ \A i \in lists!AssetIds :
                  assets[i] # Null /\ lists!Before(i, q)
                      /\ assets[i].user = listCall[q].user =>
                      assets[i].place < place
        BY <1>1, <2>2, <3>1 DEF lists!AssetsBehind
      <3>4. placeNext = place
        <4>1. CASE q = r
          <5>1. n = list
            BY <3>1, <4>1 DEF lists!AddsAsset
          <5> HIDE DEF list
          <5> QED BY <1>2, <4>1, <5>1
        <4>2. CASE q # r
          BY <1>2, <4>2
        <4> QED BY <4>1, <4>2
      <3>5. LengthNext(listCall'[q].user, listCall'[q].group) = list
        BY <2>0, <3>1
      <3> HIDE DEF list, place
      <3>6. placeNext <= list /\ \A i \in lists!AssetIds :
               assets'[i] # Null /\ lists!Before(i, q)'
                   /\ assets'[i].user = listCall'[q].user =>
                   assets'[i].place < placeNext
        BY <1>1, <3>1, <3>2, <3>3, <3>4
      <3> QED BY <3>5, <3>6
    <2>3. AssetsBehindNext
      BY <2>1, <2>2 DEF AssetsBehindNext
    <2> QED BY <2>3, AssetsBehindPrimed
  <1>12. lists!ListsInOrder'
    BY <1>1, <1>9, RowsSame
  <1> QED BY <1>3, <1>5, <1>7, <1>8, <1>9, <1>10, <1>11, <1>12

LEMMA ReadForAddKeepsOrder ==
  ASSUME lists!CInv, NEW r \in ListRequests, lists!ReadForAdd(r)
  PROVE  lists!CInv'
  <1> USE DEF lists!CInv
  <1> DEFINE c == listCall[r]
  <1>1. PICK n : /\ listPc[r] = "read" /\ listPc' = [listPc EXCEPT ![r] = "commit"]
                 /\ listCall' = [listCall EXCEPT ![r] = [c EXCEPT !.place = n]]
                 /\ UNCHANGED <<lists!rows, groupOf, lists!known, lists!histories>>
                 /\ \/ c.op = "addAsset" /\ n = lists!Length(c.user, c.group)
                    \/ c.op = "addCategory" /\ n = lists!NextPlace(c.user, c.section)
    BY DEF lists!ReadForAdd, lists!Goto, lists!Length
  <1>2. n \in Nat
    BY <1>1, ListedIsFinite, NextPlaceIs
  <1>3. c \in lists!Call
    BY <1>1, CallTypes DEF lists!InFlight
  <1>4. PICK d : d = [c EXCEPT !.place = n]
    OBVIOUS
  <1>5. /\ d \in lists!Call /\ d.op = c.op /\ d.no = c.no /\ d.user = c.user /\ d.row = c.row
        /\ d.group = c.group /\ d.section = c.section /\ d.place = n
    BY <1>2, <1>3, <1>4 DEF lists!Call
  <1>6. listCall' = [listCall EXCEPT ![r] = d]
    BY <1>1, <1>4
  <1>7. /\ d.op = "addAsset" => n = lists!Length(d.user, d.group)
        /\ d.op = "addCategory" =>
              \A i \in InSection(d.user, d.section) : categories[i].place < n
        /\ d.op \in {"addAsset", "addCategory"}
    BY <1>1, <1>5, NextPlaceIs
  <1> HIDE DEF c
  <1> QED BY <1>1, <1>2, <1>5, <1>6, <1>7, ReadKeepsOrder DEF c

LEMMA ReadRowKeepsOrder ==
  ASSUME lists!CInv, NEW r \in ListRequests, lists!ReadRow(r)
  PROVE  lists!CInv'
  <1> USE DEF lists!CInv
  <1>1. PICK c : c = listCall[r]
    OBVIOUS
  <1>2. /\ listPc[r] = "read" /\ listPc' = [listPc EXCEPT ![r] = "commit"]
        /\ listCall' = listCall
        /\ c.op \in {"dropAsset", "favour", "rename", "dropCategory"} /\ lists!Admits(c)
        /\ UNCHANGED <<lists!rows, groupOf, lists!known, lists!histories>>
    BY <1>1 DEF lists!ReadRow, lists!Goto
  <1>3. c \in lists!Call /\ c.place \in Nat
    BY <1>1, <1>2, CallTypes DEF lists!InFlight
  <1>4. listCall' = [listCall EXCEPT ![r] = c]
    BY <1>1, <1>2 DEF lists!TypeOK
  <1>5. c.op = "favour" => lists!Usable(c.row, c.user)
    <2> SUFFICES ASSUME c.op = "favour" PROVE lists!Usable(c.row, c.user)
      OBVIOUS
    <2>1. c.row \in lists!AssetIds
      BY <1>1, <1>2, CallTypes DEF lists!InFlight
    <2>2. assets[c.row] # Null /\ lists!Permitted(c, assets[c.row])
      BY <1>2 DEF lists!Admits
    <2> QED BY <2>1, <2>2 DEF lists!Permitted, lists!Usable, lists!Unborn
  <1>6. c.op \in {"rename", "dropCategory"} => c.row \notin Registered \X Sections
    BY <1>2 DEF lists!Admits, lists!Defaults
  <1> QED BY <1>1, <1>2, <1>3, <1>4, <1>5, <1>6, ReadKeepsOrder

LEMMA ArriveKeepsOrder ==
  ASSUME lists!CInv, NEW r \in ListRequests, lists!Arrive(r)
  PROVE  lists!CInv'
  <1>1. PICK u \in Users :
           \/ \E shared \in BOOLEAN, sent \in Groups \cup {Null} :
                 lists!BeginAddAsset(r, u, shared, sent)
           \/ \E i \in lists!AssetIds : lists!BeginDropAsset(r, u, i) \/ lists!BeginFavour(r, u, i)
           \/ \E section \in Sections : lists!BeginAddCategory(r, u, section)
           \/ \E i \in lists!CategoryIds :
                 lists!BeginRename(r, u, i) \/ lists!BeginDropCategory(r, u, i)
    BY DEF lists!Arrive
  <1>2. ASSUME NEW shared \in BOOLEAN, NEW sent \in Groups \cup {Null},
               lists!BeginAddAsset(r, u, shared, sent) PROVE lists!CInv'
    <2>1. lists!Begin(r, "addAsset", u, Null, Null, shared, sent)
      BY <1>2 DEF lists!BeginAddAsset
    <2>2. "addAsset" \in lists!Ops
      BY DEF lists!Ops
    <2> QED BY <2>1, <2>2, BeginKeepsOrder
  <1>3. ASSUME NEW i \in lists!AssetIds,
               lists!BeginDropAsset(r, u, i) \/ lists!BeginFavour(r, u, i) PROVE lists!CInv'
    <2>1. \/ lists!Begin(r, "dropAsset", u, i, Null, FALSE, Null)
          \/ lists!Begin(r, "favour", u, i, Null, FALSE, Null)
      BY <1>3 DEF lists!BeginDropAsset, lists!BeginFavour, lists!BeginChange
    <2>2. "dropAsset" \in lists!Ops /\ "favour" \in lists!Ops
      BY DEF lists!Ops
    <2> QED BY <2>1, <2>2, BeginKeepsOrder
  <1>4. ASSUME NEW section \in Sections, lists!BeginAddCategory(r, u, section)
        PROVE lists!CInv'
    <2>1. lists!Begin(r, "addCategory", u, Null, section, FALSE, Null)
      BY <1>4 DEF lists!BeginAddCategory
    <2>2. "addCategory" \in lists!Ops
      BY DEF lists!Ops
    <2> QED BY <2>1, <2>2, BeginKeepsOrder
  <1>5. ASSUME NEW i \in lists!CategoryIds,
               lists!BeginRename(r, u, i) \/ lists!BeginDropCategory(r, u, i)
        PROVE  lists!CInv'
    <2>1. \/ lists!Begin(r, "rename", u, i, Null, FALSE, Null)
          \/ lists!Begin(r, "dropCategory", u, i, Null, FALSE, Null)
      BY <1>5 DEF lists!BeginRename, lists!BeginDropCategory, lists!BeginChange
    <2>2. "rename" \in lists!Ops /\ "dropCategory" \in lists!Ops
      BY DEF lists!Ops
    <2> QED BY <2>1, <2>2, BeginKeepsOrder
  <1> QED BY <1>1, <1>2, <1>3, <1>4, <1>5

LEMMA NextKeepsOrder ==
  ASSUME lists!CInv, [lists!Next]_(lists!vars)
  PROVE  lists!CInv'
  <1>1. ASSUME NEW r \in ListRequests, lists!Arrive(r) PROVE lists!CInv'
    BY <1>1, ArriveKeepsOrder
  <1>2. ASSUME NEW r \in ListRequests, lists!Execute(r) PROVE lists!CInv'
    BY <1>2, ReadForAddKeepsOrder, ReadRowKeepsOrder, AddAssetKeepsOrder, DropAssetKeepsOrder,
       FavourKeepsOrder, AddCategoryKeepsOrder, RenameKeepsOrder, DropCategoryKeepsOrder
       DEF lists!Execute
  <1>3. ASSUME NEW r \in ListRequests, lists!Refuse(r) \/ lists!Crash(r) PROVE lists!CInv'
    BY <1>3, RollbackKeepsOrder DEF lists!Refuse, lists!Crash
  <1>4. ASSUME NEW u \in Users, NEW group \in Groups \cup {Null}, lists!Move(u, group)
        PROVE lists!CInv'
    BY <1>4, MoveKeepsOrder
  <1>5. ASSUME NEW place \in Places, NEW i \in lists!AssetIds, lists!ReorderAsset(i, place)
        PROVE lists!CInv'
    BY <1>5, ReorderAssetKeepsOrder
  <1>6. ASSUME NEW place \in Places, NEW i \in lists!CategoryIds,
               lists!ReorderCategory(i, place) PROVE lists!CInv'
    BY <1>6, ReorderCategoryKeepsOrder
  <1>7. ASSUME UNCHANGED lists!vars PROVE lists!CInv'
    BY <1>7, StutterKeepsOrder
  <1> QED BY <1>1, <1>2, <1>3, <1>4, <1>5, <1>6, <1>7 DEF lists!Next

\* One row for each user who registered, and for each of that user's sections.
LEMMA InitOrder ==
  ASSUME lists!Init
  PROVE  lists!CInv
  <1> USE DEF lists!Init
  <1>1. /\ MaxListRequests \in Nat /\ Registered \subseteq Users
        /\ Registered \cap lists!Ids = {}
        /\ Null \notin lists!Asset /\ Null \notin lists!Category /\ Null \notin lists!AssetIds
    BY ListsAssumption DEF lists!CatalogueAssumption
  <1>2. \A r \in ListRequests : listPc[r] = "idle" /\ ~lists!InFlight(r)
    BY DEF lists!InFlight
  <1>3. ASSUME NEW i \in lists!AssetIds
        PROVE  /\ assets[i] # Null => /\ i[1] \in Registered /\ i = <<i[1], Null>>
                                      /\ assets[i] \in lists!Asset /\ assets[i].user = i[1]
                                      /\ assets[i].place = 0 /\ assets[i].group = Null
               /\ assets[i] \in lists!Asset \cup {Null}
    <2>1. CASE i[1] \in Registered
      <3>1. assets[i] = [user |-> i[1], group |-> Null, shared |-> FALSE, place |-> 0]
        BY <2>1
      <3>2. i = <<i[1], Null>>
        BY DEF lists!AssetIds
      <3>3. assets[i] \in lists!Asset
        BY <1>1, <2>1, <3>1 DEF lists!Asset
      <3> QED BY <2>1, <3>1, <3>2, <3>3
    <2>2. CASE i[1] \notin Registered
      BY <2>2
    <2> QED BY <2>1, <2>2
  <1>4. ASSUME NEW i \in lists!CategoryIds
        PROVE  /\ categories[i] # Null <=> i \in Registered \X Sections
               /\ categories[i] # Null =>
                     /\ categories[i] \in lists!Category
                     /\ categories[i].user = i[1] /\ categories[i].section = i[2]
                     /\ categories[i].default /\ ~categories[i].renamed
               /\ categories[i] \in lists!Category \cup {Null}
    <2>1. CASE i[1] \in Registered
      <3>1. i \in Registered \X Sections
        BY <1>1, <2>1 DEF lists!CategoryIds
      <3>2. categories[i] = [user |-> i[1], section |-> i[2], default |-> TRUE,
                             renamed |-> FALSE, place |-> 1]
        BY <2>1
      <3>3. categories[i] \in lists!Category
        BY <1>1, <3>1, <3>2 DEF lists!Category
      <3> QED BY <1>1, <3>1, <3>2, <3>3
    <2>2. CASE i[1] \notin Registered
      BY <2>2
    <2> QED BY <2>1, <2>2
  <1>5. lists!TypeOK
    <2>1. assets \in [lists!AssetIds -> lists!Asset \cup {Null}]
      BY <1>3
    <2>2. categories \in [lists!CategoryIds -> lists!Category \cup {Null}]
      BY <1>4
    <2>3. favourite \in [Users -> lists!AssetIds \cup {Null}]
      BY DEF lists!AssetIds
    <2>4. listBegun \in 0 .. MaxListRequests
      BY <1>1
    <2> QED BY <2>1, <2>2, <2>3, <2>4 DEF lists!TypeOK
  <1>6. ASSUME NEW i, i[1] \in Registered PROVE lists!Taken(i)
    BY <1>1, <1>6 DEF lists!Taken
  <1>7. lists!Shapes /\ lists!Numbers /\ lists!GroupKept /\ lists!CategoriesBehind
    BY <1>2 DEF lists!Shapes, lists!Numbers, lists!GroupKept, lists!CategoriesBehind,
       lists!AtCommit
  <1>8. lists!Unborn
    BY <1>3, <1>4, <1>6 DEF lists!Unborn
  <1>9. lists!Defaults
    BY <1>2, <1>4, FiniteRows DEF lists!Defaults
  <1>10. lists!Favourites
    <2>1. ASSUME NEW u \in Users, favourite[u] # Null PROVE lists!Usable(favourite[u], u)
      <3>1. u \in Registered /\ favourite[u] = <<u, Null>> /\ <<u, Null>> \in lists!AssetIds
        BY <2>1 DEF lists!AssetIds
      <3>2. lists!Taken(favourite[u])
        BY <1>6, <3>1
      <3>3. assets[favourite[u]] # Null => assets[favourite[u]].user = u
        BY <1>3, <3>1
      <3> QED BY <3>2, <3>3 DEF lists!Usable
    <2> QED BY <1>2, <2>1 DEF lists!Favourites, lists!AtCommit
  <1>11. lists!AssetsBehind
    <2>1. ASSUME NEW i \in lists!AssetIds, assets[i] # Null
          PROVE  assets[i].place < lists!Length(assets[i].user, groupOf[assets[i].user])
      <3> DEFINE S == lists!Listed(assets[i].user, groupOf[assets[i].user])
      <3>1. i \in S
        BY <2>1 DEF lists!Listed
      <3>2. IsFiniteSet(S) /\ Cardinality(S) \in Nat
        BY ListedIsFinite, SameOperators DEF lists!Length
      <3> HIDE DEF S
      <3>3. Cardinality(S) # 0
        BY <3>1, <3>2, FS_EmptySet
      <3>4. 0 < Cardinality(S)
        BY <3>2, <3>3
      <3> QED BY <1>3, <2>1, <3>4, SameOperators DEF S, lists!Length
    <2> QED BY <1>2, <2>1 DEF lists!AssetsBehind, lists!AddsAsset
  <1>12. lists!ListsInOrder
    <2>1. ASSUME NEW i \in lists!CategoryIds, NEW j \in lists!CategoryIds, i # j,
                 categories[i] # Null, categories[j] # Null,
                 categories[i].user = categories[j].user,
                 categories[i].section = categories[j].section
          PROVE  FALSE
      <3>1. i \in Registered \X Sections /\ j \in Registered \X Sections
            /\ i[1] = j[1] /\ i[2] = j[2]
        BY <1>4, <2>1
      <3> QED BY <2>1, <3>1
    <2>2. ASSUME NEW i \in lists!AssetIds, NEW j \in lists!AssetIds, i # j,
                 assets[i] # Null, assets[j] # Null, assets[i].user = assets[j].user
          PROVE  FALSE
      BY <1>3, <2>2
    <2>3. \A i \in Registered \X Sections : categories[i] # Null /\ ~categories[i].renamed
      BY <1>4, FiniteRows
    <2>4. \A u \in Users : favourite[u] # Null /\ assets[favourite[u]] # Null =>
              assets[favourite[u]].user = u \/ assets[favourite[u]].shared
      BY <1>10 DEF lists!Favourites, lists!Usable
    <2> QED BY <2>1, <2>2, <2>3, <2>4 DEF lists!ListsInOrder
  <1> QED BY <1>5, <1>7, <1>8, <1>9, <1>10, <1>11, <1>12 DEF lists!CInv

LEMMA OrderInvariance == lists!Spec => []lists!CInv
  <1>1. lists!Init => lists!CInv
    BY InitOrder
  <1>2. lists!CInv /\ [lists!Next]_(lists!vars) => lists!CInv'
    BY NextKeepsOrder
  <1> QED BY <1>1, <1>2, PTL DEF lists!Spec

\* However requests interleave, fail and are reordered: the places of a list clash only
\* after a race, a reorder, or a list that has got shorter; default categories stay, and a
\* default asset is one that the user may use.
THEOREM ListsAreInOrder == lists!Spec => []ListsInOrder
  <1>1. lists!CInv => ListsInOrder
    BY DEF lists!CInv, ListsInOrder
  <1> QED BY <1>1, OrderInvariance, PTL

-----------------------------------------------------------------------------
(* The parts side by side.                                                 *)

\* What a part never does, the four of them never do.
LEMMA PartsAreSpecs == PartSpec => Spec /\ limiter!Spec /\ goals!Spec /\ lists!Spec
  <1>1. PartInit => Init /\ limiter!Init /\ goals!Init /\ lists!Init
    BY DEF PartInit
  <1>2. [PartNext]_partVars =>
            /\ [Next]_vars /\ [limiter!Next]_(limiter!vars)
            /\ [goals!Next]_(goals!vars) /\ [lists!Next]_(lists!vars)
    <2>1. /\ vars' = vars <=> UNCHANGED vars
          /\ UNCHANGED limiterVars => UNCHANGED limiter!vars
          /\ UNCHANGED goalVars => UNCHANGED goals!vars
          /\ UNCHANGED listVars => UNCHANGED lists!vars
      BY DEF limiterVars, goalVars, listVars, limiter!vars, goals!vars, lists!vars
    <2>2. UNCHANGED partVars =>
              UNCHANGED vars /\ UNCHANGED limiterVars /\ UNCHANGED goalVars /\ UNCHANGED listVars
      BY DEF partVars
    <2> QED BY <2>1, <2>2 DEF PartNext
  <1> QED BY <1>1, <1>2, PTL DEF PartSpec, Spec, limiter!Spec, goals!Spec, lists!Spec

\* Accounts, goals, assets and categories have the types that the tables give them: an
\* account made by a provider has no password, a goal is never stored as FAILED.
THEOREM TypesAreCorrect == PartSpec => []TypesOK
  <1>1. AInv /\ goals!IInv /\ lists!CInv => TypesOK
    BY DEF AInv, goals!IInv, lists!CInv, TypesOK
  <1> QED BY <1>1, PartsAreSpecs, Invariance, GoalsInvariance, OrderInvariance, PTL

\* What is proved of each part holds of the behaviours that the parts have together.
THEOREM UserDataIsSafe ==
  PartSpec => [](/\ ServerErrorsExplained /\ VerifiedByNewestCode /\ CredentialsInForce
                 /\ LimitHolds /\ CompletedWhenReached /\ ListsInOrder)
  BY PartsAreSpecs, ServerErrorsAreExplained, NewestCodeVerifies, CredentialsWereInForce,
     LimitAlwaysHolds, ClosedWhenReached, ListsAreInOrder, PTL
=============================================================================
