------------------------- MODULE LitterServerProofs -------------------------
(***************************************************************************)
(* Theorems about LitterServer, for any number of requests, clients,       *)
(* accounts and posts, and any size of a page.                             *)
(***************************************************************************)
EXTENDS LitterServer, FiniteSetTheorems, TLAPS

Places == Queries \union Hashing \union {"idle", "rejected"}

\* Counting the posts answers with a number.
LEMMA CountOfPosts ==
    ASSUME NEW n \in Nat, NEW P \in SUBSET (1..n)
    PROVE  Cardinality(P) \in Nat /\ IsFiniteSet(P)
<1>1. IsFiniteSet(1..n)
  BY FS_Interval
<1>2. IsFiniteSet(P)
  BY <1>1, FS_Subset
<1>q. QED BY <1>2, FS_CardinalityType

LEMMA CountIsNat == ASSUME TypeOK PROVE Cardinality(posts) \in Nat /\ IsFiniteSet(posts)
<1>1. next_id - 1 \in Nat /\ posts \in SUBSET (1..next_id-1)
  BY PagesAssumption DEF TypeOK, TablesTyped
<1>q. QED BY <1>1, CountOfPosts

\* What a request that goes on to the next await, or returns, keeps typed.
LEMMA AwaitTyped ==
    ASSUME CallsTyped, NEW r \in Requests, NEW what \in Places, Await(r, what),
           UNCHANGED inputs
    PROVE  /\ more' \in [Requests -> BOOLEAN] /\ result' \in [Requests -> Results] => CallsTyped'
BY DEF CallsTyped, Await, inputs, Places, NoAnswer

LEMMA ReturnTyped ==
    ASSUME CallsTyped, NEW r \in Requests, NEW value \in Results, Return(r, value),
           UNCHANGED <<inputs, more>>
    PROVE  CallsTyped'
<1>1. result' \in [Requests -> Results] /\ more' \in [Requests -> BOOLEAN]
  BY DEF Return, CallsTyped
<1>q. QED BY <1>1, AwaitTyped DEF Return, Places

LEMMA ExecutesTyped ==
    ASSUME CallsTyped, NEW r \in Requests, NEW query, NEW value \in Nat \union {Rejected},
           Executes(r, query, value)
    PROVE  CallsTyped' /\ UNCHANGED total
BY DEF CallsTyped, Executes, inputs

LEMMA EnterTyped ==
    ASSUME CallsTyped, NEW r \in Requests, NEW f \in Functions, NEW n \in Nat,
           NEW c \in Accounts \union {NoCred}, Enter(r, f, n, c)
    PROVE  /\ fn' \in [Requests -> Functions]
           /\ num' \in [Requests -> Nat]
           /\ cred' \in [Requests -> Accounts \union {NoCred}]
BY DEF CallsTyped, Enter

LEMMA CallTyped ==
    ASSUME CallsTyped, NEW r \in Requests, NEW f \in Functions, NEW n \in Nat,
           NEW c \in Accounts \union {NoCred}, NEW query \in Queries, Call(r, f, n, c, query)
    PROVE  CallsTyped'
BY EnterTyped DEF CallsTyped, Call, Await, NoAnswer

LEMMA PaginateTyped ==
    ASSUME CallsTyped, NEW r \in Requests, NEW page \in Nat, NEW size \in Int, Paginate(r, page, size)
    PROVE  /\ at' \in [Requests -> Places]
           /\ answer' \in [Requests -> Nat \union {NoAnswer, Rejected}]
           /\ more' \in [Requests -> BOOLEAN]
           /\ result' \in [Requests -> Results]
<1>1. (page * PageSize > size) \in BOOLEAN /\ (size > page * PageSize + PageSize) \in BOOLEAN
  OBVIOUS
<1>2. CASE page * PageSize > size
  BY <1>2 DEF CallsTyped, Paginate, Return, Await, Places, Results, NoAnswer
<1>3. CASE ~(page * PageSize > size)
  BY <1>1, <1>3 DEF CallsTyped, Paginate, Await, Places, Queries, NoAnswer
<1>q. QED BY <1>2, <1>3

-----------------------------------------------------------------------------
\* A request arrives.
LEMMA ArrivalTyped ==
    ASSUME TypeOK, NEW r \in Requests, NEW c \in Clients,
           \/ \E page \in 0..MaxPage : GetPage(r, c, page)
           \/ CreatePost(r, c)
           \/ \E id \in 1..MaxPosts : ChangePost(r, c, id)
           \/ \E a \in Accounts : SignUp(r, c, a) \/ LogIn(r, c, a)
    PROVE  TypeOK'
<1> USE DEF TypeOK
<1>1. SessionsTyped'
  BY DEF SessionsTyped, GetPage, CreatePost, ChangePost, SignUp, LogIn, Arrives
<1>2. ASSUME NEW f \in Functions, NEW n \in Nat, NEW a \in Accounts \union {NoCred},
             NEW query \in Queries, Call(r, f, n, a, query)
      PROVE  TypeOK'
  <2>1. CallsTyped'
    BY <1>2, CallTyped
  <2>2. TablesTyped'
    BY <1>2 DEF Call, TablesTyped, tables
  <2>q. QED BY <1>1, <2>1, <2>2
<1>3. ASSUME NEW page \in 0..MaxPage, getPosts(r, page)
      PROVE  TypeOK'
  <2>1. page \in Nat /\ total \in Int
    BY PagesAssumption DEF TablesTyped
  <2>2. /\ fn' \in [Requests -> Functions]
        /\ num' \in [Requests -> Nat]
        /\ cred' \in [Requests -> Accounts \union {NoCred}]
    BY <1>3, <2>1, EnterTyped DEF getPosts, Functions
  <2>3. CASE total = -1
    <3>1. CallsTyped'
      BY <1>3, <2>2, <2>3 DEF getPosts, CallsTyped, Await, NoAnswer, Queries
    <3>q. QED BY <1>1, <1>3, <3>1 DEF getPosts, TablesTyped, tables
  <2>4. CASE total # -1
    <3>1. CallsTyped'
      BY <1>3, <2>1, <2>2, <2>4, PaginateTyped DEF getPosts, CallsTyped, Places
    <3>q. QED BY <1>1, <1>3, <3>1 DEF getPosts, TablesTyped, tables
  <2>q. QED BY <2>3, <2>4
<1>4. /\ {"addPost", "deletePost", "updatePost", "addLogin", "checkLogin"} \subseteq Functions
      /\ {"insert", "delete", "update", "find", "password"} \subseteq Queries
  BY DEF Functions, Queries
<1>5. 0 \in Nat /\ \A id \in 1..MaxPosts : id \in Nat
  BY PagesAssumption
<1>6. CASE CreatePost(r, c)
  BY <1>2, <1>4, <1>5, <1>6 DEF CreatePost, addPost
<1>7. CASE \E id \in 1..MaxPosts : ChangePost(r, c, id)
  BY <1>2, <1>4, <1>5, <1>7 DEF ChangePost, deletePost, updatePost
<1>8. CASE \E a \in Accounts : SignUp(r, c, a) \/ LogIn(r, c, a)
  BY <1>2, <1>4, <1>5, <1>8 DEF SignUp, LogIn, addLogin, checkLogin
<1>q. QED BY <1>3, <1>6, <1>7, <1>8 DEF GetPage

\* node runs a request from one await to the next.
LEMMA ResumeTyped ==
    ASSUME TypeOK, CallsMatch, NEW r \in Requests, Resume(r), ServerUnchanged
    PROVE  TypeOK'
<1> USE DEF TypeOK
<1>1. SessionsTyped'
  BY DEF SessionsTyped, ServerUnchanged
<1>2. total \in Nat \union {-1} /\ num[r] \in Nat /\ fn[r] \in Functions /\ answer[r] \in Int
  BY DEF TablesTyped, CallsTyped, NoAnswer, Rejected
<1>3. /\ {"true", "false", "more", "last"} \subseteq Results
      /\ {"idle", "count", "select", "hash", "create", "rejected", "compare"} \subseteq Places
  BY DEF Results, Places, Queries, Hashing
<1>4. CASE CountAnswered(r)
  <2>1. Change(fn[r]) \in {-1, 0, 1} /\ answer[r] \in Nat
    BY <1>2, <1>4 DEF Change, CountAnswered, Answered
  <2>2. total' \in Nat \union {-1}
    BY <1>4, <2>1 DEF CountAnswered
  <2>3. TablesTyped'
    BY <1>4, <2>2 DEF CountAnswered, TablesTyped, tables
  <2>4. CASE fn[r] = "getPosts"
    <3>1. CallsTyped'
      BY <1>2, <1>4, <2>2, <2>4, PaginateTyped DEF CountAnswered, CallsTyped, Places, inputs
    <3>q. QED BY <1>1, <2>3, <3>1
  <2>5. CASE fn[r] # "getPosts"
    <3>1. CallsTyped'
      BY <1>3, <1>4, <2>5, AwaitTyped DEF CountAnswered, CallsTyped
    <3>q. QED BY <1>1, <2>3, <3>1
  <2>q. QED BY <2>4, <2>5
<1>5. CASE WriteAnswered(r)
  <2>1. UNCHANGED inputs /\ result' \in [Requests -> Results] /\ more' \in [Requests -> BOOLEAN]
    BY <1>3, <1>5 DEF WriteAnswered, Return, CallsTyped
  <2>2. CallsTyped'
    BY <1>3, <1>5, <2>1, AwaitTyped DEF WriteAnswered, AdjustTotal, Return
  <2>3. Change(fn[r]) \in {-1, 0, 1}
    BY <1>2 DEF Change
  <2>4. TablesTyped'
    BY <1>2, <1>5, <2>3 DEF WriteAnswered, AdjustTotal, TablesTyped, tables
  <2>q. QED BY <1>1, <2>2, <2>4
<1>6. ASSUME UNCHANGED <<total, tables, inputs, more>>,
             \/ \E value \in Results : Return(r, value)
             \/ \E what \in Places : Await(r, what) /\ UNCHANGED result
      PROVE  TypeOK'
  <2>1. TablesTyped'
    BY <1>6 DEF TablesTyped, tables
  <2>2. CallsTyped'
    BY <1>6, AwaitTyped, ReturnTyped DEF CallsTyped
  <2>q. QED BY <1>1, <2>1, <2>2
<1>7. CASE PageAnswered(r) \/ UpdateAnswered(r) \/ CreateAnswered(r) \/ Compared(r)
  BY <1>3, <1>6, <1>7 DEF PageAnswered, UpdateAnswered, CreateAnswered, Compared
<1>8. CASE FindAnswered(r) \/ Hashed(r) \/ PasswordAnswered(r) \/ Throws(r)
  BY <1>3, <1>6, <1>8 DEF FindAnswered, Hashed, PasswordAnswered, Throws
<1>q. QED BY <1>4, <1>5, <1>7, <1>8 DEF Resume

\* The database executes or loses a query.
LEMMA ExecuteTyped ==
    ASSUME TypeOK, CallsMatch, NEW r \in Requests, Execute(r) \/ QueryFails(r), ServerUnchanged
    PROVE  TypeOK'
<1> USE DEF TypeOK
<1>1. SessionsTyped'
  BY DEF SessionsTyped, ServerUnchanged
<1>2. CASE ExecuteRead(r)
  <2>1. CallsTyped' /\ UNCHANGED total
    BY <1>2, ExecutesTyped, CountIsNat DEF ExecuteRead
  <2>q. QED BY <1>1, <1>2, <2>1 DEF ExecuteRead, TablesTyped, tables
<1>3. CASE ExecuteInsert(r)
  <2>1. CallsTyped' /\ UNCHANGED total
    BY <1>3, ExecutesTyped DEF ExecuteInsert
  <2>q. QED BY <1>1, <1>3, <2>1, PagesAssumption DEF ExecuteInsert, TablesTyped
<1>4. CASE ExecuteDelete(r)
  <2>1. CallsTyped' /\ UNCHANGED total
    BY <1>4, ExecutesTyped DEF ExecuteDelete
  <2>q. QED BY <1>1, <1>4, <2>1 DEF ExecuteDelete, TablesTyped
<1>5. CASE ExecuteCreate(r)
  <2>1. CallsTyped' /\ UNCHANGED total
    BY <1>5, ExecutesTyped DEF ExecuteCreate
  <2>2. cred[r] \in Accounts
    BY <1>5 DEF ExecuteCreate, CallsMatch, AwaitsOf, CallsTyped, Functions
  <2>q. QED BY <1>1, <1>5, <2>1, <2>2 DEF ExecuteCreate, TablesTyped
<1>6. CASE QueryFails(r)
  <2>1. CallsTyped'
    BY <1>6 DEF QueryFails, CallsTyped, inputs
  <2>q. QED BY <1>1, <1>6, <2>1 DEF QueryFails, TablesTyped, tables
<1>q. QED BY <1>2, <1>3, <1>4, <1>5, <1>6 DEF Execute

LEMMA GoneTyped ==
    ASSUME CallsTyped, TablesTyped, NEW r \in Requests, Gone(r)
    PROVE  CallsTyped' /\ TablesTyped'
BY DEF CallsTyped, TablesTyped, Gone, tables, Functions, Results

LEMMA TypingStep == ASSUME TypeOK, CallsMatch, [Next]_vars PROVE TypeOK'
<1> USE DEF TypeOK
<1>1. ASSUME NEW r \in Requests, Reply(r)
      PROVE  TypeOK'
  <2>1. LoginUser(r) \in Users \union {NoUser}
    <3>1. fn[r] = "checkLogin" => cred[r] \in Users \X Passwords
      BY DEF CallsMatch, Accounts
    <3>q. QED BY <3>1 DEF LoginUser, SessionsTyped
  <2>2. SessionsTyped'
    BY <1>1, <2>1 DEF Reply, SessionsTyped
  <2>q. QED BY <1>1, <2>2, GoneTyped DEF Reply
<1>2. ASSUME NEW r \in Requests, Unhandled(r)
      PROVE  TypeOK'
  BY <1>2, GoneTyped DEF Unhandled, SessionsTyped
<1>3. ASSUME NEW c \in Clients, LogOut(c)
      PROVE  TypeOK'
  BY <1>3 DEF LogOut, datavars, tables, inputs, SessionsTyped, TablesTyped, CallsTyped
<1>4. CASE Restart
  <2>1. CallsTyped'
    BY <1>4 DEF Restart, Forget, CallsTyped, Functions, Results
  <2>2. SessionsTyped' /\ TablesTyped'
    BY <1>4 DEF Restart, Forget, SessionsTyped, TablesTyped, tables
  <2>q. QED BY <2>1, <2>2
<1>5. CASE UNCHANGED vars
  BY <1>5 DEF vars, datavars, tables, inputs, SessionsTyped, TablesTyped, CallsTyped
<1>q. QED BY <1>1, <1>2, <1>3, <1>4, <1>5, ArrivalTyped, ResumeTyped, ExecuteTyped DEF Next

-----------------------------------------------------------------------------
\* What CallsMatch, FrontPageIsServed and OneAccountPerName say of one request.
Matches(r) ==
    /\ at[r] \in AwaitsOf(fn[r])
    /\ result[r] # "none" =>
          at[r] = "idle" \/ (at[r] \in {"count", "rejected"} /\ fn[r] # "getPosts")
    /\ fn[r] \in {"addLogin", "checkLogin"} => cred[r] \in Accounts
    /\ fn[r] = "checkLogin" => cred[r] \in tried[client[r]]
    /\ fn[r] \in {"addLogin", "checkLogin"} /\ result[r] = "true" => cred[r] \in logins
    /\ at[r] = "create" /\ answer[r] = 1 => cred[r] \in logins
    /\ fn[r] = "getPosts" /\ num[r] = 0 => result[r] # "false"

LEMMA InvMatches ==
    (CallsMatch /\ FrontPageIsServed) <=> \A r \in Requests : Matches(r)
BY DEF CallsMatch, FrontPageIsServed, Matches

\* A step of request r leaves the others alone.
LEMMA OthersMatch ==
    ASSUME TypeOK, NEW r \in Requests, NEW q \in Requests, q # r, Matches(q),
           /\ fn'[q] = fn[q] /\ num'[q] = num[q] /\ cred'[q] = cred[q] /\ at'[q] = at[q]
           /\ answer'[q] = answer[q] /\ result'[q] = result[q] /\ client'[q] = client[q],
           logins \subseteq logins', \A c \in Clients : tried[c] \subseteq tried'[c]
    PROVE  Matches(q)'
BY DEF Matches, TypeOK, SessionsTyped, AwaitsOf

LEMMA ArrivalMatches ==
    ASSUME TypeOK, \A q \in Requests : Matches(q), NEW r \in Requests, NEW c \in Clients,
           \/ \E page \in 0..MaxPage : GetPage(r, c, page)
           \/ CreatePost(r, c)
           \/ \E id \in 1..MaxPosts : ChangePost(r, c, id)
           \/ \E a \in Accounts : SignUp(r, c, a) \/ LogIn(r, c, a)
    PROVE  \A q \in Requests : Matches(q)'
<1> USE DEF TypeOK, CallsTyped
<1>1. /\ client' = [client EXCEPT ![r] = c] /\ UNCHANGED logins
      /\ \A d \in Clients : tried[d] \subseteq tried'[d]
  BY DEF GetPage, CreatePost, ChangePost, SignUp, LogIn, Arrives, getPosts, addPost,
     deletePost, updatePost, addLogin, checkLogin, Call, tables, SessionsTyped
<1>3. \A q \in Requests \ {r} : Matches(q)'
  <2>1. \A q \in Requests \ {r} :
           /\ fn'[q] = fn[q] /\ num'[q] = num[q] /\ cred'[q] = cred[q] /\ at'[q] = at[q]
           /\ answer'[q] = answer[q] /\ result'[q] = result[q] /\ client'[q] = client[q]
    BY DEF GetPage, CreatePost, ChangePost, SignUp, LogIn, getPosts, addPost, Arrives,
       deletePost, updatePost, addLogin, checkLogin, Call, Enter, Await, Paginate, Return,
       SessionsTyped
  <2>q. QED BY <1>1, <2>1, OthersMatch
<1>4. Matches(r)'
  <2>1. ASSUME NEW page \in 0..MaxPage, GetPage(r, c, page)
        PROVE  Matches(r)'
    <3>1. fn'[r] = "getPosts" /\ num'[r] = page /\ result[r] = "none"
      BY <2>1 DEF GetPage, getPosts, Enter, Free
    <3>2. CASE total = -1
      BY <2>1, <3>1, <3>2 DEF GetPage, getPosts, Await, Matches, AwaitsOf
    <3>3. CASE total # -1
      <4>1. total >= 0 /\ (page = 0 => ~(page * PageSize > total))
        BY <3>3, PagesAssumption DEF TablesTyped
      <4>q. QED BY <2>1, <3>1, <3>3, <4>1 DEF GetPage, getPosts, Paginate, Return, Await, Matches, AwaitsOf
    <3>q. QED BY <3>2, <3>3
  <2>2. CASE CreatePost(r, c) \/ \E id \in 1..MaxPosts : ChangePost(r, c, id)
    BY <2>2 DEF CreatePost, ChangePost, addPost, deletePost, updatePost, Call, Enter, Free,
       Await, Matches, AwaitsOf
  <2>3. CASE \E a \in Accounts : SignUp(r, c, a) \/ LogIn(r, c, a)
    BY <2>3 DEF SignUp, LogIn, Arrives, addLogin, checkLogin, Call, Enter, Free, Await,
       Matches, AwaitsOf, SessionsTyped, NoAnswer
  <2>q. QED BY <2>1, <2>2, <2>3
<1>q. QED BY <1>3, <1>4

LEMMA ResumeMatches ==
    ASSUME TypeOK, \A q \in Requests : Matches(q), NEW r \in Requests, Resume(r), ServerUnchanged
    PROVE  \A q \in Requests : Matches(q)'
<1> USE DEF TypeOK, CallsTyped, ServerUnchanged
<1>1. UNCHANGED <<inputs, logins, client, tried>>
  BY DEF Resume, CountAnswered, PageAnswered, WriteAnswered, UpdateAnswered, FindAnswered,
     Hashed, CreateAnswered, PasswordAnswered, Compared, Throws, tables
<1>2. \A q \in Requests \ {r} :
         at'[q] = at[q] /\ answer'[q] = answer[q] /\ result'[q] = result[q]
  BY DEF Resume, CountAnswered, PageAnswered, WriteAnswered, UpdateAnswered, FindAnswered,
     Hashed, CreateAnswered, PasswordAnswered, Compared, Throws, Return, Await, Paginate, AdjustTotal
<1>3. \A q \in Requests \ {r} : Matches(q)'
  BY <1>1, <1>2, OthersMatch DEF inputs
<1>4. Matches(r) /\ fn[r] \in Functions
  OBVIOUS
<1>5. Matches(r)'
  <2> USE <1>1, <1>4 DEF inputs
  <2>1. CASE CountAnswered(r) /\ fn[r] = "getPosts"
    <3>1. num[r] \in Nat /\ answer[r] \in Nat /\ Change(fn[r]) = 0
      BY <2>1 DEF CountAnswered, Answered, Change, NoAnswer, Rejected
    <3>2. total' \in Nat
      BY <2>1, <3>1 DEF CountAnswered
    <3>3. num[r] = 0 => ~(num[r] * PageSize > total')
      BY <3>2, PagesAssumption
    <3>q. QED BY <2>1, <3>3 DEF CountAnswered, Answered, Paginate, Return, Await, Matches, AwaitsOf
  <2>2. CASE CountAnswered(r) /\ fn[r] # "getPosts"
    BY <2>2 DEF CountAnswered, Answered, Await, Matches, AwaitsOf, Functions
  <2>3. CASE WriteAnswered(r)
    BY <2>3 DEF WriteAnswered, Answered, AdjustTotal, Return, Await, Matches, AwaitsOf, Functions
  <2>4. CASE PageAnswered(r) \/ UpdateAnswered(r)
    BY <2>4 DEF PageAnswered, UpdateAnswered, Answered, Return, Await, Matches, AwaitsOf, Functions
  <2>5. CASE FindAnswered(r) \/ Hashed(r) \/ PasswordAnswered(r)
    BY <2>5 DEF FindAnswered, Hashed, PasswordAnswered, Answered, Return, Await, Matches, AwaitsOf,
       Functions, NoAnswer
  <2>6. CASE CreateAnswered(r) \/ Compared(r)
    BY <2>6 DEF CreateAnswered, Compared, Answered, Return, Await, Matches, AwaitsOf, Functions
  <2>7. CASE Throws(r)
    BY <2>7 DEF Throws, Queries, Await, Matches, AwaitsOf, Functions
  <2>q. QED BY <2>1, <2>2, <2>3, <2>4, <2>5, <2>6, <2>7 DEF Resume
<1>q. QED BY <1>3, <1>5

LEMMA ExecuteMatches ==
    ASSUME TypeOK, \A q \in Requests : Matches(q), NEW r \in Requests,
           Execute(r) \/ QueryFails(r), ServerUnchanged
    PROVE  /\ \A q \in Requests : Matches(q)'
           /\ logins \subseteq logins'
           /\ (\A a, b \in logins : a[1] = b[1] => a = b) =>
                 \A a, b \in logins' : a[1] = b[1] => a = b
<1> USE DEF TypeOK, CallsTyped, ServerUnchanged
<1>1. UNCHANGED <<inputs, at, result>> /\ logins \subseteq logins'
  BY DEF Execute, ExecuteRead, ExecuteInsert, ExecuteDelete, ExecuteCreate, QueryFails, Executes, tables
<1>2. \A q \in Requests \ {r} : answer'[q] = answer[q]
  BY DEF Execute, ExecuteRead, ExecuteInsert, ExecuteDelete, ExecuteCreate, QueryFails, Executes
<1>3. \A q \in Requests \ {r} : Matches(q)'
  BY <1>1, <1>2, OthersMatch DEF inputs
<1>4. at[r] = "create" /\ answer'[r] = 1 => cred[r] \in logins'
  BY DEF Execute, ExecuteRead, ExecuteInsert, ExecuteDelete, ExecuteCreate, QueryFails, Executes,
     Rejected
<1>5. Matches(r)'
  BY <1>1, <1>4 DEF Matches, inputs
<1>6. CASE UNCHANGED logins
  BY <1>1, <1>3, <1>5, <1>6
<1>7. CASE ExecuteCreate(r)
  BY <1>1, <1>3, <1>5, <1>7 DEF ExecuteCreate
<1>q. QED BY <1>6, <1>7 DEF Execute, ExecuteRead, ExecuteInsert, ExecuteDelete, QueryFails, tables

\* A request is over.
LEMMA GoneMatches ==
    ASSUME TypeOK, \A q \in Requests : Matches(q), NEW r \in Requests, Gone(r),
           UNCHANGED <<client, tried>>
    PROVE  \A q \in Requests : Matches(q)'
<1> USE DEF TypeOK, CallsTyped
<1>1. \A q \in Requests \ {r} : Matches(q)'
  BY OthersMatch DEF Gone, tables
<1>2. fn[r] \in Functions /\ at[r] \in AwaitsOf(fn[r])
  BY DEF Matches
<1>3. Matches(r)'
  <2>1. result'[r] = "none" /\ at'[r] # "create"
    BY DEF Gone
  <2>2. CASE at[r] = "count"
    <3>1. fn'[r] \in {"getPosts", "addPost", "deletePost"}
      BY <1>2, <2>2 DEF Gone, AwaitsOf, Functions
    <3>2. at'[r] = "count"
      BY <2>2 DEF Gone
    <3>q. QED BY <2>1, <3>1, <3>2 DEF Matches, AwaitsOf
  <2>3. CASE at[r] # "count"
    BY <2>1, <2>3 DEF Gone, Matches, AwaitsOf
  <2>q. QED BY <2>2, <2>3
<1>q. QED BY <1>1, <1>3

LEMMA MatchingStep ==
    ASSUME TypeOK, \A q \in Requests : Matches(q), OneAccountPerName, [Next]_vars
    PROVE  /\ \A q \in Requests : Matches(q)'
           /\ logins \subseteq logins'
           /\ \A c \in Clients : tried[c] \subseteq tried'[c]
           /\ \A a, b \in logins' : a[1] = b[1] => a = b
<1> DEFINE OneEach == \A a, b \in logins : a[1] = b[1] => a = b
           Grow == /\ logins \subseteq logins'
                   /\ \A c \in Clients : tried[c] \subseteq tried'[c]
           Goal == (\A q \in Requests : Matches(q)') /\ Grow /\ OneEach'
<1>1. OneEach
  BY DEF OneAccountPerName
<1>2. UNCHANGED <<logins, tried>> => OneEach' /\ Grow
  BY <1>1
<1>3. ASSUME NEW r \in Requests, NEW c \in Clients,
             \/ \E page \in 0..MaxPage : GetPage(r, c, page)
             \/ CreatePost(r, c)
             \/ \E id \in 1..MaxPosts : ChangePost(r, c, id)
             \/ \E a \in Accounts : SignUp(r, c, a) \/ LogIn(r, c, a)
      PROVE  Goal
  <2>1. UNCHANGED logins
    BY <1>3 DEF GetPage, CreatePost, ChangePost, SignUp, LogIn, getPosts, addPost, deletePost,
       updatePost, addLogin, checkLogin, Call, tables
  <2>2. Grow
    BY <1>3, <2>1 DEF GetPage, CreatePost, ChangePost, SignUp, LogIn, TypeOK, SessionsTyped
  <2>q. QED BY <1>1, <1>3, <2>1, <2>2, ArrivalMatches
<1>4. ASSUME NEW r \in Requests, Reply(r) \/ Unhandled(r)
      PROVE  Goal
  <2>1. Gone(r) /\ UNCHANGED <<client, tried>>
    BY <1>4 DEF Reply, Unhandled
  <2>2. UNCHANGED logins
    BY <2>1 DEF Gone, tables
  <2>q. QED BY <1>2, <2>1, <2>2, GoneMatches
<1>5. ASSUME NEW r \in Requests, Resume(r), ServerUnchanged
      PROVE  Goal
  <2>1. UNCHANGED <<logins, tried>>
    BY <1>5 DEF ServerUnchanged, Resume, CountAnswered, PageAnswered, WriteAnswered,
       UpdateAnswered, FindAnswered, Hashed, CreateAnswered, PasswordAnswered, Compared,
       Throws, tables
  <2>q. QED BY <1>2, <1>5, <2>1, ResumeMatches
<1>6. ASSUME NEW r \in Requests, Execute(r) \/ QueryFails(r), ServerUnchanged
      PROVE  Goal
  <2>1. /\ \A q \in Requests : Matches(q)'
        /\ logins \subseteq logins'
        /\ OneEach => OneEach'
    BY <1>6, ExecuteMatches
  <2>2. Grow
    BY <1>6, <2>1 DEF ServerUnchanged
  <2>q. QED BY <1>1, <2>1, <2>2
<1>7. ASSUME UNCHANGED <<logins, tried, fn, num, cred, at, answer, result, client>>
      PROVE  Goal
  BY <1>2, <1>7 DEF Matches
<1>8. CASE Restart
  <2>1. UNCHANGED <<logins, tried>>
    BY <1>8 DEF Restart, Forget, tables
  <2>2. \A q \in Requests : Matches(q)'
    BY <1>8 DEF Restart, Forget, Matches, AwaitsOf, NoAnswer
  <2>q. QED BY <1>2, <2>1, <2>2
<1>9. Goal
  <2>1. CASE \E r \in Requests, c \in Clients :
               \/ \E page \in 0..MaxPage : GetPage(r, c, page)
               \/ CreatePost(r, c)
               \/ \E id \in 1..MaxPosts : ChangePost(r, c, id)
               \/ \E a \in Accounts : SignUp(r, c, a) \/ LogIn(r, c, a)
    BY <1>3, <2>1
  <2>2. CASE \E r \in Requests : Reply(r) \/ Unhandled(r)
    BY <1>4, <2>2
  <2>3. CASE \E r \in Requests : (Resume(r) \/ Execute(r) \/ QueryFails(r)) /\ ServerUnchanged
    BY <1>5, <1>6, <2>3
  <2>4. CASE \E c \in Clients : LogOut(c)
    BY <1>7, <2>4 DEF LogOut, datavars, tables, inputs
  <2>5. CASE UNCHANGED vars
    BY <1>7, <2>5 DEF vars, datavars, tables, inputs
  <2>q. QED BY <1>8, <2>1, <2>2, <2>3, <2>4, <2>5 DEF Next
<1>q. QED BY <1>9 DEF Goal

\* Sessions: a session that is saved is the one the request loaded, or the
\* account its client has just proved to own.
LEMMA EarnedStep ==
    ASSUME TypeOK, \A q \in Requests : Matches(q), SessionsAreEarned, [Next]_vars,
           logins \subseteq logins', \A c \in Clients : tried[c] \subseteq tried'[c]
    PROVE  SessionsAreEarned'
<1> USE DEF TypeOK
<1>1. \A user \in Users \union {NoUser}, c \in Clients : Earned(user, c) => Earned(user, c)'
  BY DEF Earned
<1>2. \A c \in Clients : Earned(NoUser, c)'
  BY DEF Earned
<1>3. ASSUME NEW r \in Requests, NEW c \in Clients, Arrives(r, c)
      PROVE  SessionsAreEarned'
  BY <1>1, <1>3 DEF SessionsAreEarned, SessionsTyped, Arrives
<1>4. ASSUME NEW r \in Requests, Reply(r)
      PROVE  SessionsAreEarned'
  <2>1. LoginUser(r) \in Users \union {NoUser} /\ Earned(LoginUser(r), client[r])
    <3>1. CASE fn[r] = "checkLogin" /\ result[r] = "true"
      <4>1. cred[r] \in Accounts /\ cred[r] \in tried[client[r]] /\ cred[r] \in logins
        BY <3>1 DEF Matches
      <4>2. cred[r][1] \in Users
        BY <4>1 DEF Accounts
      <4>q. QED BY <3>1, <4>1, <4>2 DEF LoginUser, Earned
    <3>2. CASE ~(fn[r] = "checkLogin" /\ result[r] = "true")
      BY <3>2 DEF LoginUser, SessionsAreEarned, SessionsTyped
    <3>q. QED BY <3>1, <3>2
  <2>q. QED BY <1>1, <1>2, <1>4, <2>1 DEF SessionsAreEarned, SessionsTyped, Reply
<1>5. ASSUME NEW r \in Requests, Unhandled(r)
      PROVE  SessionsAreEarned'
  BY <1>1, <1>2, <1>5 DEF SessionsAreEarned, SessionsTyped, Unhandled
<1>6. ASSUME NEW c \in Clients, LogOut(c)
      PROVE  SessionsAreEarned'
  BY <1>1, <1>2, <1>6 DEF SessionsAreEarned, SessionsTyped, LogOut
<1>7. CASE Restart
  BY <1>2, <1>7 DEF SessionsAreEarned, SessionsTyped, Restart
<1>8. CASE UNCHANGED <<client, loaded, session, tried>>
  BY <1>1, <1>8 DEF SessionsAreEarned, SessionsTyped
<1>q. QED BY <1>3, <1>4, <1>5, <1>6, <1>7, <1>8 DEF Next, vars, ServerUnchanged, GetPage,
         CreatePost, ChangePost, SignUp, LogIn

-----------------------------------------------------------------------------
LEMMA InvInit == Init => Inv
<1> SUFFICES ASSUME Init PROVE Inv
  OBVIOUS
<1> USE DEF Init, DataInit
<1>1. TypeOK
  BY PagesAssumption DEF TypeOK, TablesTyped, CallsTyped, SessionsTyped, Functions, Results,
     NoAnswer
<1>2. \A r \in Requests : Matches(r)
  BY DEF Matches, AwaitsOf, NoAnswer
<1>3. OneAccountPerName /\ SessionsAreEarned
  BY DEF OneAccountPerName, SessionsAreEarned, SessionsTyped, Earned
<1>q. QED BY <1>1, <1>2, <1>3, InvMatches DEF Inv

LEMMA InvStep == Inv /\ [Next]_vars => Inv'
<1> SUFFICES ASSUME Inv, [Next]_vars PROVE Inv'
  OBVIOUS
<1> USE DEF Inv
<1>1. TypeOK'
  BY TypingStep
<1>2. /\ \A q \in Requests : Matches(q)'
      /\ logins \subseteq logins'
      /\ \A c \in Clients : tried[c] \subseteq tried'[c]
      /\ \A a, b \in logins' : a[1] = b[1] => a = b
  BY MatchingStep, InvMatches
<1>3. CallsMatch' /\ FrontPageIsServed'
  BY <1>2 DEF CallsMatch, FrontPageIsServed, Matches
<1>4. OneAccountPerName'
  BY <1>2 DEF OneAccountPerName, Matches
<1>5. SessionsAreEarned'
  BY <1>2, EarnedStep, InvMatches
<1>q. QED BY <1>1, <1>3, <1>4, <1>5

\* The inductive invariant of the web server and its data layer.
THEOREM LitterInvariant == Spec => []Inv
<1>q. QED BY InvInit, InvStep, PTL DEF Spec

\* The state is typed; getTotalPosts never leaves a total below -1.
THEOREM LitterTypeCorrect == Spec => []TypeOK
<1>1. Inv => TypeOK
  BY DEF Inv
<1>q. QED BY <1>1, LitterInvariant, PTL

\* getRecentPosts and getLikedPosts never refuse the first page.
THEOREM FrontPageAlwaysServed == Spec => []FrontPageIsServed
<1>1. Inv => FrontPageIsServed
  BY DEF Inv
<1>q. QED BY <1>1, LitterInvariant, PTL

\* addLogin: one account for a name, owned by whoever it returned true to.
THEOREM AccountsAreOwned == Spec => []OneAccountPerName
<1>1. Inv => OneAccountPerName
  BY DEF Inv
<1>q. QED BY <1>1, LitterInvariant, PTL

\* req.session.loginuser is an account whose password the client has sent.
THEOREM SessionsAlwaysEarned == Spec => []SessionsAreEarned
<1>1. Inv => SessionsAreEarned
  BY DEF Inv
<1>q. QED BY <1>1, LitterInvariant, PTL

-----------------------------------------------------------------------------
\* Whether the total is still to be adjusted for the write of a request.
OwesAdd(r) == at[r] = "insert" /\ answer[r] = 1
OwesDelete(r) == at[r] = "delete" /\ answer[r] = 1
Count(b) == IF b THEN 1 ELSE 0

LEMMA OneOut ==
    ASSUME NEW S \in SUBSET Requests, NEW r \in Requests
    PROVE  /\ Cardinality(S) = Cardinality(S \ {r}) + Count(r \in S)
           /\ Cardinality(S \ {r}) \in Nat
BY RequestsAssumption, FS_Subset, FS_RemoveElement, FS_CardinalityType DEF Count

\* The error of the total after a step in which only one request goes on.
LEMMA DriftAfter ==
    ASSUME TypeOK, TypeOK', NEW r \in Requests,
           \A q \in Requests \ {r} : at'[q] = at[q] /\ answer'[q] = answer[q]
    PROVE  Drift' = Drift + (total' - total) - (Cardinality(posts') - Cardinality(posts))
                      + (Count(OwesAdd(r)') - Count(OwesAdd(r)))
                      - (Count(OwesDelete(r)') - Count(OwesDelete(r)))
<1>1. OwedAdds' \ {r} = OwedAdds \ {r} /\ OwedDeletes' \ {r} = OwedDeletes \ {r}
  BY DEF OwedAdds, OwedDeletes
<1>2. /\ OwedAdds \in SUBSET Requests /\ OwedAdds' \in SUBSET Requests
      /\ OwedDeletes \in SUBSET Requests /\ OwedDeletes' \in SUBSET Requests
  BY DEF OwedAdds, OwedDeletes
<1>3. /\ Cardinality(OwedAdds) = Cardinality(OwedAdds \ {r}) + Count(r \in OwedAdds)
      /\ Cardinality(OwedAdds') = Cardinality(OwedAdds' \ {r}) + Count(r \in OwedAdds')
      /\ Cardinality(OwedAdds \ {r}) \in Nat
  BY <1>2, OneOut
<1>4. /\ Cardinality(OwedDeletes) = Cardinality(OwedDeletes \ {r}) + Count(r \in OwedDeletes)
      /\ Cardinality(OwedDeletes') = Cardinality(OwedDeletes' \ {r}) + Count(r \in OwedDeletes')
      /\ Cardinality(OwedDeletes \ {r}) \in Nat
  BY <1>2, OneOut
<1>5. /\ Count(r \in OwedAdds) = Count(OwesAdd(r)) /\ Count(r \in OwedAdds') = Count(OwesAdd(r)')
      /\ Count(r \in OwedDeletes) = Count(OwesDelete(r))
      /\ Count(r \in OwedDeletes') = Count(OwesDelete(r)')
  BY DEF OwedAdds, OwedDeletes, OwesAdd, OwesDelete, Count
<1>6. /\ Count(OwesAdd(r)) \in Int /\ Count(OwesAdd(r)') \in Int
      /\ Count(OwesDelete(r)) \in Int /\ Count(OwesDelete(r)') \in Int
  BY DEF Count
<1>7. Cardinality(posts') \in Int
  <2>1. next_id' - 1 \in Nat /\ posts' \in SUBSET (1..next_id'-1)
    BY PagesAssumption DEF TypeOK, TablesTyped
  <2> DEFINE P == posts'
             n == next_id' - 1
  <2>2. n \in Nat /\ P \in SUBSET (1..n)
    BY <2>1
  <2> HIDE DEF P, n
  <2>3. Cardinality(P) \in Nat
    BY <2>2, CountOfPosts
  <2>q. QED BY <2>3 DEF P
<1>8. Cardinality(posts) \in Int /\ total \in Int /\ total' \in Int
  BY CountIsNat DEF TypeOK, TablesTyped
<1>9. /\ Cardinality(OwedAdds') - Cardinality(OwedAdds) = Count(OwesAdd(r)') - Count(OwesAdd(r))
      /\ Cardinality(OwedAdds) \in Int /\ Cardinality(OwedAdds') \in Int
  <2>1. Cardinality(OwedAdds' \ {r}) = Cardinality(OwedAdds \ {r})
    BY <1>1
  <2>q. QED BY <2>1, <1>3, <1>5, <1>6
<1>10. /\ Cardinality(OwedDeletes') - Cardinality(OwedDeletes)
             = Count(OwesDelete(r)') - Count(OwesDelete(r))
       /\ Cardinality(OwedDeletes) \in Int /\ Cardinality(OwedDeletes') \in Int
  <2>1. Cardinality(OwedDeletes' \ {r}) = Cardinality(OwedDeletes \ {r})
    BY <1>1
  <2>q. QED BY <2>1, <1>4, <1>5, <1>6
<1>11. /\ Drift = total - (Cardinality(posts) - Cardinality(OwedAdds) + Cardinality(OwedDeletes))
       /\ Drift' = total' - (Cardinality(posts') - Cardinality(OwedAdds') + Cardinality(OwedDeletes'))
  BY DEF Drift
<1>q. QED BY <1>6, <1>7, <1>8, <1>9, <1>10, <1>11

LEMMA NumbersTyped ==
    ASSUME TypeOK PROVE Drift \in Int /\ Cardinality(posts) \in Int /\ total \in Int
<1>1. OwedAdds \in SUBSET Requests /\ OwedDeletes \in SUBSET Requests
  BY DEF OwedAdds, OwedDeletes
<1>2. Cardinality(OwedAdds) \in Int /\ Cardinality(OwedDeletes) \in Int
  BY <1>1, FS_Subset, FS_CardinalityType, RequestsAssumption
<1>3. Cardinality(posts) \in Int /\ total \in Int
  BY CountIsNat DEF TypeOK, TablesTyped
<1>q. QED BY <1>2, <1>3 DEF Drift

\* A step in which a request that owes nothing goes on to owe nothing.
LEMMA OwesNothing ==
    ASSUME TypeOK, TypeOK', NEW r \in Requests, UNCHANGED <<total, posts>>,
           \A q \in Requests \ {r} : at'[q] = at[q] /\ answer'[q] = answer[q],
           OwesAdd(r)' <=> OwesAdd(r), OwesDelete(r)' <=> OwesDelete(r)
    PROVE  DriftKept
<1>1. /\ Count(OwesAdd(r)) \in Int /\ Count(OwesAdd(r)') = Count(OwesAdd(r))
      /\ Count(OwesDelete(r)) \in Int /\ Count(OwesDelete(r)') = Count(OwesDelete(r))
  BY DEF Count
<1>q. QED BY <1>1, NumbersTyped, DriftAfter DEF DriftKept

\* addPost and deletePost adjust the total by what they owe.
LEMMA WriteKeeps ==
    ASSUME TypeOK, TypeOK', CallsMatch, NEW r \in Requests, WriteAnswered(r)
    PROVE  DriftKept
<1> USE DEF TypeOK, CallsTyped
<1>1. \A q \in Requests \ {r} : at'[q] = at[q] /\ answer'[q] = answer[q]
  BY DEF WriteAnswered, AdjustTotal, Return, Await
<1>2. ~OwesAdd(r)' /\ ~OwesDelete(r)' /\ UNCHANGED posts
  BY DEF WriteAnswered, AdjustTotal, Return, Await, OwesAdd, OwesDelete, NoAnswer, tables
<1>3. CASE total = -1
  BY <1>3 DEF DriftKept
<1>4. CASE answer[r] # 1
  BY <1>1, <1>2, <1>4, OwesNothing DEF OwesAdd, OwesDelete, WriteAnswered
<1>5. CASE total # -1 /\ answer[r] = 1
  <2>1. total' = total + Change(fn[r])
    BY <1>5 DEF WriteAnswered, AdjustTotal
  <2>2. /\ at[r] = "insert" => fn[r] = "addPost" 
        /\ at[r] = "delete" => fn[r] = "deletePost"
        /\ at[r] \in {"insert", "delete"}
    BY DEF CallsMatch, AwaitsOf, Functions, WriteAnswered, Answered
  <2>3. Change(fn[r]) = Count(OwesAdd(r)) - Count(OwesDelete(r))
    BY <1>5, <2>2 DEF Change, Count, OwesAdd, OwesDelete
  <2>4. Count(OwesAdd(r)') = 0 /\ Count(OwesDelete(r)') = 0
    BY <1>2 DEF Count
  <2>5. Count(OwesAdd(r)) \in Int /\ Count(OwesDelete(r)) \in Int
    BY DEF Count
  <2>q. QED BY <1>1, <1>2, <2>1, <2>3, <2>4, <2>5, NumbersTyped, DriftAfter DEF DriftKept
<1>q. QED BY <1>3, <1>4, <1>5

\* A request owes the change it has made to the table.
LEMMA InsertKeeps ==
    ASSUME TypeOK, TypeOK', NEW r \in Requests, ExecuteInsert(r)
    PROVE  DriftKept
<1> USE DEF TypeOK, CallsTyped
<1>1. (\A q \in Requests \ {r} : at'[q] = at[q] /\ answer'[q] = answer[q]) /\ UNCHANGED total
  BY DEF ExecuteInsert, Executes
<1>2. Cardinality(posts') = Cardinality(posts) + 1
  <2>1. next_id \notin posts
    BY PagesAssumption DEF TablesTyped
  <2>q. QED BY <2>1, CountIsNat, FS_AddElement DEF ExecuteInsert
<1>3. /\ Count(OwesAdd(r)) = 0 /\ Count(OwesAdd(r)') = 1
      /\ Count(OwesDelete(r)) = 0 /\ Count(OwesDelete(r)') = 0
  BY DEF ExecuteInsert, Executes, OwesAdd, OwesDelete, NoAnswer, Count
<1>q. QED BY <1>1, <1>2, <1>3, NumbersTyped, DriftAfter DEF DriftKept

LEMMA DeleteKeeps ==
    ASSUME TypeOK, TypeOK', NEW r \in Requests, ExecuteDelete(r)
    PROVE  DriftKept
<1> USE DEF TypeOK, CallsTyped
<1>1. (\A q \in Requests \ {r} : at'[q] = at[q] /\ answer'[q] = answer[q]) /\ UNCHANGED total
  BY DEF ExecuteDelete, Executes
<1>2. Cardinality(posts') = Cardinality(posts) - Count(num[r] \in posts)
  <2>1. posts' = posts \ {num[r]}
    BY DEF ExecuteDelete
  <2>2. /\ num[r] \in posts => Cardinality(posts \ {num[r]}) = Cardinality(posts) - 1
        /\ num[r] \notin posts => Cardinality(posts \ {num[r]}) = Cardinality(posts)
    BY CountIsNat, FS_RemoveElement
  <2>q. QED BY <2>1, <2>2, CountIsNat DEF Count
<1>3. /\ Count(OwesAdd(r)) = 0 /\ Count(OwesAdd(r)') = 0
      /\ Count(OwesDelete(r)) = 0 /\ Count(OwesDelete(r)') = Count(num[r] \in posts)
  <2>1. /\ at[r] = "delete" /\ at'[r] = "delete" /\ answer[r] = -1
        /\ answer'[r] = IF num[r] \in posts THEN 1 ELSE 0
    BY DEF ExecuteDelete, Executes, NoAnswer
  <2>2. ~OwesAdd(r) /\ ~OwesAdd(r)' /\ ~OwesDelete(r) /\ (OwesDelete(r)' <=> num[r] \in posts)
    BY <2>1 DEF OwesAdd, OwesDelete
  <2>q. QED BY <2>2 DEF Count
<1>4. Count(num[r] \in posts) \in Int
  BY DEF Count
<1>q. QED BY <1>1, <1>2, <1>3, <1>4, NumbersTyped, DriftAfter DEF DriftKept

LEMMA DriftStep == ASSUME Inv, Inv', [Next]_vars PROVE DriftKept
<1> USE DEF Inv, TypeOK, CallsTyped
<1>1. ASSUME NEW r \in Requests, NEW c \in Clients,
             \/ \E page \in 0..MaxPage : GetPage(r, c, page)
             \/ CreatePost(r, c)
             \/ \E id \in 1..MaxPosts : ChangePost(r, c, id)
             \/ \E a \in Accounts : SignUp(r, c, a) \/ LogIn(r, c, a)
      PROVE  DriftKept
  <2>1. at[r] = "idle" /\ answer'[r] = NoAnswer /\ UNCHANGED <<total, posts>>
    BY <1>1 DEF GetPage, CreatePost, ChangePost, SignUp, LogIn, getPosts, addPost, deletePost,
       updatePost, addLogin, checkLogin, Call, Enter, Free, Await, Paginate, Return, tables
  <2>2. \A q \in Requests \ {r} : at'[q] = at[q] /\ answer'[q] = answer[q]
    BY <1>1 DEF GetPage, CreatePost, ChangePost, SignUp, LogIn, getPosts, addPost, deletePost,
       updatePost, addLogin, checkLogin, Call, Enter, Await, Paginate, Return
  <2>q. QED BY <2>1, <2>2, OwesNothing DEF OwesAdd, OwesDelete, NoAnswer
<1>2. ASSUME NEW r \in Requests, Reply(r) \/ Unhandled(r)
      PROVE  DriftKept
  <2>1. Gone(r) /\ at[r] \in {"idle", "count", "rejected"}
    BY <1>2 DEF Reply, Unhandled, CallsMatch
  <2>q. QED BY <2>1, OwesNothing DEF Gone, OwesAdd, OwesDelete, tables
<1>3. ASSUME NEW r \in Requests, Resume(r)
      PROVE  DriftKept
  <2>1. CASE CountAnswered(r)
    <3>1. at[r] = "count" /\ at'[r] # "count"
      BY <2>1 DEF CountAnswered, Answered, Paginate, Return, Await
    <3>q. QED BY <3>1 DEF DriftKept
  <2>2. CASE WriteAnswered(r)
    BY <2>2, WriteKeeps
  <2>3. CASE Resume(r) /\ ~CountAnswered(r) /\ ~WriteAnswered(r)
    <3>1. answer'[r] = NoAnswer /\ UNCHANGED <<total, posts>>
      BY <2>3 DEF Resume, PageAnswered, UpdateAnswered, FindAnswered, Hashed, CreateAnswered,
         PasswordAnswered, Compared, Throws, Return, Await, tables
    <3>2. \A q \in Requests \ {r} : at'[q] = at[q] /\ answer'[q] = answer[q]
      BY <2>3 DEF Resume, PageAnswered, UpdateAnswered, FindAnswered, Hashed, CreateAnswered,
         PasswordAnswered, Compared, Throws, Return, Await
    <3>3. ~OwesAdd(r) /\ ~OwesDelete(r)
      BY <2>3 DEF Resume, PageAnswered, UpdateAnswered, FindAnswered, Hashed, CreateAnswered,
         PasswordAnswered, Compared, Throws, Answered, OwesAdd, OwesDelete, Rejected
    <3>q. QED BY <3>1, <3>2, <3>3, OwesNothing DEF OwesAdd, OwesDelete, NoAnswer
  <2>q. QED BY <1>3, <2>1, <2>2, <2>3
<1>4. ASSUME NEW r \in Requests, ExecuteRead(r) \/ ExecuteCreate(r)
      PROVE  DriftKept
  <2>1. /\ \A q \in Requests \ {r} : at'[q] = at[q] /\ answer'[q] = answer[q]
        /\ UNCHANGED <<total, posts, at>> /\ at[r] \notin {"insert", "delete"}
    BY <1>4 DEF ExecuteRead, ExecuteCreate, Executes, tables
  <2>q. QED BY <2>1, OwesNothing DEF OwesAdd, OwesDelete
<1>5. ASSUME NEW r \in Requests, QueryFails(r)
      PROVE  DriftKept
  <2>1. CASE OwesAdd(r) \/ OwesDelete(r)
    <3>1. r \in OwedAdds \union OwedDeletes /\ answer'[r] = Rejected
      BY <1>5, <2>1 DEF QueryFails, OwesAdd, OwesDelete, OwedAdds, OwedDeletes
    <3>q. QED BY <3>1 DEF DriftKept
  <2>2. CASE ~OwesAdd(r) /\ ~OwesDelete(r)
    BY <1>5, <2>2, OwesNothing DEF QueryFails, OwesAdd, OwesDelete, Rejected, tables
  <2>q. QED BY <2>1, <2>2
<1>6. ASSUME UNCHANGED <<total, posts, at, answer>>
      PROVE  DriftKept
  BY <1>6 DEF DriftKept, Drift, OwedAdds, OwedDeletes
<1>7. CASE \E c \in Clients : LogOut(c)
  BY <1>6, <1>7 DEF LogOut, datavars, tables
<1>8. CASE Restart
  BY <1>8 DEF Restart, Forget, DriftKept
<1>9. CASE UNCHANGED vars
  BY <1>6, <1>9 DEF vars, datavars, tables
<1>10. ASSUME NEW r \in Requests, Execute(r) PROVE DriftKept
  BY <1>4, <1>10, InsertKeeps, DeleteKeeps DEF Execute
<1>q. QED BY <1>1, <1>2, <1>3, <1>5, <1>7, <1>8, <1>9, <1>10 DEF Next

\* The cached total keeps its error through any overlap of additions and
\* deletions; only a count that raced with them, or a lost answer, changes it.
THEOREM TotalKeepsItsError == Spec => DriftOnlyByCount
<1>1. Inv /\ Inv' /\ [Next]_vars => [DriftKept]_vars
  BY DriftStep
<1>q. QED BY <1>1, LitterInvariant, PTL DEF Spec, DriftOnlyByCount

\* The total is a number or unknown, and whatever it is, the first page is served.
THEOREM TotalAlwaysUsable == Spec => []TotalIsUsable
<1>1. TypeOK /\ FrontPageIsServed => TotalIsUsable
  BY DEF TotalIsUsable
<1> QED
  BY <1>1, LitterTypeCorrect, FrontPageAlwaysServed, PTL
=============================================================================
