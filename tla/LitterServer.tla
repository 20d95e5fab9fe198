---------------------------- MODULE LitterServer ----------------------------
(***************************************************************************)
(* server.js: one route per function of data.js.  A request loads its      *)
(* client's session when it arrives and, with resave: true, saves it when  *)
(* it is answered.  Composes LitterData.                                   *)
(*                                                                         *)
(* The session store of express-session is external; it is memory of the   *)
(* process.  Requests that are refused before they reach data.js (a missing*)
(* field, not logged in) change nothing and are left out.                  *)
(***************************************************************************)
EXTENDS LitterData

CONSTANTS Clients,      \* browsers, each with one session
          NoUser,       \* req.session.loginuser == null
          DatabaseFails \* whether connections to the database can break

ASSUME NoUserAssumption == NoUser \notin Users

VARIABLES client,       \* whose request it is
          loaded,       \* req.session.loginuser of each request
          session,      \* loginuser in the session store
          tried         \* history: the accounts a client has tried to log in to

vars == <<datavars, client, loaded, session, tried>>

Init ==
    /\ DataInit
    /\ client \in [Requests -> Clients]
    /\ loaded = [r \in Requests |-> NoUser]
    /\ session = [c \in Clients |-> NoUser]
    /\ tried = [c \in Clients |-> {}]

-----------------------------------------------------------------------------
\* A request of client c arrives.
Arrives(r, c) ==
    /\ client' = [client EXCEPT ![r] = c]
    /\ loaded' = [loaded EXCEPT ![r] = session[c]]
    /\ UNCHANGED session

GetPage(r, c, page) == getPosts(r, page) /\ Arrives(r, c) /\ UNCHANGED tried

CreatePost(r, c) ==
    /\ session[c] # NoUser
    /\ addPost(r)
    /\ Arrives(r, c)
    /\ UNCHANGED tried

\* Delete, edit and like a post that is, or was, on a page.
ChangePost(r, c, id) ==
    /\ id < next_id
    /\ deletePost(r, id) \/ updatePost(r, id)
    /\ Arrives(r, c)
    /\ UNCHANGED tried

SignUp(r, c, a) == addLogin(r, a) /\ Arrives(r, c) /\ UNCHANGED tried

LogIn(r, c, a) ==
    /\ checkLogin(r, a)
    /\ Arrives(r, c)
    /\ tried' = [tried EXCEPT ![c] = @ \union {a}]

\* req.session.destroy(), and the end of a session after maxAge.
LogOut(c) ==
    /\ session' = [session EXCEPT ![c] = NoUser]
    /\ UNCHANGED <<datavars, client, loaded, tried>>

\* Mutant: a login is believed whatever checkLogin returned.
LoginUser_Always(r) == IF fn[r] = "checkLogin" THEN cred[r][1] ELSE loaded[r]

\* req.session.loginuser when the request is answered.
LoginUser(r) ==
    IF fn[r] = "checkLogin" /\ result[r] = "true" THEN cred[r][1] ELSE loaded[r]

\* The function has returned: answer the request and save the session.
Reply(r) ==
    /\ result[r] # "none"
    /\ session' = [session EXCEPT ![client[r]] = LoginUser(r)]
    /\ loaded' = [loaded EXCEPT ![r] = NoUser]
    /\ Gone(r)
    /\ UNCHANGED <<client, tried>>

\* A rejection that no route catches ends the process, or, before node 15, only
\* leaves the request without an answer.
Unhandled(r) ==
    /\ at[r] = "rejected"
    /\ result[r] = "none"
    /\ loaded' = [loaded EXCEPT ![r] = NoUser]
    /\ Gone(r)
    /\ UNCHANGED <<client, session, tried>>

\* The process ends at any moment and is started again.
Restart ==
    /\ Forget
    /\ session' = [c \in Clients |-> NoUser]
    /\ loaded' = [r \in Requests |-> NoUser]
    /\ UNCHANGED <<client, tried>>

-----------------------------------------------------------------------------
ServerUnchanged == UNCHANGED <<client, loaded, session, tried>>

Next ==
    \/ \E r \in Requests :
          \/ \E c \in Clients :
                \/ \E page \in 0..MaxPage : GetPage(r, c, page)
                \/ CreatePost(r, c)
                \/ \E id \in 1..MaxPosts : ChangePost(r, c, id)
                \/ \E a \in Accounts : SignUp(r, c, a) \/ LogIn(r, c, a)
          \/ Reply(r)
          \/ Unhandled(r)
          \/ (Resume(r) \/ Execute(r)) /\ ServerUnchanged
          \/ DatabaseFails /\ QueryFails(r) /\ ServerUnchanged
    \/ \E c \in Clients : LogOut(c)
    \/ Restart

Spec == Init /\ [][Next]_vars

-----------------------------------------------------------------------------
Functions == {"none", "getPosts", "addPost", "deletePost", "updatePost",
              "addLogin", "checkLogin"}

Results == {"none", "true", "false", "more", "last"}

TablesTyped ==
    /\ total \in Nat \union {-1}
    /\ posts \subseteq 1..next_id-1
    /\ next_id \in 1..MaxPosts+1
    /\ logins \subseteq Accounts

CallsTyped ==
    /\ fn \in [Requests -> Functions]
    /\ num \in [Requests -> Nat]
    /\ cred \in [Requests -> Accounts \union {NoCred}]
    /\ at \in [Requests -> Queries \union Hashing \union {"idle", "rejected"}]
    /\ answer \in [Requests -> Nat \union {NoAnswer, Rejected}]
    /\ more \in [Requests -> BOOLEAN]
    /\ result \in [Requests -> Results]

SessionsTyped ==
    /\ client \in [Requests -> Clients]
    /\ loaded \in [Requests -> Users \union {NoUser}]
    /\ session \in [Clients -> Users \union {NoUser}]
    /\ tried \in [Clients -> SUBSET Accounts]

\* Types of the state; the cached total is a number of posts or -1, also when
\* deletions outrun the additions it has not seen.
TypeOK == TablesTyped /\ CallsTyped /\ SessionsTyped

\* Writes that have changed the table and not yet the cached total.
OwedAdds == {r \in Requests : at[r] = "insert" /\ answer[r] = 1}
OwedDeletes == {r \in Requests : at[r] = "delete" /\ answer[r] = 1}

\* By how much the cached total is wrong.
Drift ==
    total - (Cardinality(posts) - Cardinality(OwedAdds) + Cardinality(OwedDeletes))

\* The cached total keeps its error, unless the answer to a count arrives or the
\* answer to a write is lost.
DriftKept ==
    total # -1 /\ total' # -1 /\ Drift' # Drift =>
        \E r \in Requests :
           \/ at[r] = "count" /\ at'[r] # "count"
           \/ r \in OwedAdds \union OwedDeletes /\ answer'[r] = Rejected

\* However additions and deletions overlap, and in whatever order their answers
\* come, they leave a total that is right right, and keep the error of one that
\* is wrong: a known total gets another error only from the answer to a count,
\* which may be stale or include the post it is to be adjusted for, or when the
\* answer to a write is lost.
DriftOnlyByCount == [][DriftKept]_vars

\* The first page is always there: whatever error the cached total has, it is
\* never negative when a page is looked up.
FrontPageIsServed ==
    \A r \in Requests : fn[r] = "getPosts" /\ num[r] = 0 => result[r] # "false"

\* A name has one account, and whoever was told that a sign-up succeeded owns
\* it, although two sign-ups can both find the name free.
OneAccountPerName ==
    /\ \A a, b \in logins : a[1] = b[1] => a = b
    /\ \A r \in Requests : fn[r] = "addLogin" /\ result[r] = "true" => cred[r] \in logins

\* Who is logged in, or makes a request as somebody, has at some time sent the
\* password of that account, also when sessions that requests loaded earlier
\* are saved later.
Earned(user, c) == user = NoUser \/ \E a \in tried[c] \intersect logins : a[1] = user

SessionsAreEarned ==
    /\ \A c \in Clients : Earned(session[c], c)
    /\ \A r \in Requests : Earned(loaded[r], client[r])

-----------------------------------------------------------------------------
\* The inductive invariant: the awaits a function has, and what is known of the
\* account it was called with.
AwaitsOf(f) ==
    CASE f = "getPosts" -> {"idle", "count", "select", "rejected"}
      [] f = "addPost" -> {"idle", "insert", "count", "rejected"}
      [] f = "deletePost" -> {"idle", "delete", "count", "rejected"}
      [] f = "updatePost" -> {"idle", "update", "rejected"}
      [] f = "addLogin" -> {"idle", "find", "hash", "create", "rejected"}
      [] f = "checkLogin" -> {"idle", "password", "compare", "rejected"}
      [] OTHER -> {"idle"}

CallsMatch ==
    \A r \in Requests :
        /\ at[r] \in AwaitsOf(fn[r])
        /\ result[r] # "none" =>
              at[r] = "idle" \/ (at[r] \in {"count", "rejected"} /\ fn[r] # "getPosts")
        /\ fn[r] \in {"addLogin", "checkLogin"} => cred[r] \in Accounts
        /\ fn[r] = "checkLogin" => cred[r] \in tried[client[r]]
        /\ fn[r] \in {"addLogin", "checkLogin"} /\ result[r] = "true" => cred[r] \in logins
        /\ at[r] = "create" /\ answer[r] = 1 => cred[r] \in logins

Inv == TypeOK /\ CallsMatch /\ FrontPageIsServed /\ OneAccountPerName /\ SessionsAreEarned

-----------------------------------------------------------------------------

\* The cached total is a number of posts or unknown, and the first page of posts can be
\* served with it, however wrong it is.
TotalIsUsable == TypeOK /\ FrontPageIsServed
=============================================================================
