----------------------------- MODULE LitterData -----------------------------
(***************************************************************************)
(* data.js: the functions the Litter server calls, over the tables posts   *)
(* and logins of schema.sql.  node runs one of them at a time from one     *)
(* await to the next; the database executes the queries that are under way *)
(* in any order, and the answers arrive in any order.                      *)
(*                                                                         *)
(* A request r is inside one function fn[r].  at[r] is the await it is in: *)
(* the query it sent, or bcrypt at work; answer[r] is what the database    *)
(* answered, a number of posts or of affected rows.                        *)
(***************************************************************************)
EXTENDS Integers, FiniteSets

CONSTANTS Requests,     \* requests that can be under way at the same time
          Users, Passwords,
          PageSize,     \* posts on a page: LIMIT ?,10
          MaxPage,      \* bound on the pages that are asked for
          MaxPosts      \* bound on the posts that are ever inserted

ASSUME PagesAssumption == PageSize \in Nat \ {0} /\ MaxPage \in Nat /\ MaxPosts \in Nat

ASSUME RequestsAssumption == IsFiniteSet(Requests)

VARIABLES total,        \* the cached number of posts, -1 if it is not known
          posts,        \* the ids in table posts
          next_id,      \* its AUTO_INCREMENT
          logins,       \* table logins: pairs of a name and a password
          fn,
          num,          \* the page, or the id of the post
          cred,         \* the name and the password
          at,
          answer,
          more,         \* morePages of the page that is being fetched
          result        \* what the function returned, "none" before

tables == <<posts, next_id, logins>>
inputs == <<fn, num, cred>>
datavars == <<total, tables, inputs, at, answer, more, result>>

NoAnswer == -1          \* the query has not been executed
Rejected == -2          \* the promise was, or will be, rejected
NoCred == <<>>
Accounts == Users \X Passwords
Queries == {"count", "select", "insert", "delete", "update", "find", "create", "password"}
Hashing == {"hash", "compare"}

DataInit ==
    /\ total = -1
    /\ posts = {}
    /\ next_id = 1
    /\ logins = {}
    /\ fn = [r \in Requests |-> "none"]
    /\ num = [r \in Requests |-> 0]
    /\ cred = [r \in Requests |-> NoCred]
    /\ at = [r \in Requests |-> "idle"]
    /\ answer = [r \in Requests |-> NoAnswer]
    /\ more = [r \in Requests |-> FALSE]
    /\ result = [r \in Requests |-> "none"]

-----------------------------------------------------------------------------
Free(r) == at[r] = "idle" /\ result[r] = "none"

Await(r, what) ==
    /\ at' = [at EXCEPT ![r] = what]
    /\ answer' = [answer EXCEPT ![r] = NoAnswer]

Return(r, value) ==
    /\ Await(r, "idle")
    /\ result' = [result EXCEPT ![r] = value]

\* The request is over, its variables are gone.  A count that addPost and
\* deletePost did not wait for goes on and still needs fn.
Gone(r) ==
    /\ fn' = [fn EXCEPT ![r] = IF at[r] = "count" THEN @ ELSE "none"]
    /\ num' = [num EXCEPT ![r] = 0]
    /\ cred' = [cred EXCEPT ![r] = NoCred]
    /\ more' = [more EXCEPT ![r] = FALSE]
    /\ result' = [result EXCEPT ![r] = "none"]
    /\ at' = [at EXCEPT ![r] = IF @ = "count" THEN @ ELSE "idle"]
    /\ UNCHANGED <<total, tables, answer>>

\* The answer to the query what has arrived.
Answered(r, what) == at[r] = what /\ answer[r] >= 0

Enter(r, f, n, c) ==
    /\ Free(r)
    /\ fn' = [fn EXCEPT ![r] = f]
    /\ num' = [num EXCEPT ![r] = n]
    /\ cred' = [cred EXCEPT ![r] = c]

\* A function that begins with a query.
Call(r, f, n, c, query) ==
    /\ Enter(r, f, n, c)
    /\ Await(r, query)
    /\ UNCHANGED <<total, tables, more, result>>

addPost(r) == Call(r, "addPost", 0, NoCred, "insert")
deletePost(r, id) == Call(r, "deletePost", id, NoCred, "delete")
updatePost(r, id) == Call(r, "updatePost", id, NoCred, "update")  \* editPost, likePost
addLogin(r, c) == Call(r, "addLogin", 0, c, "find")
checkLogin(r, c) == Call(r, "checkLogin", 0, c, "password")

\* getRecentPosts and getLikedPosts, which differ in the ORDER BY: refuse a
\* page beyond the end, or fetch it and see whether there are more.
Paginate(r, page, size) ==
    IF page * PageSize > size
    THEN Return(r, "false") /\ UNCHANGED more
    ELSE /\ Await(r, "select")
         /\ more' = [more EXCEPT ![r] = size > page * PageSize + PageSize]
         /\ UNCHANGED result

getPosts(r, page) ==
    /\ Enter(r, "getPosts", page, NoCred)
    /\ IF total = -1 THEN Await(r, "count") /\ UNCHANGED <<more, result>>
                     ELSE Paginate(r, page, total)
    /\ UNCHANGED <<total, tables>>

-----------------------------------------------------------------------------
\* The argument of getTotalPosts.
Change(f) == CASE f = "addPost" -> 1 [] f = "deletePost" -> -1 [] OTHER -> 0

AdjustTotal_Blind(r) ==         \* mutant: without the test for -1
    Await(r, "idle") /\ total' = total + Change(fn[r])

\* getTotalPosts(change) after a write: the write does not wait for it, but the
\* count may still be under way when the request has been answered.
AdjustTotal(r) ==
    IF total = -1 THEN Await(r, "count") /\ UNCHANGED total
                  ELSE Await(r, "idle") /\ total' = total + Change(fn[r])

\* The rest of getTotalPosts when it had to count.
CountAnswered(r) ==
    /\ Answered(r, "count")
    /\ total' = answer[r] + Change(fn[r])
    /\ IF fn[r] = "getPosts" THEN Paginate(r, num[r], total')
                             ELSE Await(r, "idle") /\ UNCHANGED <<more, result>>
    /\ UNCHANGED <<tables, inputs>>

PageAnswered(r) ==
    /\ Answered(r, "select")
    /\ Return(r, IF more[r] THEN "more" ELSE "last")
    /\ UNCHANGED <<total, tables, inputs, more>>

WriteAnswered_Always(r) ==      \* mutant: whatever affectedRows is
    /\ Answered(r, "insert") \/ Answered(r, "delete")
    /\ result' = [result EXCEPT ![r] = "true"]
    /\ AdjustTotal(r)
    /\ UNCHANGED <<tables, inputs, more>>

\* addPost and deletePost: adjust the total if a row was affected, and return.
WriteAnswered(r) ==
    /\ Answered(r, "insert") \/ Answered(r, "delete")
    /\ IF answer[r] = 1
       THEN result' = [result EXCEPT ![r] = "true"] /\ AdjustTotal(r)
       ELSE Return(r, "false") /\ UNCHANGED total
    /\ UNCHANGED <<tables, inputs, more>>

UpdateAnswered(r) ==
    /\ Answered(r, "update")
    /\ Return(r, IF answer[r] = 1 THEN "true" ELSE "false")
    /\ UNCHANGED <<total, tables, inputs, more>>

\* addLogin: refuse a name that is there, else hash the password and insert.
FindAnswered(r) ==
    /\ Answered(r, "find")
    /\ IF answer[r] = 1 THEN Return(r, "false")
                        ELSE Await(r, "hash") /\ UNCHANGED result
    /\ UNCHANGED <<total, tables, inputs, more>>

Hashed(r) ==
    /\ at[r] = "hash"
    /\ Await(r, "create")
    /\ UNCHANGED <<total, tables, inputs, more, result>>

CreateAnswered(r) ==
    /\ Answered(r, "create")
    /\ Return(r, IF answer[r] = 1 THEN "true" ELSE "false")
    /\ UNCHANGED <<total, tables, inputs, more>>

\* checkLogin: compare with the password of the first row.  If there is none,
\* retval[0]["password"] throws.
PasswordAnswered(r) ==
    /\ Answered(r, "password")
    /\ Await(r, IF answer[r] = 0 THEN "rejected" ELSE "compare")
    /\ UNCHANGED <<total, tables, inputs, more, result>>

Compared(r) ==
    /\ at[r] = "compare"
    /\ Return(r, IF cred[r] \in logins THEN "true" ELSE "false")
    /\ UNCHANGED <<total, tables, inputs, more>>

\* No function catches the error of a query.
Throws(r) ==
    /\ at[r] \in Queries
    /\ answer[r] = Rejected
    /\ Await(r, "rejected")
    /\ UNCHANGED <<total, tables, inputs, more, result>>

Resume(r) ==
    \/ CountAnswered(r) \/ PageAnswered(r) \/ WriteAnswered(r) \/ UpdateAnswered(r)
    \/ FindAnswered(r) \/ Hashed(r) \/ CreateAnswered(r)
    \/ PasswordAnswered(r) \/ Compared(r)
    \/ Throws(r)

-----------------------------------------------------------------------------
\* The database.
Executes(r, query, value) ==
    /\ at[r] = query
    /\ answer[r] = NoAnswer
    /\ answer' = [answer EXCEPT ![r] = value]
    /\ UNCHANGED <<total, inputs, at, more, result>>

ExecuteRead(r) ==
    /\ \/ Executes(r, "count", Cardinality(posts))
       \/ Executes(r, "select", 1)
       \/ Executes(r, "update", IF num[r] \in posts THEN 1 ELSE 0)
       \/ \E query \in {"find", "password"} :
             Executes(r, query, IF \E a \in logins : a[1] = cred[r][1] THEN 1 ELSE 0)
    /\ UNCHANGED tables

ExecuteInsert(r) ==
    /\ next_id <= MaxPosts
    /\ Executes(r, "insert", 1)
    /\ posts' = posts \union {next_id}
    /\ next_id' = next_id + 1
    /\ UNCHANGED logins

ExecuteDelete(r) ==
    /\ Executes(r, "delete", IF num[r] \in posts THEN 1 ELSE 0)
    /\ posts' = posts \ {num[r]}
    /\ UNCHANGED <<next_id, logins>>

\* Mutant: no UNIQUE(user) in the schema.
ExecuteCreate_NotUnique(r) ==
    /\ Executes(r, "create", 1)
    /\ logins' = logins \union {cred[r]}
    /\ UNCHANGED <<posts, next_id>>

\* UNIQUE(user): a second row with the name is an error, not zero affected rows.
ExecuteCreate(r) ==
    /\ at[r] = "create"
    /\ IF \E a \in logins : a[1] = cred[r][1]
       THEN Executes(r, "create", Rejected) /\ UNCHANGED logins
       ELSE Executes(r, "create", 1) /\ logins' = logins \union {cred[r]}
    /\ UNCHANGED <<posts, next_id>>

Execute(r) == ExecuteRead(r) \/ ExecuteInsert(r) \/ ExecuteDelete(r) \/ ExecuteCreate(r)

\* The connection to the database breaks, before or after a query is executed.
QueryFails(r) ==
    /\ at[r] \in Queries
    /\ answer[r] # Rejected
    /\ answer' = [answer EXCEPT ![r] = Rejected]
    /\ UNCHANGED <<total, tables, inputs, at, more, result>>

\* The process ends, by an error or a signal, and is started again: the tables
\* are all that is left.
Forget ==
    /\ total' = -1
    /\ fn' = [r \in Requests |-> "none"]
    /\ num' = [r \in Requests |-> 0]
    /\ cred' = [r \in Requests |-> NoCred]
    /\ at' = [r \in Requests |-> "idle"]
    /\ answer' = [r \in Requests |-> NoAnswer]
    /\ more' = [r \in Requests |-> FALSE]
    /\ result' = [r \in Requests |-> "none"]
    /\ UNCHANGED tables
=============================================================================
