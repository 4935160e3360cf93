------------------------------- MODULE Grants -------------------------------
(***************************************************************************)
(* Accounts and grants: app/api/account.py, app/api/oauth.py and the       *)
(* connection audit of app/services/mcp_v2_guidance_policy.py.             *)
(*                                                                         *)
(* A person signs in with Google or holds a capability key, and connects   *)
(* an application to the account: authorizing gives the application a      *)
(* code, the code is exchanged once for a refresh token, and a refresh     *)
(* token is replaced whenever it is used.  An access token carries what    *)
(* the refresh token next to it carries and is not stored.  The code and   *)
(* the verifier of its challenge stay with one instance of the             *)
(* application, a connection, whose identity is the code's.  A code or a   *)
(* token that has expired is one that is never presented again.            *)
(***************************************************************************)
EXTENDS Naturals, Sequences, FiniteSets

CONSTANTS
  People,        \* Google subjects
  Apps,          \* registered OAuth clients
  Resources,     \* the two MCP endpoints
  Servers,       \* threads, or the loops of two processes during a redeploy
  MaxAccounts,   \* bounds
  MaxCodes,
  MaxTokens

ASSUME GrantsAssumption ==
  MaxAccounts \in Nat /\ MaxCodes \in Nat /\ MaxTokens \in Nat

VARIABLES
  parallel,    \* whether requests are served side by side, fixed in a behaviour
  accounts,    \* how many users there are
  identity,    \* the user of each Google subject, 0 if there is none
  session,     \* the user in each person's cookie
  keys,        \* the users each person holds a capability key of
  codes,       \* oauth_authorization_codes, by created_at
  refresh,     \* oauth_refresh_tokens
  held,        \* the refresh token each connection holds
  lost,        \* the connections that did not receive one of their tokens
  auditing,    \* the codes whose redirect the middleware has yet to audit
  audited,     \* the code whose user each audit event names
  server       \* the request each server is serving

grVars == <<parallel, accounts, identity, session, keys, codes, refresh, held, lost,
            auditing, audited, server>>

accountVars == <<accounts, identity, session, keys>>
grantVars == <<codes, refresh, held, lost>>
auditVars == <<auditing, audited>>

Accounts == 0..MaxAccounts     \* 0 is no account
CodeIds == 1..MaxCodes
TokenIds == 1..MaxTokens

Code == [person : People, user : 1..MaxAccounts, app : Apps, resource : Resources,
         used : BOOLEAN]
Token == [of : CodeIds, user : 1..MaxAccounts, app : Apps, resource : Resources,
          revoked : BOOLEAN]

(* A request between what it has read and its commit.                      *)
SigningIn == [stage : {"signing in"}, person : People, found : Accounts]
Exchanging == [stage : {"code"}, id : CodeIds, app : Apps, resource : Resources]
Refreshing == [stage : {"refresh"}, id : TokenIds]
Waiting == [stage |-> "waiting"]

Accepts(w) ==
  /\ server[w] = Waiting
  /\ parallel \/ (auditing = {} /\ \A v \in Servers : server[v] = Waiting)
At(w, s) == server[w].stage = s
Hands(w, j) == server' = [server EXCEPT ![w] = j]

(* The tokens of a connection that have not been revoked.                  *)
Live(c) == {r \in DOMAIN refresh : refresh[r].of = c /\ ~refresh[r].revoked}

-----------------------------------------------------------------------------
GrInit ==
  /\ parallel \in BOOLEAN
  /\ accounts = 0
  /\ identity = [g \in People |-> 0] /\ session = [g \in People |-> 0]
  /\ keys = [g \in People |-> {}]
  /\ codes = <<>> /\ refresh = <<>>
  /\ held = [c \in CodeIds |-> 0] /\ lost = {}
  /\ auditing = {} /\ audited = [c \in CodeIds |-> 0]
  /\ server = [w \in Servers |-> Waiting]

(* google_callback looks for the identity Google has vouched for.          *)
SignIn(w, g) ==
  /\ Accepts(w)
  /\ Hands(w, [stage |-> "signing in", person |-> g, found |-> identity[g]])
  /\ UNCHANGED <<parallel, accountVars, grantVars, auditVars>>

(* A new user and its identity are one transaction; if the identity has    *)
(* been inserted meanwhile neither is, and the request fails.              *)
SignedIn(w) ==
  LET g == server[w].person
      u == server[w].found
  IN  /\ At(w, "signing in")
      /\ Hands(w, Waiting)
      /\ CASE u # 0 ->
                session' = [session EXCEPT ![g] = u] /\ UNCHANGED <<accounts, identity>>
           [] u = 0 /\ identity[g] # 0 -> UNCHANGED <<accounts, identity, session>>
           [] OTHER -> /\ accounts < MaxAccounts
                       /\ accounts' = accounts + 1
                       /\ identity' = [identity EXCEPT ![g] = accounts + 1]
                       /\ session' = [session EXCEPT ![g] = accounts + 1]
      /\ UNCHANGED <<parallel, keys, grantVars, auditVars>>

(* logout, or the session expires.                                         *)
SignOut(g) ==
  /\ session[g] # 0
  /\ session' = [session EXCEPT ![g] = 0]
  /\ UNCHANGED <<parallel, accounts, identity, keys, grantVars, auditVars, server>>

(* create_account_capability.                                              *)
CreateKey(g) ==
  /\ session[g] # 0 /\ session[g] \notin keys[g]
  /\ keys' = [keys EXCEPT ![g] = @ \cup {session[g]}]
  /\ UNCHANGED <<parallel, accounts, identity, session, grantVars, auditVars, server>>

(* new_capability: a user without an identity.                             *)
NewCapability(g) ==
  /\ accounts < MaxAccounts
  /\ accounts' = accounts + 1
  /\ keys' = [keys EXCEPT ![g] = @ \cup {accounts + 1}]
  /\ UNCHANGED <<parallel, identity, session, grantVars, auditVars, server>>

(* _connecting_user: whom a person may connect an application to, by the   *)
(* account session or by a capability key that they hold.                  *)
MayConnect(g) == keys[g] \cup ({session[g]} \ {0})

(* authorize_submit.                                                       *)
Authorize(w, g, u, a, s) ==
  /\ Accepts(w) /\ Len(codes) < MaxCodes
  /\ u \in MayConnect(g)
  /\ codes' = Append(codes, [person |-> g, user |-> u, app |-> a, resource |-> s,
                             used |-> FALSE])
  /\ auditing' = auditing \cup {Len(codes) + 1}
  /\ UNCHANGED <<parallel, accountVars, refresh, held, lost, audited, server>>

(* The newest code for the application and resource of c.                  *)
Newest(c) ==
  CHOOSE n \in DOMAIN codes :
    /\ codes[n].app = codes[c].app /\ codes[n].resource = codes[c].resource
    /\ \A m \in DOMAIN codes :
         (codes[m].app = codes[c].app /\ codes[m].resource = codes[c].resource) => m <= n

(* _record_oauth_connection, once the middleware has the response back;    *)
(* or it fails, which is swallowed.                                        *)
Audit(c) ==
  /\ auditing' = auditing \ {c}
  /\ audited' = [audited EXCEPT ![c] = Newest(c)]
  /\ UNCHANGED <<parallel, accountVars, grantVars, server>>

AuditFails(c) ==
  /\ auditing' = auditing \ {c}
  /\ UNCHANGED <<parallel, accountVars, grantVars, audited, server>>

(* Mutant: the resource of the code is not compared.                       *)
ReadCodeAnyResource(w, c, a, s) ==
  /\ Accepts(w) /\ ~codes[c].used /\ codes[c].app = a
  /\ Hands(w, [stage |-> "code", id |-> c, app |-> a, resource |-> s])
  /\ UNCHANGED <<parallel, accountVars, grantVars, auditVars>>

(* token, for a code: what the request names is compared with the code.    *)
ReadCode(w, c, a, s) ==
  /\ Accepts(w) /\ ~codes[c].used
  /\ codes[c].app = a /\ codes[c].resource = s
  /\ Hands(w, [stage |-> "code", id |-> c, app |-> a, resource |-> s])
  /\ UNCHANGED <<parallel, accountVars, grantVars, auditVars>>

(* The answer reaches the application, which keeps the new token, or not.  *)
Answered(c, r) ==
  \/ held' = [held EXCEPT ![c] = r] /\ UNCHANGED lost
  \/ lost' = lost \cup {c} /\ UNCHANGED held

(* The code is used, the first token of the connection is issued and the   *)
(* connection event recorded, in one transaction.                          *)
Exchange(w) ==
  LET c == server[w].id
  IN  /\ At(w, "code") /\ Len(refresh) < MaxTokens
      /\ codes' = [codes EXCEPT ![c].used = TRUE]
      /\ refresh' = Append(refresh,
           [of |-> c, user |-> codes[c].user, app |-> server[w].app,
            resource |-> server[w].resource, revoked |-> FALSE])
      /\ Answered(c, Len(refresh) + 1)
      /\ Hands(w, Waiting)
      /\ UNCHANGED <<parallel, accountVars, auditVars>>

(* token, for the refresh token a connection holds; a request that names   *)
(* another application or resource is refused.                             *)
ReadRefresh(w, c) ==
  LET r == held[c]
  IN  /\ Accepts(w) /\ r # 0 /\ ~refresh[r].revoked
      /\ Hands(w, [stage |-> "refresh", id |-> r])
      /\ UNCHANGED <<parallel, accountVars, grantVars, auditVars>>

(* Mutant: the token that was used stays valid.                            *)
RotateBeside(w) ==
  LET old == refresh[server[w].id]
  IN  /\ At(w, "refresh") /\ Len(refresh) < MaxTokens
      /\ refresh' = Append(refresh, [old EXCEPT !.revoked = FALSE])
      /\ Answered(old.of, Len(refresh) + 1)
      /\ Hands(w, Waiting)
      /\ UNCHANGED <<parallel, accountVars, codes, auditVars>>

(* The old token is revoked and the new one issued in one transaction.     *)
Rotate(w) ==
  LET old == refresh[server[w].id]
  IN  /\ At(w, "refresh") /\ Len(refresh) < MaxTokens
      /\ refresh' = Append([refresh EXCEPT ![server[w].id].revoked = TRUE],
                           [old EXCEPT !.revoked = FALSE])
      /\ Answered(old.of, Len(refresh) + 1)
      /\ Hands(w, Waiting)
      /\ UNCHANGED <<parallel, accountVars, codes, auditVars>>

(* The process ends before it has committed.                               *)
ServerEnds(w) ==
  /\ server[w] # Waiting /\ Hands(w, Waiting)
  /\ UNCHANGED <<parallel, accountVars, grantVars, auditVars>>

GrNext ==
  \/ \E w \in Servers :
       \/ SignedIn(w) \/ Exchange(w) \/ Rotate(w) \/ ServerEnds(w)
       \/ \E g \in People :
            \/ SignIn(w, g)
            \/ \E u \in 1..accounts, a \in Apps, s \in Resources : Authorize(w, g, u, a, s)
       \/ \E c \in DOMAIN codes :
            \/ ReadRefresh(w, c)
            \/ \E a \in Apps, s \in Resources : ReadCode(w, c, a, s)
  \/ \E g \in People : SignOut(g) \/ CreateKey(g) \/ NewCapability(g)
  \/ \E c \in auditing : Audit(c) \/ AuditFails(c)

GrSpec == GrInit /\ [][GrNext]_grVars

-----------------------------------------------------------------------------
(* Types of the variables.                                                 *)
GrTypeOK ==
  /\ parallel \in BOOLEAN /\ accounts \in Accounts
  /\ identity \in [People -> Accounts] /\ session \in [People -> Accounts]
  /\ keys \in [People -> SUBSET (1..MaxAccounts)]
  /\ codes \in Seq(Code) /\ Len(codes) <= MaxCodes
  /\ refresh \in Seq(Token) /\ Len(refresh) <= MaxTokens
  /\ held \in [CodeIds -> 0..MaxTokens] /\ lost \subseteq CodeIds
  /\ auditing \subseteq CodeIds /\ audited \in [CodeIds -> 0..MaxCodes]
  /\ server \in [Servers -> SigningIn \cup Exchanging \cup Refreshing \cup {Waiting}]

(* What a token lets an application do is what its person agreed to: the   *)
(* account is one the person has by Google or by a key, whichever requests *)
(* overlap, and account, application and resource never change along a     *)
(* connection.  In order the audit names that person too.                  *)
GrantFaithful ==
  /\ \A c \in DOMAIN codes :
       /\ codes[c].user \in keys[codes[c].person] \cup {identity[codes[c].person]}
       /\ ~parallel => audited[c] \in {0, c}
  /\ \A r \in DOMAIN refresh :
       LET c == codes[refresh[r].of]
       IN  /\ refresh[r].user = c.user /\ refresh[r].app = c.app
           /\ refresh[r].resource = c.resource

(* In order a connection has one live refresh token, and it is the one its *)
(* application holds unless an answer was lost.                            *)
OneLiveToken ==
  ~parallel =>
    \A c \in DOMAIN codes :
      /\ Cardinality(Live(c)) <= 1
      /\ (codes[c].used /\ c \notin lost) => Live(c) = {held[c]}
=============================================================================
