----------------------------- MODULE ChatTables -----------------------------
(***************************************************************************)
(* The part of the MySQL schema (script/sql/db-psd.sql) that holds chats   *)
(* and their members, and the statements server/persistence.c runs on it.  *)
(* Every function of persistence.c that is modelled here executes one SQL  *)
(* statement in autocommit mode, so a reader is a state predicate and a    *)
(* writer is one atomic action.                                            *)
(*                                                                         *)
(* Times are left out: the properties of this module only tell REM_TIME =  *)
(* 0 (a member) from REM_TIME # 0 (somebody who has left).                 *)
(***************************************************************************)
EXTENDS Naturals, FiniteSets

CONSTANTS Users,     \* the rows of table users with a usable name
          ChatIds,   \* the ids AUTO_INCREMENT may hand out for table chats
          NoUser,    \* the id -1 that get_user_id returns when it finds nobody
          Friends    \* the rows <<ID1, ID2>> of table friends

ASSUME UsersAssumption == NoUser \notin Users
ASSUME FriendsAssumption == Friends \subseteq Users \X Users

VARIABLES
  valid,    \* the users whose VALID is 1
  status,   \* per chat: no row yet, VALID = 1, or VALID = 0
  admin,    \* per chat: ID_ADMIN
  live,     \* per chat and user: how many rows of users_chats have REM_TIME = 0
  left      \* per chat and user: how many rows of users_chats have REM_TIME # 0

tables == <<valid, status, admin, live, left>>

TablesTypeOK ==
  /\ valid \in SUBSET Users
  /\ status \in [ChatIds -> {"none", "valid", "deleted"}]
  /\ admin \in [ChatIds -> Users \cup {NoUser}]
  /\ live \in [ChatIds -> [Users -> Nat]]
  /\ left \in [ChatIds -> [Users -> Nat]]

-----------------------------------------------------------------------------
(* Helpers on rows.  An INSERT adds one row, an UPDATE ... WHERE rewrites   *)
(* every row of the user in the chat: there is no unique key on the pair.  *)

HasRow(u, c) == live[c][u] + left[c][u] > 0
Members(c) == {u \in Users : live[c][u] > 0}
AllRows(u, c) == live[c][u] + left[c][u]

-----------------------------------------------------------------------------
(* SELECTs.                                                                *)

GetUserId(u) == IF u \in valid THEN u ELSE NoUser

ChatExist(c) == status[c] = "valid"

IsAdmin(u, c) == status[c] # "none" /\ admin[c] = u

ExistUserInChat(u, c) == live[c][u] > 0

ExistUserEntryInChat(u, c) == HasRow(u, c)

\* Mutants: the query forgets REM_TIME, the test on the count is off by one.
StillUsersInChat_AnyRow(c) == \E u \in Users : HasRow(u, c)
StillUsersInChat_OffByOne(c) == Cardinality(Members(c)) > 1
StillUsersInChat(c) == Members(c) # {}

ExistFriendly(u1, u2) == <<u1, u2>> \in Friends \/ <<u2, u1>> \in Friends

-----------------------------------------------------------------------------
(* INSERTs and UPDATEs.                                                    *)

\* AUTO_INCREMENT: the new chat takes an id no row has used.
AddChat(u, c) ==
  /\ status[c] = "none"
  /\ status' = [status EXCEPT ![c] = "valid"]
  /\ admin' = [admin EXCEPT ![c] = u]
  /\ UNCHANGED <<valid, live, left>>

DelChat(c) ==
  /\ status' = [status EXCEPT ![c] = "deleted"]
  /\ UNCHANGED <<valid, admin, live, left>>

ChangeAdmin(u, c) ==
  /\ admin' = [admin EXCEPT ![c] = u]
  /\ UNCHANGED <<valid, status, live, left>>

AddUserChat(u, c) ==
  /\ live' = [live EXCEPT ![c][u] = @ + 1]
  /\ UNCHANGED <<valid, status, admin, left>>

RecoverUserChat(u, c) ==
  /\ live' = [live EXCEPT ![c][u] = AllRows(u, c)]
  /\ left' = [left EXCEPT ![c][u] = 0]
  /\ UNCHANGED <<valid, status, admin>>

\* Mutant: the WHERE clause forgets ID_CHAT.
DelUserChat_EveryChat(u, c) ==
  /\ live' = [d \in ChatIds |-> [live[d] EXCEPT ![u] = 0]]
  /\ left' = [d \in ChatIds |-> [left[d] EXCEPT ![u] = AllRows(u, d)]]
  /\ UNCHANGED <<valid, status, admin>>

DelUserChat(u, c) ==
  /\ live' = [live EXCEPT ![c][u] = 0]
  /\ left' = [left EXCEPT ![c][u] = AllRows(u, c)]
  /\ UNCHANGED <<valid, status, admin>>

DelUser(u) ==
  /\ valid' = valid \ {u}
  /\ UNCHANGED <<status, admin, live, left>>

\* Mutant: one row is moved in every chat, whether the user is in it or not.
DelUserAllChats_OneRow(u) ==
  /\ live' = [c \in ChatIds |-> [live[c] EXCEPT ![u] = @ - 1]]
  /\ left' = [c \in ChatIds |-> [left[c] EXCEPT ![u] = @ + 1]]
  /\ UNCHANGED <<valid, status, admin>>

DelUserAllChats(u) ==
  /\ live' = [c \in ChatIds |-> [live[c] EXCEPT ![u] = 0]]
  /\ left' = [c \in ChatIds |-> [left[c] EXCEPT ![u] = AllRows(u, c)]]
  /\ UNCHANGED <<valid, status, admin>>
=============================================================================
