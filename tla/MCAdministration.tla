-------------------------- MODULE MCAdministration --------------------------
(* The trees and tables of the administration on small instances: menus,    *)
(* departments, dictionaries and the edits of a user share no row, so a     *)
(* behaviour is one of theirs, and the others do not move.                  *)
EXTENDS MenuTree, TLC

CONSTANTS DeptCrowd, MaxDept, MaxUser, Usernames, MaxPath, MaxType, MaxItem, Values,
          RoleIds

VARIABLES part, dept, user, used, change, calm, type, item, given, req, raced, unjust,
          account, lock, edit, last

Depts == INSTANCE Departments WITH Crowd <- DeptCrowd, Names <- Usernames, job <- change
Dicts == INSTANCE Dictionaries WITH Clients <- Handlers
Accts == INSTANCE Accounts WITH Roles <- RoleIds, user <- account, job <- edit

ASSUME PartsAssumption ==
    Depts!DepartmentsAssumption /\ Dicts!DictionariesAssumption /\ Accts!AccountsAssumption

deptVars == <<dept, user, used, change, calm>>
dictVars == <<type, item, given, req, raced, unjust>>
acctVars == <<account, lock, edit, last>>

\* A PUT either moves a row or changes its type and moves it to the root; the
\* two together lead to any table.
MCEdits == {d \in Dto : d.status = None /\ (d.type = None \/ d.parentId = None)}

Symmetry == Permutations(Handlers)

PartsInit ==
    /\ part \in {"menus", "departments", "dictionaries", "accounts"}
    /\ Init /\ Depts!Init /\ Dicts!Init /\ Accts!Init
    /\ part # "accounts" => account.roles = {}

PartsNext ==
    \/ part = "menus" /\ Next /\ UNCHANGED <<part, deptVars, dictVars, acctVars>>
    \/ part = "departments" /\ Depts!Next /\ UNCHANGED <<part, vars, dictVars, acctVars>>
    \/ part = "dictionaries" /\ Dicts!Next /\ UNCHANGED <<part, vars, deptVars, acctVars>>
    \/ part = "accounts" /\ Accts!Next /\ UNCHANGED <<part, vars, deptVars, dictVars>>

PartsSpec == PartsInit /\ [][PartsNext]_<<part, vars, deptVars, dictVars, acctVars>>

-----------------------------------------------------------------------------
\* Each is the property of the component's module, with its types.

\* TreeIsSound: TreeIsComplete of MenuTree.
TreeIsSound == part = "menus" => TypeOK /\ TreeIsComplete

\* PathsFollowParents, UsersAreSound: those of Departments.
PathsFollowParents == part = "departments" => Depts!TypeOK /\ Depts!PathsFollowParents
UsersAreSound == part = "departments" => Depts!UsersAreSound

\* NamesDiffer, OwnValuesPass: those of Dictionaries.
NamesDiffer == part = "dictionaries" => Dicts!TypeOK /\ Dicts!NamesDiffer
OwnValuesPass == part = "dictionaries" => Dicts!OwnValuesPass

\* EditsAreWhole: that of Accounts.
EditsAreWhole == part = "accounts" => Accts!TypeOK /\ Accts!EditsAreWhole
=============================================================================
