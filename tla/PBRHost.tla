-------------------------------- MODULE PBRHost --------------------------------
(***************************************************************************)
(* What policy routing keeps on a landing host, and what the agent's       *)
(* actions do to it: the table names in rt_tables, the default route of    *)
(* each routing table, the ip rules, the one nft table that marks traffic, *)
(* and a JSON file a policy.  An action takes several commands and stops   *)
(* at the first that fails; nothing is rolled back.                        *)
(*                                                                         *)
(* A policy's mark stands for its fwmark and its priority, which the panel *)
(* numbers in the same way.                                                *)
(***************************************************************************)
EXTENDS Naturals, FiniteSets

CONSTANTS
  Policy,   \* the policies' ids
  Group,    \* the line groups, numbered in the order in which they are detected
  Mark

ASSUME GroupAssumption == Group \subseteq Nat \ {0} /\ IsFiniteSet(Group)
ASSUME MarkAssumption == Mark \subseteq Nat \ {0}

Table == 1 .. Cardinality(Group)
NoGroup == 0
NoMark == 0
NoFile == [mark |-> 0, table |-> 0, group |-> 0]

(* What a task carries of a policy: its mark, its routing table and the    *)
(* group whose gateway the table is to lead to.                            *)
Data == [mark : Mark, table : Table, group : Group]

VARIABLES
  present,  \* the groups the host has an address of
  names,    \* rt_tables: <<table, group>> pairs
  routes,   \* the group each routing table's default route leads to
  rules,    \* the ip rules: <<mark, table>> pairs
  marked,   \* the mark that table edge_tunnel_pbr sets, NoMark without it
  file      \* pbr.d: the policy as it was last written

hostVars == <<present, names, routes, rules, marked, file>>

HostTypeOK ==
  /\ present \subseteq Group
  /\ names \subseteq Table \X Group
  /\ routes \in [Table -> Group \cup {NoGroup}]
  /\ rules \subseteq Mark \X Table
  /\ marked \in Mark \cup {NoMark}
  /\ file \in [Policy -> Data \cup {NoFile}]

HostInit ==
  /\ present = Group
  /\ names = {} /\ rules = {} /\ marked = NoMark
  /\ routes = [i \in Table |-> NoGroup]
  /\ file = [p \in Policy |-> NoFile]

(* detect_pbr_route_groups numbers the groups it finds one after the other,*)
(* so a group's table is another when one before it comes or goes.         *)
DetectedTable(g) == Cardinality({h \in present : h <= g})

(* The host gets or loses an address. *)
AddressesChange(g) ==
  /\ present' = IF g \in present THEN present \ {g} ELSE present \cup {g}
  /\ UNCHANGED <<names, routes, rules, marked, file>>

-----------------------------------------------------------------------------
(* apply_pbr_policy, as far as it gets: `done' is the number of its        *)
(* commands that took effect.                                              *)
WrittenFile == 1
NamedTable == 2
RoutedTable == 3
RuleDeleted == 4
RuleAdded == 5
MarksDeleted == 6
MarksLoaded == 7

Mutant_RouteAfterRule(done) == done > RuleAdded
RouteReplaced(done) == done >= RoutedTable

Mutant_DeletedLast(r, done) ==
  IF done < RuleDeleted THEN rules ELSE IF done < RuleAdded THEN rules \cup {r} ELSE rules \ {r}
RulesAfter(r, done) ==
  IF done < RuleDeleted THEN rules ELSE IF done < RuleAdded THEN rules \ {r} ELSE rules \cup {r}

ApplyPBRPolicy(p, d, done) ==
  /\ file' = IF done >= WrittenFile THEN [file EXCEPT ![p] = d] ELSE file
  /\ names' = IF done >= NamedTable THEN names \cup {<<d.table, d.group>>} ELSE names
  /\ routes' = IF RouteReplaced(done) THEN [routes EXCEPT ![d.table] = d.group] ELSE routes
  /\ rules' = RulesAfter(<<d.mark, d.table>>, done)
  /\ marked' = IF done < MarksDeleted THEN marked
               ELSE IF done < MarksLoaded THEN NoMark ELSE d.mark
  /\ UNCHANGED present

(* disable_pbr_policy deletes the rule and the nft table, whoever's the    *)
(* latter is, and reports success whether or not they would go.            *)
DisablePBRPolicy(d) ==
  /\ rules' \in {rules, rules \ {<<d.mark, d.table>>}}
  /\ marked' \in {marked, NoMark}
  /\ UNCHANGED <<present, names, routes, file>>

(* verify_pbr_policy looks for the mark and the number of the table        *)
(* anywhere in what ip and nft print, whether it is theirs or not; ip      *)
(* prints a table by its name, so the number may be found or not.          *)
LooksVerified(d) ==
  /\ <<d.table, d.group>> \in names
  /\ marked # NoMark
  /\ d.mark = marked \/ \E i \in Table : <<d.mark, i>> \in rules

(* cleanup_node deletes the rule that each policy's file tells of, the     *)
(* files and the nft table; the routes and the names stay.                 *)
CleanupPBRRules ==
  /\ rules' \in {rules \ R : R \in SUBSET {<<file[p].mark, file[p].table>> : p \in Policy}}
  /\ file' = [p \in Policy |-> NoFile]
  /\ marked' \in {marked, NoMark}
  /\ UNCHANGED <<present, names, routes>>

(* A rule never leads to a table without a route: whatever fails, marked   *)
(* traffic has a way out.                                                  *)
RulesHaveRoutes == \A r \in rules : routes[r[2]] # NoGroup
=============================================================================
