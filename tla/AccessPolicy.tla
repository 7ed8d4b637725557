----------------------------- MODULE AccessPolicy -----------------------------
(***************************************************************************)
(* The access policies of a tenant, the platform's attribute dictionary    *)
(* and policy templates, and the checks that a tree of AND, OR and leaf    *)
(* nodes passes before a row is written (PolicyService, policytree).       *)
(*                                                                         *)
(* Nothing here runs in a transaction: an update finds a row, validates    *)
(* the new tree against the attributes it then reads, and saves the whole  *)
(* row it found.  GORM's Save updates a live row and, when that changes    *)
(* nothing because the row has been deleted meanwhile, inserts it again    *)
(* over the deleted one.                                                   *)
(*                                                                         *)
(* A tree is a record: nodes carry every field, the ones JSON leaves out   *)
(* are empty.  "stable" stands for valueId, valueCode and path of a leaf   *)
(* and says whether they are absent, agree with the tenant's dictionary or *)
(* differ from it.  A row keeps its tree, the expression and the status.   *)
(*                                                                         *)
(* A code or a value is atomic, and Text says how it is written: as marks, *)
(* stretches of text an expression is put together from.  The brackets,    *)
(* the operators, the quotation mark, a blank and the two separators are   *)
(* marks of their own, wherever they stand in a text.                      *)
(***************************************************************************)
EXTENDS Naturals, Sequences, FiniteSets, FiniteSetsExt, Functions

CONSTANTS Handlers,         \* requests at work
          AttributeIds,     \* rows of policy_attributes
          TemplateIds,      \* rows of policy_templates
          PolicyIds,        \* rows of access_policies of the tenant
          AttributeInputs,  \* what administrators submit as an attribute
          DocumentInputs,   \* what is submitted as a template or a policy
          Nodes,            \* the nodes of all trees
          TenantAttributes, \* the tenant's attributes: code to type
          TenantValues,     \* their values: pairs of code and value
          DemoAttributes,   \* the demo attributes, in order
          DemoInput,        \* the demo template
          NumericValues,    \* the values strconv.ParseFloat takes
          AttributeCodes,   \* the codes that attrCodePattern matches
          Text,             \* the marks a code or a value is written in
          MaxChanges        \* bound on the calls that write

VARIABLES attributes,  \* policy_attributes
          templates,   \* policy_templates
          policies,    \* access_policies
          opened,      \* enabled values of the tenant: attribute and value
          calls,       \* what each handler is in the middle of
          changes      \* calls that write so far

policyVars == <<attributes, templates, policies, opened, calls, changes>>

NodeTypes == {"AND", "OR", "LEAF"}
PolicyStatuses == {"enabled", "disabled"}
PolicyAttributeTypes == {"string", "number", "enum", "tree"}
NoValue == "nil"

Operators == {"=", "!=", ">=", "<=", "belongs_to"}
Separators == {" AND ", " OR "}
QuoteMark == "quote"
EscapedQuote == "backslash quote"

Children(n) == Range(n.children)

\* A tree is a finite document: whatever nodes are taken, one of them has
\* none of them as a child.
ASSUME AccessPolicyAssumption ==
  /\ AttributeIds \cup TemplateIds \cup PolicyIds \subseteq Nat \ {0}
  /\ \A n \in Nodes : n.children \in Seq(Nodes)
  /\ \A S \in SUBSET Nodes : S # {} => \E n \in S : Children(n) \cap S = {}
  /\ \A i \in AttributeInputs :
       /\ i.type \in PolicyAttributeTypes \cup {"other"}
       /\ i.status \in PolicyStatuses
  /\ \A i \in DocumentInputs : i.tree \in Nodes /\ i.status \in PolicyStatuses
  /\ DemoInput.tree \in Nodes
  /\ DemoAttributes \in Seq({i \in AttributeInputs : i.type \in PolicyAttributeTypes})
  /\ MaxChanges \in Nat

\* Different codes and values are written differently, and a code that the
\* pattern matches is letters, digits and "_", so that "belongs_to" is the
\* only one of these marks it can have.
ASSUME TextAssumption ==
  /\ \A n \in Nodes : n.type = "LEAF" => {n.attribute, n.value} \subseteq DOMAIN Text
  /\ \A c \in DOMAIN Text : Text[c] \in Seq(STRING)
  /\ \A c, d \in DOMAIN Text : Text[c] = Text[d] => c = d
  /\ \A c \in AttributeCodes \cap DOMAIN Text :
       Range(Text[c]) \cap (Separators \cup {"(", ")", ":", "!=", ">=", "<=", QuoteMark}) = {}

\* The nodes of a tree, at whatever depth.
Parts[n \in Nodes] == {n} \cup UNION {Parts[c] : c \in Children(n)}

(***************************************************************************)
(* policytree                                                              *)
(***************************************************************************)
operatorAllowed(operator, type) ==
  CASE type = "number" -> operator \in {"=", ">=", "<="}
    [] type = "tree" -> operator \in {"=", "belongs_to"}
    [] OTHER -> operator \in {"=", "!="}

validateValue(value, meta) ==
  /\ value # NoValue
  /\ CASE meta.type \in {"tree", "enum"} -> value # "" /\ value \in meta.values
       [] meta.type = "number" -> value \in NumericValues
       [] meta.type = "string" -> value # ""
       [] OTHER -> FALSE

\* Checked when the dictionary knows ids and paths, the tenant's does.
validateStableValueFields(node, meta) ==
  meta.type \in {"tree", "enum"} /\ meta.stable => node.stable # "differs"

\* Mutant form: any attribute of the dictionary will do.
validateLeafUnlisted(node, metas) == node.children = <<>>

validateLeafNode(node, metas) ==
  /\ node.children = <<>>
  /\ node.attribute \in AttributeCodes
  /\ node.attribute \in DOMAIN metas
  /\ LET meta == metas[node.attribute]
     IN /\ operatorAllowed(node.operator, meta.type)
        /\ validateValue(node.value, meta)
        /\ validateStableValueFields(node, meta)

\* Mutant form: an AND or OR over one condition passes.
validateLogicOfOne(node) == Len(node.children) >= 1

validateLogicNode(node) ==
  /\ Len(node.children) >= 2
  /\ node.attribute = "" /\ node.operator = "" /\ node.value = NoValue

Validate(root, metas) ==
  LET validateNode[n \in Nodes] ==
        CASE n.type \in {"AND", "OR"} ->
               validateLogicNode(n) /\ \A c \in Children(n) : validateNode[c]
          [] n.type = "LEAF" -> validateLeafNode(n, metas)
          [] OTHER -> FALSE
  IN validateNode[root]

\* A value that is empty, has a blank or a bracket or is AND or OR is quoted
\* by strconv.Quote, which escapes the quotation marks in it.
quoteIfNeeded(value) ==
  LET escaped == [i \in DOMAIN value |->
                    IF value[i] = QuoteMark THEN EscapedQuote ELSE value[i]]
      needed == \/ value \in {<<>>, <<"AND">>, <<"and">>, <<"OR">>, <<"or">>}
                \/ Range(value) \cap ({" ", "(", ")"} \cup Separators) # {}
  IN IF needed THEN <<QuoteMark>> \o escaped \o <<QuoteMark>> ELSE value

\* "=" is shown as ":", and "belongs_to" without anything around it.
shownOperator(operator) ==
  IF operator \in Operators \ {"="} THEN operator ELSE ":"

leafExpression(node) ==
  Text[node.attribute] \o <<shownOperator(node.operator)>> \o quoteIfNeeded(Text[node.value])

Separator(type) == IF type = "AND" THEN " AND " ELSE " OR "

\* strings.Join
Join(parts, word) ==
  LET f[i \in 0..Len(parts)] ==
        CASE i = 0 -> <<>>
          [] i = 1 -> parts[1]
          [] OTHER -> f[i - 1] \o <<word>> \o parts[i]
  IN f[Len(parts)]

\* The expression of a node below the root.
expressionFor[n \in Nodes] ==
  IF n.type = "LEAF" THEN leafExpression(n)
  ELSE <<"(">>
       \o Join([i \in DOMAIN n.children |-> expressionFor[n.children[i]]], Separator(n.type))
       \o <<")">>

\* Mutant form: nested nodes without brackets.
GenerateUnbracketed(root) ==
  LET flat[n \in Nodes] ==
        IF n.type = "LEAF" THEN leafExpression(n)
        ELSE Join([i \in DOMAIN n.children |-> flat[n.children[i]]], Separator(n.type))
  IN flat[root]

GenerateExpression(root) ==
  IF root.type = "LEAF" THEN expressionFor[root]
  ELSE Join([i \in DOMAIN root.children |-> expressionFor[root.children[i]]],
            Separator(root.type))

(***************************************************************************)
(* Tables.  A row that was never written is absent; a deleted one keeps    *)
(* its content and its unique key.                                         *)
(***************************************************************************)
Absent == [state |-> "absent"]

Live(table) == {id \in DOMAIN table : table[id].state = "live"}

NextId(table) == Min({id \in DOMAIN table : table[id] = Absent})

HasRoom(table) == \E id \in DOMAIN table : table[id] = Absent

Attribute(input) ==
  [state |-> "live", code |-> input.code, type |-> input.type,
   values |-> input.values, status |-> input.status]

Document(input) ==
  [state |-> "live", name |-> input.name, tree |-> input.tree,
   expr |-> GenerateExpression(input.tree), status |-> input.status]

Insert(table, row) == [table EXCEPT ![NextId(table)] = row]

\* gorm.DB.Save: the whole row, deleted or not.
Save(table, id, row) == [table EXCEPT ![id] = row]

\* The unique key on attr_code counts deleted rows.
CodeTaken(table, code, self) ==
  \E id \in DOMAIN table \ {self} : table[id] # Absent /\ table[id].code = code

buildAttribute(input) ==
  /\ input.type \in PolicyAttributeTypes
  /\ input.type = "enum" => input.values # {}

\* The enabled attributes of the tenant, with their enabled values.
tenantAttributeMetas ==
  [c \in DOMAIN TenantAttributes |->
     [type |-> TenantAttributes[c], stable |-> TRUE,
      values |-> {p[2] : p \in {q \in opened : q[1] = c}}]]

\* The enabled rows of the platform's dictionary.
platformAttributeMetas(table) ==
  LET open == {id \in Live(table) : table[id].status = "enabled"}
      row(c) == table[CHOOSE id \in open : table[id].code = c]
  IN [c \in {table[id].code : id \in open} |->
        [type |-> row(c).type, values |-> row(c).values, stable |-> FALSE]]

enabledAttributeMetas(op) ==
  IF op = "policy" THEN tenantAttributeMetas ELSE platformAttributeMetas(attributes)

(***************************************************************************)
(* Calls.  "found" is the row an update has read, Absent for a creation;   *)
(* "moved" says that the dictionary has changed since the call began.      *)
(***************************************************************************)
Idle == [op |-> "idle"]

Busy(h, op, step) == calls[h].op = op /\ calls[h].step = step

Counts == changes < MaxChanges /\ changes' = changes + 1

\* The calls once the dictionary has changed for those that validate with it.
Moved(op) ==
  [h \in Handlers |->
     IF calls[h].op = op THEN [calls[h] EXCEPT !.moved = TRUE] ELSE calls[h]]

PolicyInit ==
  /\ attributes = [id \in AttributeIds |-> Absent]
  /\ templates = [id \in TemplateIds |-> Absent]
  /\ policies = [id \in PolicyIds |-> Absent]
  /\ opened = TenantValues
  /\ calls = [h \in Handlers |-> Idle]
  /\ changes = 0

(***************************************************************************)
(* The platform's attribute dictionary                                     *)
(***************************************************************************)
CreateAttribute(input) ==
  /\ Counts
  /\ buildAttribute(input)
  /\ HasRoom(attributes)
  /\ ~CodeTaken(attributes, input.code, 0)
  /\ attributes' = Insert(attributes, Attribute(input))
  /\ calls' = Moved("template")
  /\ UNCHANGED <<templates, policies, opened>>

FindAttributeByID(id) == attributes[id].state = "live"

UpdateAttributeFinds(h, id, input) ==
  /\ Counts
  /\ calls[h] = Idle
  /\ FindAttributeByID(id)
  /\ buildAttribute(input)
  /\ calls' = [calls EXCEPT ![h] =
       [op |-> "attribute", step |-> "valid", id |-> id, found |-> attributes[id],
        input |-> input, moved |-> FALSE]]
  /\ UNCHANGED <<attributes, templates, policies, opened>>

UpdateAttribute(h) ==
  /\ Busy(h, "attribute", "valid")
  /\ LET c == calls[h]
     IN attributes' = IF CodeTaken(attributes, c.input.code, c.id) THEN attributes
                      ELSE Save(attributes, c.id, Attribute(c.input))
  /\ calls' = [Moved("template") EXCEPT ![h] = Idle]
  /\ UNCHANGED <<templates, policies, opened, changes>>

DeleteAttribute(id) ==
  /\ Counts
  /\ FindAttributeByID(id)
  /\ attributes' = [attributes EXCEPT ![id].state = "deleted"]
  /\ calls' = Moved("template")
  /\ UNCHANGED <<templates, policies, opened>>

(***************************************************************************)
(* Templates and policies: an update finds its row, every save validates   *)
(* the submitted tree first.                                               *)
(***************************************************************************)
Begin(h, op, id, found, input) ==
  /\ Counts
  /\ calls[h] = Idle
  /\ calls' = [calls EXCEPT ![h] =
       [op |-> op, step |-> "found", id |-> id, found |-> found,
        row |-> Document(input), moved |-> FALSE]]
  /\ UNCHANGED <<attributes, templates, policies, opened>>

\* Mutant form: deleted rows are found too.
FindUnscoped(table, id) == table[id] # Absent

\* First: a row that is not deleted.
FindDocument(table, id) == table[id].state = "live"

UpdateTemplateFinds(h, id, input) ==
  FindDocument(templates, id) /\ Begin(h, "template", id, templates[id], input)

UpdateAccessPolicyFinds(h, id, input) ==
  FindDocument(policies, id) /\ Begin(h, "policy", id, policies[id], input)

CreateTemplateBegins(h, input) ==
  HasRoom(templates) /\ Begin(h, "template", 0, Absent, input)

CreateAccessPolicyBegins(h, input) ==
  HasRoom(policies) /\ Begin(h, "policy", 0, Absent, input)

\* A tree that does not validate ends the call.
validateTreeJSON(h) ==
  /\ calls[h] # Idle /\ calls[h].step = "found"
  /\ calls' = [calls EXCEPT ![h] =
       IF Validate(calls[h].row.tree, enabledAttributeMetas(calls[h].op))
       THEN [calls[h] EXCEPT !.step = "valid"] ELSE Idle]
  /\ UNCHANGED <<attributes, templates, policies, opened, changes>>

\* The validated row is inserted, or saved over the one that was found.
Stored(table, c) ==
  IF c.found = Absent THEN Insert(table, c.row) ELSE Save(table, c.id, c.row)

SaveTemplate(h) ==
  /\ Busy(h, "template", "valid")
  /\ calls[h].found = Absent => HasRoom(templates)
  /\ templates' = Stored(templates, calls[h])
  /\ calls' = [calls EXCEPT ![h] = Idle]
  /\ UNCHANGED <<attributes, policies, opened, changes>>

SaveAccessPolicy(h) ==
  /\ Busy(h, "policy", "valid")
  /\ calls[h].found = Absent => HasRoom(policies)
  /\ policies' = Stored(policies, calls[h])
  /\ calls' = [calls EXCEPT ![h] = Idle]
  /\ UNCHANGED <<attributes, templates, opened, changes>>

DeleteTemplate(id) ==
  /\ Counts
  /\ FindDocument(templates, id)
  /\ templates' = [templates EXCEPT ![id].state = "deleted"]
  /\ UNCHANGED <<attributes, policies, opened, calls>>

\* The row is found, then deleted if it still exists: no more than one delete.
DeleteAccessPolicy(id) ==
  /\ Counts
  /\ FindDocument(policies, id)
  /\ policies' = [policies EXCEPT ![id].state = "deleted"]
  /\ UNCHANGED <<attributes, templates, opened, calls>>

\* The database or the process fails the call.
CallFails(h) ==
  /\ calls[h] # Idle
  /\ calls' = [calls EXCEPT ![h] = Idle]
  /\ UNCHANGED <<attributes, templates, policies, opened, changes>>

(***************************************************************************)
(* What others change: a value of the tenant is enabled or not any more    *)
(* (OrgTree), and a server that starts, or cmd/seed, brings the demo data. *)
(***************************************************************************)
TenantValueChanges(pair) ==
  /\ Counts
  /\ TenantAttributes[pair[1]] = "tree"
  /\ opened' = IF pair \in opened THEN opened \ {pair} ELSE opened \cup {pair}
  /\ calls' = Moved("policy")
  /\ UNCHANGED <<attributes, templates, policies>>

\* The demo attributes are created one after the other, beside all other
\* calls; one whose code is taken, by a deleted row too, is left as it is.
BootstrapBegins(h) ==
  /\ Counts
  /\ calls[h] = Idle
  /\ calls' = [calls EXCEPT ![h] = [op |-> "demo", step |-> "attributes", created |-> 0]]
  /\ UNCHANGED <<attributes, templates, policies, opened>>

BootstrapAttribute(h) ==
  /\ Busy(h, "demo", "attributes")
  /\ calls[h].created < Len(DemoAttributes)
  /\ LET input == DemoAttributes[calls[h].created + 1]
         next == [calls[h] EXCEPT !.created = @ + 1]
     IN \/ /\ CodeTaken(attributes, input.code, 0)
           /\ calls' = [calls EXCEPT ![h] = next]
           /\ UNCHANGED attributes
        \/ /\ ~CodeTaken(attributes, input.code, 0)
           /\ HasRoom(attributes)
           /\ attributes' = Insert(attributes, Attribute(input))
           /\ calls' = [Moved("template") EXCEPT ![h] = next]
  /\ UNCHANGED <<templates, policies, opened, changes>>

\* Then the demo template is created as any other, unless one that is not
\* deleted has its name.
BootstrapTemplate(h) ==
  /\ Busy(h, "demo", "attributes")
  /\ calls[h].created = Len(DemoAttributes)
  /\ calls' = [calls EXCEPT ![h] =
       IF \E id \in Live(templates) : templates[id].name = DemoInput.name THEN Idle
       ELSE [op |-> "template", step |-> "found", id |-> 0, found |-> Absent,
             row |-> Document(DemoInput), moved |-> FALSE]]
  /\ UNCHANGED <<attributes, templates, policies, opened, changes>>

PolicyNext ==
  \/ \E input \in AttributeInputs : CreateAttribute(input)
  \/ \E id \in AttributeIds : DeleteAttribute(id)
  \/ \E id \in TemplateIds : DeleteTemplate(id)
  \/ \E id \in PolicyIds : DeleteAccessPolicy(id)
  \/ \E h \in Handlers :
       \/ \E id \in AttributeIds, input \in AttributeInputs :
            UpdateAttributeFinds(h, id, input)
       \/ UpdateAttribute(h)
       \/ \E input \in DocumentInputs :
            \/ CreateAccessPolicyBegins(h, input)
            \/ \E id \in PolicyIds : UpdateAccessPolicyFinds(h, id, input)
            \/ CreateTemplateBegins(h, input)
            \/ \E id \in TemplateIds : UpdateTemplateFinds(h, id, input)
       \/ validateTreeJSON(h)
       \/ SaveTemplate(h)
       \/ SaveAccessPolicy(h)
       \/ BootstrapBegins(h)
       \/ BootstrapAttribute(h)
       \/ BootstrapTemplate(h)
       \/ CallFails(h)
  \/ \E pair \in TenantValues : TenantValueChanges(pair)

PolicySpec == PolicyInit /\ [][PolicyNext]_policyVars

-----------------------------------------------------------------------------

\* The tables hold rows of the schema, and no stored tree has an AND or OR
\* over fewer than two conditions, at whatever depth (validator.go:36).
PolicyTypeOK ==
  /\ \A id \in AttributeIds : attributes[id] # Absent =>
       attributes[id].type \in PolicyAttributeTypes
  /\ \A table \in {templates, policies} : \A id \in DOMAIN table :
       table[id] # Absent =>
         \A n \in Parts[table[id].tree] :
           n.type # "LEAF" => Cardinality(DOMAIN n.children) >= 2
  /\ \A h \in Handlers : calls[h].op \in {"idle", "attribute", "template", "policy", "demo"}
  /\ changes \in 0..MaxChanges

\* What a leaf asks for, and whether a tree is satisfied by somebody for whom
\* the conditions in S hold.
Condition(node) == <<node.attribute, node.operator, node.value>>

Conditions == {Condition(n) : n \in {m \in Nodes : m.type = "LEAF"}}

Satisfied(root, S) ==
  LET f[n \in Nodes] ==
        CASE n.type = "LEAF" -> Condition(n) \in S
          [] n.type = "AND" -> \A c \in Children(n) : f[c]
          [] OTHER -> \E c \in Children(n) : f[c]
  IN f[root]

LiveRows == {templates[id] : id \in Live(templates)} \cup {policies[id] : id \in Live(policies)}

SameExpressionSamePeople(p, q) ==
  p.expr = q.expr => \A S \in SUBSET Conditions : Satisfied(p.tree, S) = Satisfied(q.tree, S)

Leaves(tree) == {n \in Parts[tree] : n.type = "LEAF"}

\* No value has a quotation mark in it, and no attribute code "belongs_to".
Plain(tree) ==
  \A n \in Leaves(tree) : /\ "belongs_to" \notin Range(Text[n.attribute])
                          /\ QuoteMark \notin Range(Text[n.value])

\* Two stored rows with the same expression admit the same people, however
\* AND and OR nest and whatever blanks, brackets and separators their values
\* have (expression.go:14, 49), if their trees are plain.  Of others it is not
\* true: a value with a quotation mark and no blank is not quoted.
PlainExpressionsTell ==
  \A p, q \in LiveRows : Plain(p.tree) /\ Plain(q.tree) => SameExpressionSamePeople(p, q)

Returns(old, new) ==
  {id \in DOMAIN old : old[id].state = "deleted" /\ new[id].state = "live"}

\* An update of the row, which it found before it was deleted, is at work.
Overlaps(op, id) ==
  \E h \in Handlers :
    calls[h].op = op /\ calls[h].id = id /\ calls[h].found.state = "live"

\* A deleted attribute, template or policy comes back only when an update
\* that had found it before the deletion saves it afterwards.
DeletedReturnsOnlyByOverlap ==
  [][/\ \A id \in Returns(attributes, attributes') : Overlaps("attribute", id)
     /\ \A id \in Returns(templates, templates') : Overlaps("template", id)
     /\ \A id \in Returns(policies, policies') : Overlaps("policy", id)]_policyVars

\* Every leaf names an attribute that is open, and a value that is.
OpenTree(tree, metas) ==
  \A n \in Leaves(tree) :
    /\ n.attribute \in DOMAIN metas
    /\ metas[n.attribute].type \in {"enum", "tree"} =>
         n.value \in metas[n.attribute].values

Written(old, new) == {id \in DOMAIN old : new[id] # old[id] /\ new[id].state = "live"}

\* The call that ends in this step began before the dictionary changed.
DictionaryMoved(op, next) ==
  \E h \in Handlers : calls[h].op = op /\ calls[h].moved /\ next[h] = Idle

\* Whatever tree is written uses attributes and values that are open at that
\* moment, unless the dictionary changed while the call was at work.
WrittenTreesAreOpen ==
  [][/\ \A id \in Written(templates, templates') :
          \/ OpenTree(templates'[id].tree, platformAttributeMetas(attributes'))
          \/ DictionaryMoved("template", calls')
     /\ \A id \in Written(policies, policies') :
          \/ OpenTree(policies'[id].tree, tenantAttributeMetas)
          \/ DictionaryMoved("policy", calls')]_policyVars

=============================================================================
