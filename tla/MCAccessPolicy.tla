---------------------------- MODULE MCAccessPolicy ----------------------------
EXTENDS AccessPolicy, TLC

Leaf(attribute, operator, value, stable) ==
  [type |-> "LEAF", children |-> <<>>, attribute |-> attribute,
   operator |-> operator, value |-> value, stable |-> stable]

Logic(type, children) ==
  [type |-> type, children |-> children, attribute |-> "", operator |-> "",
   value |-> NoValue, stable |-> "absent"]

role == Leaf("role", "=", "admin", "absent")
rnd == Leaf("department", "=", "rnd", "agrees")
level == Leaf("level", ">=", "3", "absent")

Form(name, tree, status) == [name |-> name, tree |-> tree, status |-> status]

TheDemoTree == Logic("OR", <<role, Logic("AND", <<rnd, level>>)>>)

DemoTemplate == Form("demo", TheDemoTree, "enabled")

\* (role OR rnd) AND level, role OR (rnd AND level), a leaf whose value the
\* tenant does not know by that id, an OR of one leaf.
SomeDocuments ==
  {Form("own", Logic("AND", <<Logic("OR", <<role, rnd>>), level>>), "enabled"),
   Form("demo", TheDemoTree, "disabled"),
   Form("own", Leaf("department", "belongs_to", "rnd", "differs"), "enabled"),
   Form("own", Logic("OR", <<role>>), "enabled")}

SubTrees(trees) == trees \cup UNION {Children(n) : n \in trees}

\* The trees are of three levels.
SomeNodes == SubTrees(SubTrees({input.tree : input \in SomeDocuments}))

Input(code, type, values, status) ==
  [code |-> code, type |-> type, values |-> values, status |-> status]

roleInput == Input("role", "enum", {"admin", "owner"}, "enabled")
departmentInput == Input("department", "enum", {"rnd"}, "enabled")
levelInput == Input("level", "number", {}, "enabled")

Demo == <<roleInput, departmentInput, levelInput>>

SomeInputs ==
  {roleInput, departmentInput, levelInput,
   Input("role", "enum", {"owner"}, "enabled"),
   Input("level", "number", {}, "disabled")}

TenantPairs == {<<"role", "admin">>, <<"department", "rnd">>}

Tenant == ("role" :> "enum") @@ ("department" :> "tree") @@ ("level" :> "number")

\* One value has a blank and is quoted, another a separator in brackets.
Codes == {"role", "department", "level"}

SomeTexts ==
  [c \in Codes \cup {"admin", "rnd", "3"} |->
     CASE c = "admin" -> <<"chief", " ", "admin">>
       [] c = "rnd" -> <<"rnd", " ", "(", "east", " AND ", "west", ")">>
       [] OTHER -> <<c>>]
=============================================================================
