---------------------------- MODULE MCDbCreator ----------------------------
(* An instance of DbCreator for TLC: the template as shipped, and a later  *)
(* one with a schema and a database more.                                  *)
EXTENDS DbCreator

ShippedTemplate == [databases |-> <<"ecomm">>, schemas |-> <<"ordering">>]
GrownTemplate   == [databases |-> <<"ecomm", "reporting">>, schemas |-> <<"ordering", "web">>]

MCDbNames     == {"ecomm", "reporting"}
MCSchemaNames == {"ordering", "web"}
MCTemplates   == {ShippedTemplate, GrownTemplate}
=============================================================================
