------------------------- MODULE MCCatalogRegistry -------------------------
(***************************************************************************)
(* An instance of CatalogRegistry for TLC: a platform package, two vendors *)
(* that may claim one resource, two apps of which one implements the       *)
(* other's interface.  The id of app1 is a prefix of app2's, so that both   *)
(* may name what is private to app2, and an image ships app1.              *)
(***************************************************************************)
EXTENDS CatalogRegistry

CONSTANTS kernel, platform, oem1, oem2, app1, app2,  \* packages
          motion, camera, private,                   \* interfaces
          drive, shoot, call,                        \* permissions
          base, lens, gadget,                        \* resource types
          main, front,                               \* roles
          x, y                                       \* schemas, signers, components

MCOrder == [p \in {kernel, platform, oem1, oem2, app1, app2} |->
    CASE p = kernel -> 1 [] p = app1 -> 2 [] p = app2 -> 3
      [] p = oem1 -> 4 [] p = oem2 -> 5 [] p = platform -> 6]
MCNamespace == [i \in {motion, camera, private, drive, shoot, call, base, lens, gadget} |->
    CASE i = private -> {app1, app2} [] i \in {call, gadget} -> {app1}
      [] OTHER -> {Standard}]

Interface(id, schema, requires, types) ==
    [id |-> id, major |-> 1, schema |-> schema, requires |-> requires, calls |-> {},
     types |-> types, default |-> None, risk |-> "normal"]
Export(id) == [component |-> x, id |-> id]
Permission(id) == [id |-> id, grant |-> "consent", risk |-> "normal"]
Resource(type, role, risk) == [type |-> type, role |-> role, label |-> None, risk |-> risk]
Package(pkg, class, signer, interfaces, permissions, resources) ==
    [pkg |-> pkg, class |-> class, signer |-> signer, intact |-> TRUE,
     interfaces |-> interfaces, exports |-> {Export(i.id) : i \in interfaces},
     permissions |-> permissions, resources |-> resources]

Motion == Interface(motion, x, {drive}, {base})
Base == Resource(base, main, "physical")

\* BootstrapSources: contracts for others to implement, and the resources
\* that they manage.
MCBootstrap ==
    {[Package(kernel, "kernel", x, {Motion}, {Permission(drive)}, {Base})
      EXCEPT !.exports = {}]}

Camera(risk) == Resource(lens, front, risk)
Platform(permissions) ==
    Package(platform, "platform", x, {Interface(camera, x, {}, {lens})}, permissions, {})
Vendor(pkg, resources) == Package(pkg, "oem", x, {Motion}, {}, resources)

MCImage ==
    {{Platform({Permission(shoot)}), Vendor(oem1, {Base})},
     {Platform({Permission(shoot)}), Vendor(oem2, {Base, Camera("privacy")}),
      Vendor(oem1, {Base})},
     {Package(platform, "platform", y, {Motion}, {}, {Base}), Vendor(oem1, {Base})},
     {[Vendor(oem1, {}) EXCEPT !.class = "image"],
      Package(app1, "image", x, {Interface(private, x, {}, {})}, {}, {}),
      [Platform({}) EXCEPT !.intact = FALSE]}}

MCApp ==
    {Package(app1, "app", x, {Interface(private, x, {}, {})}, {}, {}),
     Package(app1, "app", x, {Interface(private, y, {shoot}, {gadget})}, {Permission(call)},
             {Resource(gadget, front, "normal")}),
     Package(app2, "app", x, {Interface(private, x, {}, {})}, {}, {}),
     Package(app2, "app", x, {Motion}, {}, {})}
=============================================================================
