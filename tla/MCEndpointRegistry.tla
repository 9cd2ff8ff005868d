------------------------- MODULE MCEndpointRegistry -------------------------
(***************************************************************************)
(* An instance of EndpointRegistry for TLC: an app, and a package whose    *)
(* service is started on demand.  The service implements an interface with *)
(* a resource and one without.  An update of the package drops the latter  *)
(* and changes the resource; another brings the first version back.        *)
(***************************************************************************)
EXTENDS EndpointRegistry

CONSTANTS kernel, app, vendor,        \* packages
          main, service,              \* components
          safety, lift, lamp,         \* interfaces
          register, use,              \* permissions
          gadget, top, red, x         \* resource type, role, label, schema
CONSTANTS c1, c2

MCOrder == [i \in {kernel, app, vendor, gadget, top} |-> IF i = kernel THEN 1 ELSE 2]
MCNamespace == [i \in {safety, lift, lamp, register, use, gadget, red} |->
    IF i \in {safety, register} THEN {Standard} ELSE {vendor}]

Interface(id, requires, type) ==
    [id |-> id, major |-> 1, schema |-> x, requires |-> requires, calls |-> {},
     types |-> IF type = None THEN {} ELSE {type},
     default |-> IF type = None THEN None ELSE [type |-> type, role |-> top],
     risk |-> "normal"]
Permission(id) == [id |-> id, grant |-> "consent", risk |-> "normal"]
Source(pkg, class, component, interfaces, permissions, resources) ==
    [pkg |-> pkg, class |-> class, signer |-> x, intact |-> TRUE,
     interfaces |-> interfaces,
     exports |-> {[component |-> component, id |-> i.id] : i \in interfaces},
     permissions |-> permissions, resources |-> resources]

MCBootstrap ==
    {Source(kernel, "kernel", main, {Interface(safety, {}, None)}, {Permission(register)}, {})}
Vendor(label, others) ==
    Source(vendor, "app", service, {Interface(lift, {use}, gadget)} \cup others,
           {Permission(use)},
           {[type |-> gadget, role |-> top, label |-> label, risk |-> "normal"]})
MCCatalogs == {{Vendor(None, {Interface(lamp, {}, None)})}, {Vendor(red, {})}}

MCPlain == {<<app, main>>}
MCOnDemand == {<<vendor, service>>}
MCToggled == {<<app, use>>}
MCPeer == [c \in Conn |-> IF c = c1 THEN MCPlain ELSE MCOnDemand]
=============================================================================
