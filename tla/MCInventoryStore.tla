-------------------------- MODULE MCInventoryStore --------------------------
(* InventoryStore on small instances.                                        *)
EXTENDS InventoryStore

Endpoint(key, body) == [key |-> key, body |-> body]

\* One endpoint, or three in a document that lists one request twice with
\* different bodies, as a Postman collection may.
Single == <<Endpoint("GET /a", "open")>>
Twice  == <<Endpoint("GET /a", "open"), Endpoint("GET /a", "auth"), Endpoint("GET /b", "open")>>

EditedSpecs == {Single, Twice}
=============================================================================
