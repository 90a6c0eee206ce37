---------------------------- MODULE MCDatastore ----------------------------
EXTENDS Datastore

CONSTANTS a, b, ours, theirs

MCWriter == (ours :> Master) @@ (theirs :> a)

MCAutoLoad == <<"app.js">>

=============================================================================
