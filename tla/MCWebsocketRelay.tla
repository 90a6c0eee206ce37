-------------------------- MODULE MCWebsocketRelay --------------------------
\* WebsocketRelay on small instances.  Pages differ from one another in their
\* identifier only, and so do remotes.
EXTENDS WebsocketRelay

Symmetry == Permutations(Pages) \cup Permutations(Remotes)
=============================================================================
