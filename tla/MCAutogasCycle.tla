--------------------------- MODULE MCAutogasCycle ---------------------------
EXTENDS AutogasCycle

\* One block: the server samples all items at once.
OneBlock == {Items}

\* Every item is sampled on its own.
EachItem == {{i} : i \in Items}

=============================================================================
