------------------------------- MODULE MCSLC -------------------------------
EXTENDS SLC

\* Two releases of the catalog: the Python container moves to another flavor, and
\* one more container declares an alias of it.
Entry(language, flavor, version, aliases) ==
    [language |-> language, flavor |-> flavor, image |-> <<flavor, version>>,
     aliases |-> aliases]
MCCatalog == <<{Entry("python", "py310", 1, {"PY"})},
               {Entry("python", "py312", 1, {"PY"}), Entry("conda", "conda", 1, {"PY"})}>>

\* Two contents for one alias, and a Rust container.
MCRequests ==
    {[alias |-> "PY", digest |-> 1, language |-> "py", aliases |-> {}],
     [alias |-> "PY", digest |-> 2, language |-> "r", aliases |-> {}],
     [alias |-> "RUST", digest |-> 1, language |-> "rust", aliases |-> {}]}
=============================================================================
