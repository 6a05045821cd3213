-------------------------------- MODULE Assets --------------------------------
(***************************************************************************)
(* The stylesheet and the pages that ask for it (web.rs, css_version,      *)
(* index, app_css).  A page names the stylesheet by a hash of its content, *)
(* and whoever caches an answer under that URL keeps it for a year.  Page  *)
(* and stylesheet are two requests, though, and the process may be         *)
(* replaced by one of another build in between; app_css answers every URL  *)
(* with its own stylesheet.                                                *)
(*                                                                         *)
(* Readers share a cache (a CDN, or one browser with many tabs), which     *)
(* honours Cache-Control: a page may be kept or refetched, an asset under  *)
(* its URL is never asked for again while it is kept.  The theme           *)
(* controller is served in the same way.                                   *)
(***************************************************************************)

CONSTANTS
    Build,      \* builds of the program
    Style,      \* Style[b]: the content of its stylesheet, which the hash names
    Reader      \* readers behind one cache

VARIABLES
    build,      \* the build that is running
    served,     \* stylesheets of the builds deployed so far
    returned,   \* a stylesheet that had been replaced was deployed again
    cache,      \* cache[url]: the stylesheet kept under a URL, if any
    page_cache, \* the build that rendered the page kept, if any
    markup,     \* markup[r]: the build of the page r looks at, if any
    css         \* css[r]: the stylesheet it is shown with, once there is one

past   == <<served, returned>>
caches == <<cache, page_cache>>
shown  == <<markup, css>>
vars   == <<build, past, caches, shown>>

Styles == {Style[b] : b \in Build}

------------------------------------------------------------------------------
(* The program.                                                            *)

\* Seeded fault: the URL carries no version.
css_unversioned(b) == CHOOSE s \in Styles : TRUE
\* The version in the URL a page of build b asks for.
css_version(b) == Style[b]

\* The requested version is not looked at.
app_css(url) == Style[build]

------------------------------------------------------------------------------
Init ==
    /\ build \in Build
    /\ served = {Style[build]}
    /\ returned = FALSE
    /\ cache = [url \in Styles |-> {}]
    /\ page_cache = {}
    /\ markup = [r \in Reader |-> {}]
    /\ css = [r \in Reader |-> {}]

\* The process is replaced, forward or back.
Deploy(b) ==
    /\ build' = b
    /\ served' = served \cup {Style[b]}
    /\ returned' = (returned \/ Style[b] \in served \ {Style[build]})
    /\ UNCHANGED <<caches, shown>>

\* A reader is sent the page that is kept.
VisitKept(r) ==
    /\ page_cache # {}
    /\ markup' = [markup EXCEPT ![r] = page_cache]
    /\ css' = [css EXCEPT ![r] = {}]
    /\ UNCHANGED <<build, past, caches>>

\* index renders the page, which is kept.
Visit(r) ==
    /\ page_cache' = {build}
    /\ markup' = [markup EXCEPT ![r] = {build}]
    /\ css' = [css EXCEPT ![r] = {}]
    /\ UNCHANGED <<build, past, cache>>

\* The link in the page is followed.
LoadKept(r) ==
    \E b \in markup[r] :
        /\ cache[css_version(b)] # {}
        /\ css' = [css EXCEPT ![r] = cache[css_version(b)]]
        /\ UNCHANGED <<build, past, caches, markup>>

LoadStyle(r) ==
    \E b \in markup[r] :
        /\ cache[css_version(b)] = {}
        /\ css' = [css EXCEPT ![r] = {app_css(css_version(b))}]
        /\ cache' = [cache EXCEPT ![css_version(b)] = css'[r]]
        /\ UNCHANGED <<build, past, page_cache, markup>>

\* The cache forgets a page or a stylesheet.
Expire ==
    /\ page_cache' = {}
    /\ UNCHANGED <<build, past, cache, shown>>

Evict(url) ==
    /\ cache' = [cache EXCEPT ![url] = {}]
    /\ UNCHANGED <<build, past, page_cache, shown>>

Request(r) == Visit(r) \/ LoadStyle(r)
CacheStep ==
    \/ \E r \in Reader : VisitKept(r) \/ LoadKept(r)
    \/ Expire
    \/ \E url \in Styles : Evict(url)

Next ==
    \/ \E b \in Build : Deploy(b)
    \/ \E r \in Reader : Request(r)
    \/ CacheStep

Spec == Init /\ [][Next]_vars

------------------------------------------------------------------------------
(* Properties.                                                             *)

TypeOK ==
    /\ build \in Build
    /\ served \subseteq Styles
    /\ returned \in BOOLEAN
    /\ cache \in [Styles -> SUBSET Styles]
    /\ page_cache \subseteq Build
    /\ markup \in [Reader -> SUBSET Build]
    /\ css \in [Reader -> SUBSET Styles]

\* A page of the running build is shown with the stylesheet of that build,
\* from whatever cache either comes, whoever asked before and however many
\* builds went before, as long as no stylesheet that had been replaced was
\* deployed again (web.rs, css_version and CACHE_IMMUTABLE).
CurrentPagesMatch ==
    ~returned => \A r \in Reader : build \in markup[r] => css[r] \subseteq {Style[build]}

\* The invariant: a page is of one build, no page or stylesheet is kept of a
\* build yet to be deployed, and what is kept or shown for the running build
\* is its own.
IInv ==
    /\ TypeOK
    /\ \A b, c \in page_cache : b = c
    /\ \A r \in Reader : \A b, c \in markup[r] : b = c
    /\ Style[build] \in served
    /\ \A b \in Build : (b \in page_cache \/ \E r \in Reader : b \in markup[r]) => Style[b] \in served
    /\ \A url \in Styles : cache[url] # {} => url \in served
    /\ ~returned =>
          /\ cache[Style[build]] \subseteq {Style[build]}
          /\ \A r \in Reader, b \in Build :
                (b \in markup[r] /\ Style[b] = Style[build]) => css[r] \subseteq {Style[build]}
=============================================================================
