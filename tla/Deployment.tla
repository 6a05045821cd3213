------------------------------ MODULE Deployment ------------------------------
(***************************************************************************)
(* What a deployment leaves behind: the volume (Builds) and the readers'   *)
(* caches (Assets).  Both parts see the same builds come and go; a request *)
(* the caches cannot answer waits until the process serves.                *)
(***************************************************************************)
EXTENDS Builds

CONSTANTS Style, Reader

VARIABLES served, returned, cache, page_cache, markup, css

Web == INSTANCE Assets

readers == <<served, returned, cache, page_cache, markup, css>>
volume == <<environment, migrated, log, answer, pc, parsed, page>>
allVars == <<vars, readers>>

DeploymentInit == Init /\ Web!Init

\* fly deploy.
DeployBuild(b) == Deploy(b) /\ Web!Deploy(b)

\* Steps of the process, the kill switch and the editors.
ProcessStep ==
    /\ Open \/ Publish \/ SkipCollection \/ Load \/ Wake \/ Configure \/ Edit
    /\ UNCHANGED readers

\* A request is answered between boot and replacement, also during a cycle.
Answering == page # NoRows

AnswerRequest ==
    /\ Answering
    /\ \E r \in Reader : Web!Request(r)
    /\ UNCHANGED volume

AnswerFromCache == Web!CacheStep /\ UNCHANGED volume

DeploymentNext ==
    \/ \E b \in Build \ {build} : DeployBuild(b)
    \/ ProcessStep \/ AnswerRequest \/ AnswerFromCache

DeploymentSpec == DeploymentInit /\ [][DeploymentNext]_allVars

------------------------------------------------------------------------------
\* A page of the running build is shown in that build's stylesheet unless a
\* replaced stylesheet was deployed again (web.rs, css_version and app_css).
CurrentPagesMatch == Web!CurrentPagesMatch
=============================================================================
