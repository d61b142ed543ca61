------------------------------- MODULE AgentTools -------------------------------
(***************************************************************************)
(* Files as tools of an agent: the MCP server of the command line, and the *)
(* toolboxes for the AI SDK, the OpenAI Agents SDK, the OpenAI Responses   *)
(* API and the Claude Agent SDK.  Which tools there are, which operations  *)
(* each makes, which of them wait for an approval, and how much of an      *)
(* object a download hands over.                                           *)
(*                                                                         *)
(* The operators are pure.  The assumptions look at every configuration,   *)
(* and at objects that change between the two requests of a download.      *)
(***************************************************************************)
EXTENDS Integers, FiniteSets

(***************************************************************************)
(* Which tools there are, and what they do.                                *)
(***************************************************************************)

McpReads == {"download", "head", "exists", "capabilities", "list", "search", "url"}
McpWrites == {"upload", "delete", "copy", "move", "sign-upload", "transfer", "sync"}
McpRegistered(allowWrites) == McpReads \cup IF allowWrites THEN McpWrites ELSE {}

\* The operations that a tool makes, at most; preview is the dryRun of sync.
McpOperations(tool, preview) ==
    CASE tool = "download" -> {"head", "download"}
      [] tool = "capabilities" -> {}
      [] tool = "transfer" -> {"list", "exists", "download", "upload"}
      [] tool = "sync" -> {"list"} \cup IF preview THEN {} ELSE {"download", "upload", "delete"}
      [] OTHER -> {tool}

ReadToolNames == {"listFiles", "getFileMetadata", "downloadFile", "getFileUrl"}
WriteToolNames == {"uploadFile", "deleteFile", "copyFile", "signUploadUrl"}
FileTools == ReadToolNames \cup WriteToolNames

Executes(tool) ==
    CASE tool = "copyFile" -> {"copy"}
      [] tool = "deleteFile" -> {"delete"}
      [] tool = "downloadFile" -> {"head", "download"}
      [] tool = "getFileMetadata" -> {"head"}
      [] tool = "getFileUrl" -> {"url"}
      [] tool = "listFiles" -> {"list"}
      [] tool = "signUploadUrl" -> {"sign-upload"}
      [] tool = "uploadFile" -> {"upload"}

\* Signing an upload counts: whoever has the URL can write.
ChangesFiles == {"upload", "delete", "copy", "move", "sign-upload"}

(***************************************************************************)
(* Approval.                                                               *)
(***************************************************************************)

Toolboxes == {"ai-sdk", "agents", "responses", "claude"}

\* requireApproval: for all tools, or an object, of which one entry is looked at.
Said == {"true", "false"}
ForAll(value) == [all |-> value, own |-> "unset"]
ForEach(value) == [all |-> "object", own |-> value]
Approvals == {ForAll(v) : v \in Said} \cup {ForEach(v) : v \in Said \cup {"unset"}}

ResolveApproval(config) ==
    IF config.all = "object" THEN config.own # "false" ELSE config.all = "true"

\* What a tool's override says of needsApproval.  One that names it and leaves it
\* undefined still replaces it.  Two of the toolboxes take no such override.
Overrides == Said \cup {"none", "undefined"}
Takes(box, override) == box \in {"ai-sdk", "agents"} \/ override = "none"

Offered(box, readOnly) == FileTools \ IF readOnly THEN WriteToolNames ELSE {}

\* A write tool is made with the resolved value, a read tool with none; overrides are
\* spread over it.
ToolNeedsApproval(tool, config, override) ==
    IF override = "none" THEN tool \in WriteToolNames /\ ResolveApproval(config)
    ELSE override = "true"

ResponsesNeedsApproval(tool, config) ==
    tool \in WriteToolNames /\ ResolveApproval(config)

\* What the host calls a tool: its bare name, or with the prefix of this server or another.
Spellings == {"bare", "own", "other"}
ClaudeNeedsApproval(tool, spelling, readOnly, config) ==
    /\ spelling # "other" /\ tool \in Offered("claude", readOnly)
    /\ tool \in WriteToolNames /\ ResolveApproval(config)
CanUseTool(tool, spelling, readOnly, config) ==
    IF ClaudeNeedsApproval(tool, spelling, readOnly, config) THEN "deny" ELSE "allow"

\* Whether the host is told to ask before it runs the tool.
Asks(box, tool, readOnly, config, override) ==
    CASE box \in {"ai-sdk", "agents"} -> ToolNeedsApproval(tool, config, override)
      [] box = "responses" -> ResponsesNeedsApproval(tool, config)
      [] box = "claude" -> CanUseTool(tool, "own", readOnly, config) = "deny"

\* The operations that a call of a tool makes; a name that is not offered is answered
\* with an error, or is unknown to the host.
RunsTool(box, tool, readOnly) ==
    IF tool \in Offered(box, readOnly) THEN Executes(tool) ELSE {}

(***************************************************************************)
(* Downloads: head() first, then the bytes.                                *)
(***************************************************************************)

\* Sizes to scale: what may be asked for at most, and what is meant if nothing is said.
MaxDownload == 3
McpDefault == MaxDownload
ExecutorDefault == 1
Unsaid == 0

CapOf(maxBytes, default) == IF maxBytes = Unsaid THEN default ELSE maxBytes

ToTheEnd == -1
WholeObject == [start |-> 0, end |-> ToTheEnd]
SliceLength(size, range) ==
    LET last == IF range.end # ToTheEnd /\ range.end < size - 1 THEN range.end ELSE size - 1
    IN  IF last < range.start THEN 0 ELSE last - range.start + 1

\* was, is: the size at the head() and at the download.
HandedOver(refused, pulled, told) == [refused |-> refused, pulled |-> pulled, told |-> told]

McpDownload(was, is, range, maxBytes) ==
    LET cap == CapOf(maxBytes, McpDefault)
        bytes == SliceLength(is, range)
    IN  CASE cap > MaxDownload -> HandedOver("cap", 0, 0)
          [] cap <= MaxDownload /\ SliceLength(was, range) > cap -> HandedOver("size", 0, 0)
          [] OTHER -> IF bytes > cap THEN HandedOver("size", bytes, 0)
                      ELSE HandedOver("no", bytes, bytes)

ExecuteDownload(was, is, maxBytes) ==
    LET cap == CapOf(maxBytes, ExecutorDefault)
    IN  CASE cap > MaxDownload -> HandedOver("cap", 0, 0)
          [] cap <= MaxDownload /\ was > cap -> HandedOver("size", 0, 0)
          [] OTHER -> HandedOver("no", is, is)

(***************************************************************************)
(* What a caller may rely on.                                              *)
(***************************************************************************)

\* A server without --allow-writes, and a toolbox that is readOnly, change nothing,
\* whatever is asked of them, approved or overridden; with writes, or not readOnly, each
\* kind of change but move can be made, and a preview of sync is none.
ASSUME ReadOnlyIsFinal ==
    /\ \A tool \in McpRegistered(FALSE), preview \in BOOLEAN :
          McpOperations(tool, preview) \cap ChangesFiles = {}
    /\ ChangesFiles = UNION {McpOperations(tool, TRUE) : tool \in McpRegistered(TRUE)}
                          \cap ChangesFiles
    /\ McpOperations("sync", TRUE) \cap ChangesFiles = {}
    /\ \A box \in Toolboxes :
          /\ \A tool \in FileTools : RunsTool(box, tool, TRUE) \cap ChangesFiles = {}
          /\ UNION {RunsTool(box, tool, FALSE) : tool \in FileTools} \cap ChangesFiles
               = ChangesFiles \ {"move"}

\* A tool that is offered and changes something is asked for unless requireApproval says
\* FALSE of it.  An override wins over that in the two toolboxes that take one, and one
\* that is there but undefined takes the question away, which an undefined entry of
\* requireApproval does not.  The four toolboxes agree where there is no override.
ASSUME ChangesAreAskedFor ==
    \A tool \in FileTools, readOnly \in BOOLEAN, config \in Approvals, override \in Overrides :
        /\ \A box \in Toolboxes : tool \in Offered(box, readOnly) /\ Takes(box, override) =>
              LET asks == Asks(box, tool, readOnly, config, override)
              IN  /\ Executes(tool) \cap ChangesFiles # {} =>
                        (~asks <=> \/ override \in {"false", "undefined"}
                                   \/ override = "none" /\ "false" \in {config.all, config.own})
                  /\ Executes(tool) \cap ChangesFiles = {} => (asks <=> override = "true")
        /\ override = "none" /\ tool \in Offered("claude", readOnly) =>
              Cardinality({Asks(box, tool, readOnly, config, "none") : box \in Toolboxes}) = 1

\* The Claude toolbox answers for its own tools, by either name, and allows those of
\* other servers.  Of a write tool that readOnly took away it says that it needs no
\* approval, and the Responses toolbox that it does: neither runs it.
ASSUME StrangersAreAllowed ==
    \A tool \in FileTools, readOnly \in BOOLEAN, config \in Approvals :
        /\ CanUseTool(tool, "other", readOnly, config) = "allow"
        /\ CanUseTool(tool, "bare", readOnly, config) = CanUseTool(tool, "own", readOnly, config)
        /\ (ResponsesNeedsApproval(tool, config)
              # ClaudeNeedsApproval(tool, "bare", readOnly, config))
             <=> readOnly /\ tool \in WriteToolNames /\ ResolveApproval(config)

\* The MCP server never hands over more than it was told to, though the object grows
\* after the head(), and refuses only what is or was too long; it has pulled the bytes by
\* then.  An executor hands all of them over: its limit is that of the head() alone.
ASSUME CapsHold ==
    \A was, is \in 0 .. MaxDownload + 1, maxBytes \in Unsaid .. MaxDownload + 1 :
        /\ LET cap == CapOf(maxBytes, ExecutorDefault)
               download == ExecuteDownload(was, is, maxBytes)
           IN  /\ download.told > cap <=> cap <= MaxDownload /\ was <= cap /\ is > cap
               /\ was = is => download.pulled <= MaxDownload
        /\ \A range \in {WholeObject} \cup [start : 0 .. 2, end : (0 .. 4) \cup {ToTheEnd}] :
              LET cap == CapOf(maxBytes, McpDefault)
                  download == McpDownload(was, is, range, maxBytes)
              IN  /\ download.told <= cap /\ download.told <= MaxDownload
                  /\ download.refused = "size" =>
                        SliceLength(was, range) > cap \/ SliceLength(is, range) > cap
                  /\ download.refused = "no" => download.told = SliceLength(is, range)
                  /\ download.refused = "no" /\ range = WholeObject => download.told = is
                  /\ download.pulled > cap => is # was

=============================================================================
