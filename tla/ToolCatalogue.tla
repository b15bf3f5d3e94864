---------------------------- MODULE ToolCatalogue ----------------------------
(***************************************************************************)
(* What is fixed about the fifty tools: the registry's entries             *)
(* (tools/registry.py), the operation _execute_tool calls for each         *)
(* (mcp/server.py) and the requests each operation of ForgejoClient makes  *)
(* (forgejo/client.py).  An entry of the registry is <<tool, risk, shape   *)
(* of the output>>, one of the dispatch <<tool, operation, shape of the    *)
(* answer>>, one of the client <<operation, requests, result>>.            *)
(***************************************************************************)
EXTENDS Naturals, Sequences

\* Shapes: "page" has has_more, "list" has truncated, "receipt" has audit_event_id.

RepositoryTools == {
  <<"forgejo_get_current_user", "read", "value">>,
  <<"forgejo_list_repositories", "read", "page">>,
  <<"forgejo_get_repository", "read", "value">>,
  <<"forgejo_create_organization_repository", "write", "receipt">>,
  <<"forgejo_migrate_repository", "write", "receipt">>,
  <<"forgejo_update_repository", "write", "receipt">>,
  <<"forgejo_sync_mirror", "write", "receipt">>,
  <<"forgejo_list_branches", "read", "page">>}

HistoryTools == {
  <<"forgejo_list_commits", "read", "page">>,
  <<"forgejo_get_commit", "read", "value">>,
  <<"forgejo_compare_refs", "read-sensitive", "value">>,
  <<"forgejo_get_git_tree", "read-sensitive", "value">>,
  <<"forgejo_list_labels", "read", "page">>,
  <<"forgejo_list_milestones", "read", "page">>}

DiscussionTools == {
  <<"forgejo_list_issues", "read", "page">>,
  <<"forgejo_get_issue", "read-sensitive", "value">>,
  <<"forgejo_list_issue_comments", "read-sensitive", "list">>,
  <<"forgejo_list_pull_requests", "read", "page">>,
  <<"forgejo_get_pull_request", "read-sensitive", "value">>,
  <<"forgejo_list_pull_request_commits", "read", "page">>}

ContentTools == {
  <<"forgejo_get_pull_request_diff", "read-sensitive", "value">>,
  <<"forgejo_get_file_content", "read-sensitive", "value">>,
  <<"forgejo_create_issue", "write", "receipt">>,
  <<"forgejo_update_issue", "write", "receipt">>,
  <<"forgejo_comment_issue", "write", "receipt">>,
  <<"forgejo_create_pull_request", "write", "receipt">>}

ChangeTools == {
  <<"forgejo_update_pull_request", "write", "receipt">>,
  <<"forgejo_list_repository_contents", "read", "list">>,
  <<"forgejo_create_branch", "write", "receipt">>,
  <<"forgejo_commit_changes", "write", "receipt">>,
  <<"forgejo_get_pull_request_files", "read-sensitive", "list">>,
  <<"forgejo_request_pull_request_reviewers", "write", "receipt">>}

ReviewTools == {
  <<"forgejo_remove_pull_request_reviewers", "write", "receipt">>,
  <<"forgejo_list_pull_request_reviews", "read-sensitive", "list">>,
  <<"forgejo_get_pull_request_review", "read-sensitive", "value">>,
  <<"forgejo_submit_pull_request_review", "write", "receipt">>,
  <<"forgejo_merge_pull_request", "write", "receipt">>,
  <<"forgejo_get_pull_request_merge_status", "read", "value">>}

ActionTools == {
  <<"forgejo_get_commit_status", "read", "value">>,
  <<"forgejo_list_action_runs", "read", "page">>,
  <<"forgejo_get_action_run", "read", "value">>,
  <<"forgejo_list_action_run_jobs", "read", "list">>,
  <<"forgejo_get_action_job_log", "read-sensitive", "value">>,
  <<"forgejo_get_action_run_logs", "read-sensitive", "value">>}

ReleaseTools == {
  <<"forgejo_list_action_run_artifacts", "read", "page">>,
  <<"forgejo_cancel_action_run", "write", "receipt">>,
  <<"forgejo_delete_action_run", "write", "receipt">>,
  <<"forgejo_dispatch_workflow", "write", "receipt">>,
  <<"forgejo_create_tag", "write", "receipt">>,
  <<"forgejo_create_release", "write", "receipt">>}

TOOL_REGISTRY ==
  RepositoryTools \cup HistoryTools \cup DiscussionTools \cup ContentTools
  \cup ChangeTools \cup ReviewTools \cup ActionTools \cup ReleaseTools

----------------------------------------------------------------------------
(* _execute_tool: a service method each, and the shape of what it returns. *)

ExecuteFirst == {
  <<"forgejo_get_current_user", "get_current_user", "value">>,
  <<"forgejo_list_repositories", "list_repositories", "page">>,
  <<"forgejo_get_repository", "get_repository", "value">>,
  <<"forgejo_create_organization_repository", "create_organization_repository", "receipt">>,
  <<"forgejo_migrate_repository", "migrate_repository", "receipt">>,
  <<"forgejo_update_repository", "update_repository", "receipt">>,
  <<"forgejo_sync_mirror", "sync_mirror", "receipt">>,
  <<"forgejo_list_branches", "list_branches", "page">>,
  <<"forgejo_list_commits", "list_commits", "page">>,
  <<"forgejo_get_commit", "get_commit", "value">>,
  <<"forgejo_compare_refs", "compare_refs", "value">>,
  <<"forgejo_get_git_tree", "get_git_tree", "value">>,
  <<"forgejo_list_labels", "list_labels", "page">>,
  <<"forgejo_list_milestones", "list_milestones", "page">>,
  <<"forgejo_list_issues", "list_issues", "page">>,
  <<"forgejo_get_issue", "get_issue", "value">>}

ExecuteSecond == {
  <<"forgejo_list_issue_comments", "list_issue_comments", "list">>,
  <<"forgejo_list_pull_requests", "list_pull_requests", "page">>,
  <<"forgejo_get_pull_request", "get_pull_request", "value">>,
  <<"forgejo_list_pull_request_commits", "list_pull_request_commits", "page">>,
  <<"forgejo_get_pull_request_diff", "get_pull_request_diff", "value">>,
  <<"forgejo_get_file_content", "get_file_content", "value">>,
  <<"forgejo_list_repository_contents", "list_repository_contents", "list">>,
  <<"forgejo_create_branch", "create_branch", "receipt">>,
  <<"forgejo_commit_changes", "commit_changes", "receipt">>,
  <<"forgejo_get_pull_request_files", "list_pull_request_files", "list">>,
  <<"forgejo_request_pull_request_reviewers", "request_reviewers", "receipt">>,
  <<"forgejo_remove_pull_request_reviewers", "remove_reviewers", "receipt">>,
  <<"forgejo_list_pull_request_reviews", "list_pull_request_reviews", "list">>,
  <<"forgejo_get_pull_request_review", "get_pull_request_review", "value">>,
  <<"forgejo_submit_pull_request_review", "submit_pull_request_review", "receipt">>,
  <<"forgejo_merge_pull_request", "merge_pull_request", "receipt">>}

\* FAULT: reading a run and deleting it, which share an endpoint, are mixed up.
ExecuteLastMixedUp == {
  <<"forgejo_get_pull_request_merge_status", "get_pull_request_merge_status", "value">>,
  <<"forgejo_get_commit_status", "get_commit_status", "value">>,
  <<"forgejo_list_action_runs", "list_action_runs", "page">>,
  <<"forgejo_get_action_run", "delete_action_run", "value">>,
  <<"forgejo_list_action_run_jobs", "list_action_run_jobs", "list">>,
  <<"forgejo_get_action_job_log", "get_action_job_log", "value">>,
  <<"forgejo_get_action_run_logs", "get_action_run_logs", "value">>,
  <<"forgejo_list_action_run_artifacts", "list_action_run_artifacts", "page">>,
  <<"forgejo_cancel_action_run", "cancel_action_run", "receipt">>,
  <<"forgejo_delete_action_run", "get_action_run", "receipt">>,
  <<"forgejo_dispatch_workflow", "dispatch_workflow", "receipt">>,
  <<"forgejo_create_tag", "create_tag", "receipt">>,
  <<"forgejo_create_release", "create_release", "receipt">>,
  <<"forgejo_create_issue", "create_issue", "receipt">>,
  <<"forgejo_update_issue", "update_issue", "receipt">>,
  <<"forgejo_comment_issue", "comment_issue", "receipt">>,
  <<"forgejo_create_pull_request", "create_pull_request", "receipt">>,
  <<"forgejo_update_pull_request", "update_pull_request", "receipt">>}

ExecuteLast == {
  <<"forgejo_get_pull_request_merge_status", "get_pull_request_merge_status", "value">>,
  <<"forgejo_get_commit_status", "get_commit_status", "value">>,
  <<"forgejo_list_action_runs", "list_action_runs", "page">>,
  <<"forgejo_get_action_run", "get_action_run", "value">>,
  <<"forgejo_list_action_run_jobs", "list_action_run_jobs", "list">>,
  <<"forgejo_get_action_job_log", "get_action_job_log", "value">>,
  <<"forgejo_get_action_run_logs", "get_action_run_logs", "value">>,
  <<"forgejo_list_action_run_artifacts", "list_action_run_artifacts", "page">>,
  <<"forgejo_cancel_action_run", "cancel_action_run", "receipt">>,
  <<"forgejo_delete_action_run", "delete_action_run", "receipt">>,
  <<"forgejo_dispatch_workflow", "dispatch_workflow", "receipt">>,
  <<"forgejo_create_tag", "create_tag", "receipt">>,
  <<"forgejo_create_release", "create_release", "receipt">>,
  <<"forgejo_create_issue", "create_issue", "receipt">>,
  <<"forgejo_update_issue", "update_issue", "receipt">>,
  <<"forgejo_comment_issue", "comment_issue", "receipt">>,
  <<"forgejo_create_pull_request", "create_pull_request", "receipt">>,
  <<"forgejo_update_pull_request", "update_pull_request", "receipt">>}

Execution == ExecuteFirst \cup ExecuteSecond \cup ExecuteLast

----------------------------------------------------------------------------
(* ForgejoClient: the requests of each operation, in order, with the       *)
(* statuses they expect and the bound on the body, and what becomes of the *)
(* last body: "value", "page" (has_more from the length), "total"          *)
(* (has_more from total_count), "list" (cut, with a flag), "log",          *)
(* "archive", "file", or "done" when only the status counts.               *)
(* change_pull_request_reviewers is two operations, by its parameter       *)
(* remove.                                                                 *)

Request(method, expect, bound) ==
  [method |-> method, expect |-> expect, bound |-> bound, further |-> {}]

\* After these statuses the operation goes on with its next request.
Further(request, statuses) == [request EXCEPT !.further = statuses]

GetJson           == Request("GET", {200}, "json")
WriteJson(m, s)   == Request(m, {s}, "json")
Bare(m, statuses) == Request(m, statuses, "response")

\* Reading one thing, a page or a bounded list; changing something by one request.
Reading(op, result)  == <<op, <<GetJson>>, result>>
Writing(op, request) == <<op, <<request>>, IF request.bound = "json" THEN "value" ELSE "done">>

RepositoryRequests == {
  Reading("list_repositories", "page"),
  Reading("get_repository", "value"),
  Writing("create_organization_repository", WriteJson("POST", 201)),
  Writing("migrate_repository", WriteJson("POST", 201))}

BranchRequests == {
  Writing("update_repository", WriteJson("PATCH", 200)),
  Writing("sync_mirror", Bare("POST", {200})),
  Reading("list_branches", "page"),
  Reading("list_repository_contents", "list")}

HistoryRequests == {
  Writing("create_branch", WriteJson("POST", 201)),
  Reading("list_commits", "page"),
  Reading("get_commit", "list"),
  Reading("compare_refs", "list"),
  Reading("get_git_tree", "value")}

IssueRequests == {
  Reading("list_labels", "page"),
  Reading("list_milestones", "page"),
  Reading("list_issues", "page"),
  Reading("get_issue", "value")}

PullRequestRequests == {
  Reading("list_issue_comments", "list"),
  Reading("list_pull_requests", "page"),
  Reading("get_pull_request", "value"),
  Reading("list_pull_request_commits", "page")}

ContentRequests == {
  <<"get_pull_request_diff", <<Request("GET", {200}, "json")>>, "value">>,
  Reading("get_file_content", "file"),
  Writing("commit_changes", WriteJson("POST", 201))}

ReviewRequests == {
  Reading("list_pull_request_files", "list"),
  Writing("request_reviewers", Bare("POST", {200, 201, 204})),
  Writing("remove_reviewers", Bare("DELETE", {200, 201, 204})),
  Reading("list_pull_request_reviews", "list"),
  Reading("get_pull_request_review", "value"),
  Writing("submit_pull_request_review", WriteJson("POST", 200))}

MergeRequests == {
  Writing("merge_pull_request", Bare("POST", {200, 201, 204})),
  <<"get_pull_request_merge_status", 
    <<Further(GetJson, {200}), Bare("GET", {204, 404})>>, "done">>,
  Reading("get_commit_status", "list"),
  Reading("list_action_runs", "total")}

RunRequests == {
  Reading("get_action_run", "value"),
  Reading("list_action_run_jobs", "list"),
  <<"get_action_job_log", <<Bare("GET", {200, 206})>>, "log">>,
  <<"get_action_run_logs", <<Bare("GET", {200})>>, "archive">>}

RunChangeRequests == {
  Reading("list_action_run_artifacts", "page"),
  Writing("cancel_action_run", Bare("POST", {204})),
  Writing("delete_action_run", Bare("DELETE", {204})),
  Writing("dispatch_workflow", Bare("POST", {200, 204}))}

ReleaseRequests == {
  Writing("create_tag", WriteJson("POST", 201)),
  Writing("create_release", WriteJson("POST", 201)),
  Writing("create_issue", WriteJson("POST", 201)),
  Writing("update_issue", WriteJson("PATCH", 201)),
  Writing("comment_issue", WriteJson("POST", 201))}

ProposalRequests == {
  Writing("create_pull_request", WriteJson("POST", 201)),
  Writing("update_pull_request", WriteJson("PATCH", 201))}

\* A version that is refused to strangers is read from the login page.
VersionRequests == {
  <<"get_version",
    <<Further(Request("GET", {200, 403}, "version"), {403}), Request("GET", {200}, "version")>>,
    "value">>}

UserRequests == {<<"get_current_user", <<Request("GET", {200}, "user")>>, "value">>}

Operations ==
  RepositoryRequests \cup BranchRequests \cup HistoryRequests \cup IssueRequests
  \cup PullRequestRequests \cup ContentRequests \cup ReviewRequests \cup MergeRequests
  \cup RunRequests \cup RunChangeRequests \cup ReleaseRequests \cup ProposalRequests
  \cup VersionRequests \cup UserRequests

----------------------------------------------------------------------------
(* Who calls the client: the tools, and the check of the instance (whose     *)
(* credential check calls get_current_user, as the first tool does).       *)

Tools   == {entry[1] : entry \in TOOL_REGISTRY}
Callers == Tools \cup {"check_instance"}

OperationOf(caller) ==
  IF caller = "check_instance" THEN "get_version"
  ELSE (CHOOSE entry \in Execution : entry[1] = caller)[2]

PlanOf   == [c \in Callers |-> (CHOOSE o \in Operations : o[1] = OperationOf(c))[2]]
ResultOf == [c \in Callers |-> (CHOOSE o \in Operations : o[1] = OperationOf(c))[3]]

\* ToolDefinition.risk; what list_tools advertises as readOnlyHint is risk # "write".
ReadOnly == {"check_instance"} \cup {entry[1] : entry \in {e \in TOOL_REGISTRY : e[2] # "write"}}

\* Every tool is dispatched, to an operation the client has, and every operation is reached.
ASSUME Dispatched ==
  /\ Tools = {entry[1] : entry \in Execution}
  /\ {OperationOf(c) : c \in Callers} = {o[1] : o \in Operations}
  /\ \A t \in TOOL_REGISTRY : \E e \in Execution : e[1] = t[1] /\ e[3] = t[3]
=============================================================================
