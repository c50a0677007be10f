------------------------------ MODULE ToolPolicy ------------------------------
(***************************************************************************)
(* assistant.policy: which tools the assistant may call.  A tool is the    *)
(* pair of its server and its name, which catalog.mangle joins and         *)
(* catalog.demangle splits.                                                *)
(***************************************************************************)

KNOWN_TOOLS ==
  ({"workflow_runner"} \X {"run_workflow", "create_workflow", "get_workflow",
      "list_workflows", "list_servers", "list_tools", "get_run", "list_runs"})
  \cup ({"kg_server"} \X {"ingest", "ingest_components", "get_node", "get_neighbors",
      "search_nodes", "graph_stats", "query_provenance", "get_provenance_chain"})
  \cup ({"gdm"} \X {"query_components", "get_system_summary", "split_by_substation",
      "split_by_feeder"})
  \cup ({"gdm_flow"} \X {"run_ac_pf", "export_sqlite"})
  \cup ({"erad"} \X {"load_distribution_model", "load_hazard_model",
      "list_historic_hurricanes", "list_historic_wildfires", "get_failed_assets",
      "run_simulation", "export_to_sqlite", "export_csv", "export_parquet"})
  \cup ({"ditto"} \X {"read_opendss_model", "convert_model", "write_cim"})
  \cup ({"shift"} \X {"fetch_parcels", "cluster_parcels", "build_graph_from_groups",
      "create_mesh_network"})

READ_ONLY_TOOLS ==
  ({"workflow_runner"} \X {"get_workflow", "list_workflows", "list_servers",
      "list_tools", "get_run", "list_runs"})
  \cup ({"kg_server"} \X {"get_node", "get_neighbors", "search_nodes", "graph_stats",
      "query_provenance", "get_provenance_chain"})
  \cup ({"gdm"} \X {"query_components", "get_system_summary"})
  \cup ({"gdm_flow"} \X {"run_ac_pf"})
  \cup ({"erad"} \X {"load_distribution_model", "load_hazard_model",
      "list_historic_hurricanes", "list_historic_wildfires", "get_failed_assets"})
  \cup ({"ditto"} \X {"read_opendss_model", "convert_model"})
  \cup ({"shift"} \X {"fetch_parcels", "cluster_parcels"})

WRITE_TOOLS ==
  ({"workflow_runner"} \X {"run_workflow", "create_workflow"})
  \cup ({"kg_server"} \X {"ingest", "ingest_components"})
  \cup ({"gdm"} \X {"split_by_substation", "split_by_feeder"})
  \cup ({"gdm_flow"} \X {"export_sqlite"})
  \cup ({"erad"} \X {"run_simulation", "export_to_sqlite", "export_csv",
      "export_parquet"})
  \cup ({"ditto"} \X {"write_cim"})
  \cup ({"shift"} \X {"build_graph_from_groups", "create_mesh_network"})

\* The tools of this repository's servers whose handlers write: templates and
\* runs, nodes and edges.
ChangingTools ==
  {<<"workflow_runner", "run_workflow">>, <<"workflow_runner", "create_workflow">>,
   <<"kg_server", "ingest">>, <<"kg_server", "ingest_components">>}

catalog_allowed(tool, allow_write) == allow_write \/ tool \in READ_ONLY_TOOLS

\* What drift_report complains about: tools classified twice, tools unknown.
drift_report(read, write, known) == (read \cap write) \cup ((read \cup write) \ known)

ASSUME Curated ==
  /\ drift_report(READ_ONLY_TOOLS, WRITE_TOOLS, KNOWN_TOOLS) = {}
  /\ READ_ONLY_TOOLS \cup WRITE_TOOLS = KNOWN_TOOLS
=============================================================================
