------------------------------ MODULE Sandbox ------------------------------
(***************************************************************************)
(* The sandbox configuration a plugin gets: the templates and presets of   *)
(* crates/sandbox and resolve_sandbox of mcp-runtime's sandbox.rs.         *)
(*                                                                         *)
(* Each system call or path stands for its kind: what a configuration lets *)
(* a plugin do, not how the kernel is told.                                *)
(***************************************************************************)
Capability == {"model:invoke", "mcp:spawn", "network:egress", "fs:read", "fs:write", "audit:emit"}

\* SeccompTemplate: the kinds of calls with the action Allow; the default of either
\* profile is Errno.
SeccompMcpPlugin == {"basic", "open"}
SeccompModelRuntime == SeccompMcpPlugin \cup {"socket", "epoll"}

\* AppArmorTemplate.
AppArmorMcpPlugin == [read_paths |-> {"plugin_dir", "lib"},
                      write_paths |-> {},
                      network_access |-> FALSE]
AppArmorModelRuntime == [read_paths |-> {"plugin_dir", "lib"},
                         write_paths |-> {"own_log_dir"},
                         network_access |-> TRUE]

\* NamespacePreset: the namespaces a plugin does not share with the host.
NamespaceFull == {"pid", "net", "mount", "ipc", "user"}
NamespaceNetworkOnly == {"net"}

\* CapabilityPreset.
CapabilityMinimal ==
    [allowed |-> {}, denied |-> {"NET_RAW", "NET_ADMIN", "SYS_ADMIN", "SYS_PTRACE", "SYS_MODULE", "MKNOD"}]
CapabilityModelRuntime ==
    [allowed |-> {"NET_BIND_SERVICE"}, denied |-> {"SYS_ADMIN", "SYS_PTRACE", "SYS_MODULE", "MKNOD"}]

resolve_sandbox(capabilities) ==
    IF "network:egress" \in capabilities
    THEN [seccomp |-> SeccompModelRuntime, apparmor |-> AppArmorModelRuntime,
          namespaces |-> NamespaceNetworkOnly, capabilities |-> CapabilityModelRuntime]
    ELSE [seccomp |-> SeccompMcpPlugin, apparmor |-> AppArmorMcpPlugin,
          namespaces |-> NamespaceFull, capabilities |-> CapabilityMinimal]
-----------------------------------------------------------------------------
\* Any of the ways onto the network that a configuration opens.  (None opens all
\* of them: every namespace preset in use keeps a network of its own.)
OpensNetwork(config) == \/ "socket" \in config.seccomp
                        \/ config.apparmor.network_access
                        \/ "NET_BIND_SERVICE" \in config.capabilities.allowed
                        \/ "net" \notin config.namespaces
=============================================================================
