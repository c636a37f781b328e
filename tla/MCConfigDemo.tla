----------------------------- MODULE MCConfigDemo -----------------------------
(* Instances of ConfigDemo for TLC.                                        *)
EXTENDS ConfigDemo

\* Every option that the sources treat in a way of its own, a file name and two numbers,
\* one of them larger than a port.
MCWords == {"-s", "-p", "-d", "-c", "-h", "--config", "--config=a.conf", "--config=",
            "b.conf", "70000"}

MCEnvironments ==
  LET nothing == [s \in {} |-> 0]
      values == [address |-> "env", port |-> 9000, log_level |-> 1, debug |-> "0"]
      file == [config_file |-> "b.conf"]
  IN {nothing, values, file}

MCContents ==
  "a.conf" :> [address |-> "a", debug |-> "true"]
  @@ "b.conf" :> [port |-> 65537, log_level |-> 2]
  @@ DefaultFile :> [address |-> "etc", port |-> 1]
  @@ UserFile :> [debug |-> "1"]

MCFileSystems == {{}, {"a.conf"}, {UserFile, "b.conf"}, DOMAIN MCContents}
===============================================================================
