----------------------------- MODULE HttpRouter -----------------------------
(***************************************************************************)
(* Start-up (main, Initializer, Settings) and routing (HTTP_Router,        *)
(* HTTP_Handler_Factory, HTTP_Handler, HTTP_Echo_Handler): settings and    *)
(* routes are read once, then requests are dispatched on their decoded     *)
(* path.                                                                   *)
(*                                                                         *)
(* The factory is filled before main() by the REGISTER_HTTP_HANDLER        *)
(* objects.  unregister_handler has no caller; it may come at any time     *)
(* once the server serves.                                                 *)
(*                                                                         *)
(* A definition whose name ends in Bug is a faulty variant of the one      *)
(* after it; it shows that a property can fail.  Nothing else uses it.     *)
(***************************************************************************)
EXTENDS HttpUri

CONSTANTS
    Registered,     \* names of the handler classes
    Implements,     \* per class, the methods it overrides
    Methods,        \* methods of requests
    Targets,        \* targets of requests
    Globals,        \* contents of the global configuration: [host, port]
    Addresses,      \* the hosts make_address accepts
    NotObject,      \* the one that is missing, not JSON, empty or no object
    Configs,        \* contents of handler.conf
    NotArray,       \* the one that is missing, not JSON or no array
    BrokenArray,    \* the one that is not JSON, but only after its opening bracket
    Invalid,        \* an entry without a string "path" and "handler"; a host
                    \* or port that is missing or of another type
    None

\* A text is a sequence of characters; a port in the file has any size.
ASSUME RouterAssumption ==
    /\ Implements \in [Registered -> SUBSET Methods]
    /\ None \notin Registered
    /\ BrokenArray # NotArray
    /\ Targets \subseteq Seq(STRING)
    /\ Globals \subseteq {NotObject} \cup [host : {Invalid} \cup STRING,
                                           port : {Invalid} \cup Nat]
    /\ Configs \subseteq {NotArray, BrokenArray}
                           \cup Seq({Invalid} \cup [path : Seq(STRING), handler : STRING])

VARIABLES
    phase,      \* main(): "starting", "configured", "serving" or "exited"
    settings,   \* Settings: host and port
    creators,   \* creators_, the names in the factory
    routes,     \* routes_, a function from paths to handler names
    reply,      \* the last response, None if the factory changed since
    config      \* history: the two files, [global, handlers]

vars == <<phase, settings, creators, routes, reply, config>>

Defaults == [host |-> "127.0.0.1", port |-> 8080]

Init ==
    /\ phase = "starting"
    /\ settings = Defaults
    /\ creators = Registered
    /\ routes = << >>
    /\ reply = None
    /\ config = [global |-> NotObject, handlers |-> NotArray]

\* HTTP_Handler_Factory
contains(name) == name \in creators

create(name) == IF name \in creators THEN name ELSE None

unregister_handler(name) ==
    /\ name \in creators
    /\ creators' = creators \ {name}
    /\ reply' = None
    /\ UNCHANGED <<phase, settings, routes, config>>

\* HTTP_Router::add: a later entry for a path replaces an earlier one.
add(r, path, name) ==
    [p \in DOMAIN r \cup {path} |-> IF p = path THEN name ELSE r[p]]

\* The port is read as an unsigned number of any size, then cut to 16 bits.
Port_Bug(p) == p % 2^15

Port(p) == p % 2^16

parse_settings(g) ==
    [host |-> IF g.host = Invalid THEN settings.host ELSE g.host,
     port |-> IF g.port = Invalid THEN settings.port ELSE Port(g.port)]

(***************************************************************************)
(* The JSON value in handler.conf.  The parser builds it in place and      *)
(* throws where the text is malformed; clear() then empties the array that *)
(* was begun, and leaves it an array.  (In the global configuration such a *)
(* value is empty, as is a missing one: NotObject.)                        *)
(***************************************************************************)
parse_from_file(file) == IF file = BrokenArray THEN << >> ELSE file

parse_http_handler_config(entries) ==
    LET loaded[n \in 0 .. Len(entries)] ==
          IF n = 0 THEN << >>
          ELSE LET e == entries[n]
               IN  IF e # Invalid /\ contains(e.handler)
                   THEN add(loaded[n - 1], e.path, e.handler)
                   ELSE loaded[n - 1]
    IN  loaded[Len(entries)]

\* Initializer::init.  The log directory can be made or not.
init(log, g, file) ==
    /\ phase = "starting"
    /\ config' = [global |-> g, handlers |-> file]
    /\ \/ /\ ~log \/ g = NotObject
          /\ phase' = "exited"
          /\ UNCHANGED <<settings, routes>>
       \/ /\ log /\ g # NotObject
          /\ settings' = parse_settings(g)
          /\ \/ /\ file # NotArray
                /\ routes' = parse_http_handler_config(parse_from_file(file))
                /\ phase' = "configured"
             \/ /\ file = NotArray
                /\ phase' = "exited"
                /\ UNCHANGED routes
    /\ UNCHANGED <<creators, reply>>

\* The rest of main(): the host is no address, or the port can't be bound, or
\* the acceptor runs.
main ==
    /\ phase = "configured"
    /\ \/ phase' = "exited"
       \/ settings.host \in Addresses /\ phase' = "serving"
    /\ UNCHANGED <<settings, creators, routes, reply, config>>

\* path.rfind('/', len - 1), counted from 1; 0 is npos.
LastSlash(path, len) == SelectLastInSeq(SubSeq(path, 1, len), LAMBDA c : c = "/")

find_handler_Bug(path) ==
    LET from[len \in 1 .. Len(path)] ==
          IF SubSeq(path, 1, len) \in DOMAIN routes THEN routes[SubSeq(path, 1, len)]
          ELSE IF len = 1 THEN None ELSE from[len - 1]
    IN  IF path = << >> \/ path[1] # "/" THEN None ELSE from[Len(path)]

\* The handler's name, or None.
find_handler(path) ==
    LET from[len \in 1 .. Len(path)] ==
          LET key == SubSeq(path, 1, len)
              s   == LastSlash(path, len)
          IN  IF key \in DOMAIN routes THEN routes[key]
              ELSE IF len = 1 \/ s = 0 THEN None
              ELSE from[IF s = 1 THEN 1 ELSE s - 1]
    IN  IF path = << >> \/ path[1] # "/" THEN None ELSE from[Len(path)]

\* Every response is HTTP/1.1 and carries the request's keep-alive.
init_response(status, keep_alive) == [status |-> status, keep_alive |-> keep_alive]

not_implemented(keep_alive) == init_response(501, keep_alive)

internal_server_error(keep_alive) == init_response(500, keep_alive)

make_echo_response(keep_alive) == init_response(200, keep_alive)

\* HTTP_Handler::handle_request: what is not overridden is not implemented.
handle_request(handler, method, keep_alive) ==
    IF method \in {"get", "post", "put", "delete"} \cap Implements[handler]
    THEN make_echo_response(keep_alive)
    ELSE not_implemented(keep_alive)

dispatch(tgt, method, keep_alive) ==
    /\ phase = "serving"
    /\ LET path    == parse(tgt).decoded_path
           handler == create(find_handler(path))
       IN  reply' = [path |-> path, method |-> method, asked |-> keep_alive,
                     handler |-> handler,
                     answer |-> IF handler = None THEN internal_server_error(keep_alive)
                                ELSE handle_request(handler, method, keep_alive)]
    /\ UNCHANGED <<phase, settings, creators, routes, config>>

Next ==
    \/ \E log \in BOOLEAN, g \in Globals, file \in Configs : init(log, g, file)
    \/ main
    \/ \E t \in Targets, m \in Methods, k \in BOOLEAN : dispatch(t, m, k)
    \/ \E name \in Registered : phase = "serving" /\ unregister_handler(name)

Spec == Init /\ [][Next]_vars

-----------------------------------------------------------------------------
\* Route r covers path p: it is p, or p goes on with a new segment after r.
Covers(r, p) ==
    /\ r # << >> /\ r[1] = "/"
    /\ IsPrefix(r, p)
    /\ r = p \/ r = <<"/">> \/ p[Len(r) + 1] = "/"

Covering(p) == {r \in DOMAIN routes : Covers(r, p)}

(***************************************************************************)
(* A request goes to the handler of the longest route that covers its      *)
(* decoded path in whole segments, whatever its query (find_handler).  It  *)
(* is an internal server error exactly when no route covers the path or    *)
(* the handler was unregistered: entries that name an unknown handler      *)
(* never become routes, so they don't hide a more general route.  No       *)
(* answer changes what the request asked of the connection.                *)
(***************************************************************************)
RoutesToLongestPrefix ==
    reply # None =>
        /\ reply.answer.keep_alive = reply.asked
        /\ \/ /\ Covering(reply.path) = {}
              /\ reply.answer.status = 500
           \/ \E r \in Covering(reply.path) :
                 /\ \A o \in Covering(reply.path) : Len(o) <= Len(r)
                 /\ \/ reply.handler = routes[r] /\ reply.answer.status # 500
                    \/ routes[r] \in Registered \ creators /\ reply.answer.status = 500

(***************************************************************************)
(* The entries of handler.conf that name a handler of the factory; none if *)
(* the file breaks off.                                                    *)
(***************************************************************************)
Usable(file) ==
    IF file = BrokenArray THEN {}
    ELSE {i \in DOMAIN file : file[i] # Invalid /\ file[i].handler \in Registered}

\* The routes are the paths of these entries, each with its last handler.
RoutesAsListed(file) ==
    /\ DOMAIN routes = {file[i].path : i \in Usable(file)}
    /\ \A i \in Usable(file) :
          \/ routes[file[i].path] = file[i].handler
          \/ \E j \in Usable(file) : i < j /\ file[j].path = file[i].path

(***************************************************************************)
(* The server serves only if the global configuration is an object and     *)
(* handler.conf begins an array.  It serves at the host and the port of    *)
(* the first, which must be an address, or at 127.0.0.1 and 8080 where the *)
(* file names none; a port above 65535 becomes another one (65536 becomes  *)
(* 0, any free port).  Its routes are the entries of the second, the last  *)
(* one for each path; if that file breaks off, the server serves all the   *)
(* same, without any route (parse_from_file, Initializer::init, main).     *)
(***************************************************************************)
ServesAsConfigured ==
    phase = "serving" =>
        LET g == config.global
        IN  /\ g # NotObject /\ config.handlers # NotArray
            /\ settings.host \in Addresses
            /\ settings.host = IF g.host = Invalid THEN "127.0.0.1" ELSE g.host
            /\ g.port = Invalid => settings.port = 8080
            /\ g.port # Invalid /\ g.port < 2^16 => settings.port = g.port
            /\ RoutesAsListed(config.handlers)
=============================================================================
